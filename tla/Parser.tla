------------------------------- MODULE Parser -------------------------------
(***************************************************************************)
(* The recursive-descent parser: from the tokens of a statement to its     *)
(* tree.  A method of the parser becomes an operator on the tokens and the *)
(* position it starts from; its result is [tree, at], what was read and    *)
(* the position after it.  Position 0 is a ParseError, which every         *)
(* operator hands on: no token stands there.                               *)
(***************************************************************************)
EXTENDS Syntax, Calendar

CONSTANT LimitWidth   \* bits of the number after LIMIT (32)

ASSUME LimitAssumption == LimitWidth \in Nat \ {0, 1} /\ LimitWidth <= Width

Token(type)            == [type |-> type, value |-> Nothing]
Lexeme(type, value)    == [type |-> type, value |-> value]
Identifier(name)       == Lexeme("IDENTIFIER", [name |-> name])

IsToken(token) ==
    CASE token.type = "IDENTIFIER" -> token.value = [name |-> token.value.name]
      [] token.type = "INT_LITERAL" -> IsValue(token.value) /\ token.value.type = "INT"
      [] token.type = "FLOAT_LITERAL" -> IsValue(token.value) /\ token.value.type = "DOUBLE"
      [] token.type = "STRING_LITERAL" -> IsText(token.value)
      [] OTHER -> TRUE

TypeAt(tokens, at) ==
    IF at = 0 THEN "PARSE_ERROR"
    ELSE IF at > Len(tokens) THEN "END_OF_FILE" ELSE tokens[at].type

Read(tree, at) == [tree |-> tree, at |-> at]
ParseError     == Read(Nothing, 0)

(* expect: the position after a token of this type.                        *)
Expect(tokens, at, type) == IF TypeAt(tokens, at) = type THEN at + 1 ELSE 0
(* match: the same, but the token may be missing.                          *)
Match(tokens, at, type)  == IF TypeAt(tokens, at) = type THEN at + 1 ELSE at

(* A result that continues with expect.                                    *)
Closed(tokens, r, type) ==
    IF Expect(tokens, r.at, type) = 0 THEN ParseError ELSE Read(r.tree, r.at + 1)

Symbol == [OR |-> "OR", AND |-> "AND", PLUS |-> "+", MINUS |-> "-", STAR |-> "*", SLASH |-> "/",
           EQ |-> "=", NEQ |-> "!=", LT |-> "<", GT |-> ">", LTE |-> "<=", GTE |-> ">="]

Comparators == {"EQ", "NEQ", "LT", "GT", "LTE", "GTE"}
Functions   == {"COUNT", "SUM", "AVG", "MIN", "MAX"}

(* The levels whose operators associate to the left, and the next tighter  *)
(* level.                                                                  *)
Operators == [OrExpr |-> {"OR"}, AndExpr |-> {"AND"}, Additive |-> {"PLUS", "MINUS"},
              Multiplicative |-> {"STAR", "SLASH"}]
Tighter   == [OrExpr |-> "AndExpr", AndExpr |-> "Compare", Additive |-> "Multiplicative",
              Multiplicative |-> "Unary"]

(* What there is to read from a position: a level, what a level or a list  *)
(* may continue with, and the lists.                                       *)
Levels == {"OrExpr", "AndExpr", "Compare", "Additive", "Multiplicative", "Unary"}
Rests  == [OrExpr |-> "OrRest", AndExpr |-> "AndRest", Additive |-> "AdditiveRest",
           Multiplicative |-> "MultiplicativeRest"]
Lists  == {"Whens", "Constants", "SELECT", "GROUP", "ORDER"}
Rules  == Levels \cup {Rests[level] : level \in DOMAIN Rests} \cup Lists

(* In what follows parse is the function that reads a rule from a position;*)
(* its definition is below.                                                *)
Reading(parse, rule, at) == IF at = 0 THEN ParseError ELSE parse[<<rule, at>>]
ParseExpr(parse, at) == Reading(parse, "OrExpr", at)

(* One operator and operand after the other, from the left.                *)
Operated(ctx, left, next) == BinaryExpr(next.op, left, next.right)

ChainFold == INSTANCE TreeFold WITH Step <- Operated
Chained(first, rest) == ChainFold!Sweep(Nothing, first, rest)

(* A left-associative level, and the while loop that reads its operators.  *)
ParseChain(parse, level, at) ==
    LET first == Reading(parse, Tighter[level], at)
        rest  == Reading(parse, Rests[level], first.at)
    IN  IF first.at = 0 \/ rest.at = 0 THEN ParseError
        ELSE Read(Chained(first.tree, rest.tree), rest.at)

ParseRest(parse, tokens, level, at) ==
    LET right == Reading(parse, Tighter[level], at + 1)
        rest  == Reading(parse, Rests[level], right.at)
        next  == [op |-> Symbol[TypeAt(tokens, at)], right |-> right.tree]
    IN  IF TypeAt(tokens, at) \notin Operators[level] THEN Read(<< >>, at)
        ELSE IF right.at = 0 \/ rest.at = 0 THEN ParseError
        ELSE Read(<<next>> \o rest.tree, rest.at)

-----------------------------------------------------------------------------
(* Primary expressions.                                                    *)

(* A literal, when it fits.                                                *)
ParseLiteral(tokens, at) ==
    LET v == tokens[at].value
    IN  IF v.type = "INT" /\ v.num > MaxInt THEN ParseError
        ELSE Read(Literal(v), at + 1)

(* One or more WHEN condition THEN result.                                 *)
ParseWhens(parse, tokens, at) ==
    LET condition == ParseExpr(parse, Expect(tokens, at, "WHEN"))
        result    == ParseExpr(parse, Expect(tokens, condition.at, "THEN"))
        when      == <<condition.tree, result.tree>>
        more      == Reading(parse, "Whens", result.at)
    IN  IF result.at = 0 THEN ParseError
        ELSE IF TypeAt(tokens, result.at) # "WHEN" THEN Read(when, result.at)
        ELSE IF more.at = 0 THEN ParseError
        ELSE Read(when \o more.tree, more.at)

ParseCase(parse, tokens, at) ==
    LET whens     == Reading(parse, "Whens", at + 1)
        otherwise == ParseExpr(parse, whens.at + 1)
    IN  IF whens.at = 0 THEN ParseError
        ELSE IF TypeAt(tokens, whens.at) # "ELSE"
        THEN Closed(tokens, Read(CaseExpr(whens.tree), whens.at), "END")
        ELSE IF otherwise.at = 0 THEN ParseError
        ELSE Closed(tokens, Read(CaseExpr(Append(whens.tree, otherwise.tree)), otherwise.at), "END")

(* SUBSTRING(x FROM start [FOR length]) and SUBSTRING(x, start [, length]). *)
ParseSubstring(parse, tokens, at) ==
    LET operand == ParseExpr(parse, Expect(tokens, at + 1, "LPAREN"))
        form    == IF TypeAt(tokens, operand.at) = "FROM" THEN "FOR" ELSE "COMMA"
        start   == ParseExpr(parse, IF form = "FOR" THEN operand.at + 1
                                    ELSE Expect(tokens, operand.at, "COMMA"))
        length  == ParseExpr(parse, start.at + 1)
    IN  IF start.at = 0 THEN ParseError
        ELSE IF TypeAt(tokens, start.at) # form
        THEN Closed(tokens, Read(SubstringExpr(<<operand.tree, start.tree>>), start.at), "RPAREN")
        ELSE IF length.at = 0 THEN ParseError
        ELSE Closed(tokens, Read(SubstringExpr(<<operand.tree, start.tree, length.tree>>), length.at), "RPAREN")

ParseDate(tokens, at) ==
    LET v == tokens[at + 1].value
    IN  IF Expect(tokens, at + 1, "STRING_LITERAL") = 0 THEN ParseError
        ELSE IF "date" \notin DOMAIN v \/ ~ IsIsoDate(v.date) THEN ParseError
        ELSE Read(Literal(v), at + 2)

ParseInterval(tokens, at) ==
    LET n == tokens[at + 1].value
        u == tokens[at + 2].value
    IN  IF Expect(tokens, Expect(tokens, at + 1, "STRING_LITERAL"), "IDENTIFIER") = 0 THEN ParseError
        ELSE IF "count" \notin DOMAIN n \/ u.name \notin {"day", "month", "year"} THEN ParseError
        ELSE IF n.count \notin MinInt .. MaxInt THEN ParseError
        ELSE Read(IntervalLiteral(n.count, u.name), at + 3)

ParseAggregate(parse, tokens, at) ==
    LET open     == Expect(tokens, at + 1, "LPAREN")
        argument == ParseExpr(parse, open)
        function(args, end) == Closed(tokens, Read(AggregateExpr(tokens[at].type, args), end), "RPAREN")
    IN  IF TypeAt(tokens, open) = "STAR" THEN function(<< >>, open + 1)
        ELSE IF argument.at = 0 THEN ParseError
        ELSE function(<<argument.tree>>, argument.at)

ParseColumn(tokens, at) ==
    LET name == tokens[at].value.name
    IN  IF TypeAt(tokens, at + 1) # "DOT" THEN Read(ColumnRef(NoName, name), at + 1)
        ELSE IF TypeAt(tokens, at + 2) # "IDENTIFIER" THEN ParseError
        ELSE Read(ColumnRef(name, tokens[at + 2].value.name), at + 3)

(* A leading NOT falls through: no expression begins with it.              *)
ParsePrimary(parse, tokens, at) ==
    LET type == TypeAt(tokens, at)
    IN  CASE type = "LPAREN"    -> Closed(tokens, ParseExpr(parse, at + 1), "RPAREN")
          [] type \in {"INT_LITERAL", "FLOAT_LITERAL", "STRING_LITERAL"} -> ParseLiteral(tokens, at)
          [] type = "CASE"      -> ParseCase(parse, tokens, at)
          [] type = "SUBSTRING" -> ParseSubstring(parse, tokens, at)
          [] type = "DATE"      -> ParseDate(tokens, at)
          [] type = "INTERVAL"  -> ParseInterval(tokens, at)
          [] type \in Functions -> ParseAggregate(parse, tokens, at)
          [] type = "IDENTIFIER" -> ParseColumn(tokens, at)
          [] OTHER -> ParseError

ParseUnary(parse, tokens, at) ==
    LET operand == Reading(parse, "Unary", at + 1)
    IN  IF TypeAt(tokens, at) # "MINUS" THEN ParsePrimary(parse, tokens, at)
        ELSE IF operand.at = 0 THEN ParseError
        ELSE Read(UnaryExpr(operand.tree), operand.at)

-----------------------------------------------------------------------------
(* Comparisons.                                                            *)

(* constantValue: a literal, or a number with one minus.                   *)
IsConstant(e) ==
    \/ e.kind = "Literal"
    \/ e.kind = "UnaryExpr" /\ e.args[1].kind = "Literal" /\ e.args[1].payload.type # "STRING"

ConstantValue(e) ==
    IF e.kind = "Literal" THEN e.payload ELSE [e.args[1].payload EXCEPT !.num = - @]

ParseConstants(parse, tokens, at) ==
    LET element == Reading(parse, "Unary", at)
        more    == Reading(parse, "Constants", element.at + 1)
    IN  IF element.at = 0 THEN ParseError
        ELSE IF ~ IsConstant(element.tree) THEN ParseError
        ELSE IF TypeAt(tokens, element.at) # "COMMA" THEN Read(<<ConstantValue(element.tree)>>, element.at)
        ELSE IF more.at = 0 THEN ParseError
        ELSE Read(<<ConstantValue(element.tree)>> \o more.tree, more.at)

(* Wrong variant: the bounds are read as whole expressions.                *)
ParseBetweenExpr(parse, tokens, at, operand, negated) ==
    LET lower == ParseExpr(parse, at + 1)
        upper == ParseExpr(parse, Expect(tokens, lower.at, "AND"))
    IN  IF upper.at = 0 THEN ParseError
        ELSE Read(IF negated
                  THEN BinaryExpr("OR", BinaryExpr("<", operand, lower.tree),
                                        BinaryExpr(">", operand, upper.tree))
                  ELSE BinaryExpr("AND", BinaryExpr(">=", operand, lower.tree),
                                         BinaryExpr("<=", operand, upper.tree)), upper.at)

(* BETWEEN is written out as two comparisons; its bounds are additive, so  *)
(* that a second AND is left to the level above.                           *)
ParseBetween(parse, tokens, at, operand, negated) ==
    LET lower == Reading(parse, "Additive", at + 1)
        upper == Reading(parse, "Additive", Expect(tokens, lower.at, "AND"))
    IN  IF upper.at = 0 THEN ParseError
        ELSE Read(IF negated
                  THEN BinaryExpr("OR", BinaryExpr("<", operand, lower.tree),
                                        BinaryExpr(">", operand, upper.tree))
                  ELSE BinaryExpr("AND", BinaryExpr(">=", operand, lower.tree),
                                         BinaryExpr("<=", operand, upper.tree)), upper.at)

ParseIn(parse, tokens, at, operand, op) ==
    LET values == Reading(parse, "Constants", Expect(tokens, at + 1, "LPAREN"))
    IN  IF values.at = 0 THEN ParseError
        ELSE Closed(tokens, Read(InExpr(operand, values.tree, op), values.at), "RPAREN")

(* What may follow an operand: nothing, IS [NOT] NULL, [NOT] BETWEEN, LIKE *)
(* or IN, or a comparison.                                                 *)
ParseCompare(parse, tokens, at) ==
    LET left    == Reading(parse, "Additive", at)
        negated == TypeAt(tokens, left.at) = "NOT"
        next    == IF negated THEN left.at + 1 ELSE left.at
        type    == TypeAt(tokens, next)
        op(o, not) == IF negated THEN not ELSE o
        isNot   == TypeAt(tokens, left.at + 1) = "NOT"
        null    == Expect(tokens, IF isNot THEN left.at + 2 ELSE left.at + 1, "NULL_KW")
        right   == Reading(parse, "Additive", next + 1)
    IN  IF left.at = 0 THEN ParseError
        ELSE CASE type = "BETWEEN" -> ParseBetween(parse, tokens, next, left.tree, negated)
               [] type = "LIKE" ->
                    IF TypeAt(tokens, next + 1) # "STRING_LITERAL" THEN ParseError
                    ELSE Read(LikeExpr(left.tree, tokens[next + 1].value, op("LIKE", "NOT LIKE")), next + 2)
               [] type = "IN" -> ParseIn(parse, tokens, next, left.tree, op("IN", "NOT IN"))
               [] negated /\ type \notin {"BETWEEN", "LIKE", "IN"} -> ParseError
               [] ~ negated /\ type = "IS" ->
                    IF null = 0 THEN ParseError
                    ELSE Read(IsNullExpr(left.tree, IF isNot THEN "IS NOT NULL" ELSE "IS NULL"), null)
               [] ~ negated /\ type \in Comparators ->
                    IF right.at = 0 THEN ParseError
                    ELSE Read(BinaryExpr(Symbol[type], left.tree, right.tree), right.at)
               [] OTHER -> left

-----------------------------------------------------------------------------
(* The SELECT statement.                                                   *)

(* An item of a list: the expression read and what may follow it.          *)
ItemOf(list, tokens, e) ==
    LET alias == Expect(tokens, e.at + 1, "IDENTIFIER")
        desc  == TypeAt(tokens, e.at) = "DESC"
    IN  IF e.at = 0 THEN ParseError
        ELSE CASE list = "GROUP" -> e
               [] list = "ORDER" ->
                    Read([expr |-> e.tree, desc |-> desc],
                         IF desc THEN e.at + 1 ELSE Match(tokens, e.at, "ASC"))
               [] list = "SELECT" ->
                    IF TypeAt(tokens, e.at) # "AS" THEN Read([expr |-> e.tree, alias |-> NoName], e.at)
                    ELSE IF alias = 0 THEN ParseError
                    ELSE Read([expr |-> e.tree, alias |-> tokens[e.at + 1].value.name], alias)

ParseList(parse, list, tokens, at) ==
    LET item == ItemOf(list, tokens, ParseExpr(parse, at))
        more == Reading(parse, list, item.at + 1)
    IN  IF item.at = 0 THEN ParseError
        ELSE IF TypeAt(tokens, item.at) # "COMMA" THEN Read(<<item.tree>>, item.at)
        ELSE IF more.at = 0 THEN ParseError
        ELSE Read(<<item.tree>> \o more.tree, more.at)

(* What a rule reads from a position, given what the rules read that it    *)
(* calls.                                                                  *)
ParseRule(parse, tokens, rule, at) ==
    CASE rule \in DOMAIN Operators -> ParseChain(parse, rule, at)
      [] rule = "Compare"   -> ParseCompare(parse, tokens, at)
      [] rule = "Unary"     -> ParseUnary(parse, tokens, at)
      [] rule = "Whens"     -> ParseWhens(parse, tokens, at)
      [] rule = "Constants" -> ParseConstants(parse, tokens, at)
      [] rule \in {"SELECT", "GROUP", "ORDER"} -> ParseList(parse, rule, tokens, at)
      [] OTHER -> ParseRest(parse, tokens, CHOOSE level \in DOMAIN Rests : Rests[level] = rule, at)

Parse(tokens) ==
    LET parse[cell \in Rules \X (1 .. Len(tokens) + 1)] ==
            ParseRule(parse, tokens, cell[1], cell[2])
    IN  parse

(* A name and an optional alias, with or without AS.                       *)
ParseTable(tokens, at) ==
    LET name  == Expect(tokens, at, "IDENTIFIER")
        as    == Match(tokens, name, "AS")
        table(alias, end) == Read([table_name |-> tokens[at].value.name, alias |-> alias], end)
    IN  IF name = 0 THEN ParseError
        ELSE IF TypeAt(tokens, as) = "IDENTIFIER" THEN table(tokens[as].value.name, as + 1)
        ELSE IF as # name THEN ParseError
        ELSE table(NoName, name)

ParseJoin(parse, tokens, table) ==
    LET join(on) == IF on.at = 0 THEN ParseError
                    ELSE Read([table |-> table.tree, condition |-> on.tree], on.at)
    IN  join(ParseExpr(parse, Expect(tokens, table.at, "ON")))

ParseLimit(tokens, at) ==
    IF TypeAt(tokens, at) # "INT_LITERAL" THEN ParseError
    ELSE IF tokens[at].value.num > 2 ^ (LimitWidth - 1) - 1 THEN ParseError
    ELSE Read([count |-> tokens[at].value.num], at + 1)

(* The clauses after the select list, each by the field of the statement   *)
(* it fills, and their keywords.  Only FROM must be there.                 *)
Clauses == <<"from", "join", "where", "group_by", "having", "order_by", "limit">>
Keyword == [from |-> "FROM", join |-> "JOIN", where |-> "WHERE", group_by |-> "GROUP",
            having |-> "HAVING", order_by |-> "ORDER", limit |-> "LIMIT"]

(* A clause, from the position after its keyword.                          *)
ParseClause(parse, clause, tokens, at) ==
    CASE clause = "from"     -> ParseTable(tokens, at)
      [] clause = "join"     -> ParseJoin(parse, tokens, ParseTable(tokens, at))
      [] clause \in {"where", "having"} -> ParseExpr(parse, at)
      [] clause = "group_by" -> Reading(parse, "GROUP", Expect(tokens, at, "BY"))
      [] clause = "order_by" -> Reading(parse, "ORDER", Expect(tokens, at, "BY"))
      [] clause = "limit"    -> ParseLimit(tokens, at)

(* The statement so far, r, with a clause that may be missing.             *)
WithClause(tokens, r, clause) ==
    LET c == ParseClause(Parse(tokens), clause, tokens, r.at + 1)
    IN  IF TypeAt(tokens, r.at) # Keyword[clause] THEN IF clause = "from" THEN ParseError ELSE r
        ELSE IF c.at = 0 THEN ParseError
        ELSE Read([r.tree EXCEPT ![clause] = c.tree], c.at)

ClauseFold == INSTANCE TreeFold WITH Step <- WithClause

(* What stands in the fields of the clauses that are missing.              *)
Blank(distinct, star, list) ==
    [distinct |-> distinct, select_star |-> star, select_list |-> list, from |-> Nothing,
     join |-> Nothing, where |-> Nothing, group_by |-> << >>, having |-> Nothing,
     order_by |-> << >>, limit |-> Nothing]

(* parse: SELECT and its clauses in their order, and nothing after them    *)
(* but a semicolon.                                                        *)
ParseSelect(tokens) ==
    LET start  == Match(tokens, Expect(tokens, 1, "SELECT"), "DISTINCT")
        star   == TypeAt(tokens, start) = "STAR"
        list   == IF star THEN Read(<< >>, start + 1) ELSE Reading(Parse(tokens), "SELECT", start)
        select == IF list.at = 0 THEN ParseError ELSE Read(Blank(start = 3, star, list.tree), list.at)
        whole  == ClauseFold!Sweep(tokens, select, Clauses)
    IN  IF TypeAt(tokens, Match(tokens, whole.at, "SEMICOLON")) # "END_OF_FILE" THEN ParseError ELSE whole
=============================================================================
