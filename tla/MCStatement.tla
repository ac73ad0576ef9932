---------------------------- MODULE MCStatement ----------------------------
(* Small instances of Statement: families of statements over two tables.   *)
EXTENDS Statement

C(name, type) == [name |-> name, type |-> type]
TwoTables ==
    [t |-> <<C("x", "INT"), C("y", "INT"), C("f", "DOUBLE"), C("s", "STRING")>>,
     u |-> <<C("x", "INT"), C("z", "INT")>>]

R(x, y, f, s) == ("x" :> x) @@ ("y" :> y) @@ ("f" :> f) @@ ("s" :> s)
FewRows ==
    <<R(IntValue(3), IntValue(0), DoubleValue(1, 2), WordValue(<<"a", "b">>)),
      R(NullValue, IntValue(2), NullValue, NullValue),
      R(IntValue(MaxInt), IntValue(-1), DoubleValue(3, 1), WordValue(<<"B">>))>>
RowsOf == [t |-> FewRows, u |-> <<("x" :> IntValue(1)) @@ ("z" :> NullValue)>>]

-----------------------------------------------------------------------------
(* Statements.                                                             *)

From(name, alias) == [table_name |-> name, alias |-> alias]
Item(e)      == [expr |-> e, alias |-> ""]
As(e, alias) == [expr |-> e, alias |-> alias]
Asc(e)       == [expr |-> e, desc |-> FALSE]

Query(select, where) ==
    [distinct |-> FALSE, select_star |-> FALSE, select_list |-> select, from |-> From("t", ""),
     join |-> Nothing, where |-> where, group_by |-> << >>, having |-> Nothing,
     order_by |-> << >>, limit |-> Nothing]

Select(exprs) == {Query(<<Item(e)>>, Nothing) : e \in exprs}
Where(exprs)  == {Query(<<Item(ColumnRef("", "x"))>>, e) : e \in exprs}

X == ColumnRef("", "x")
Y == ColumnRef("", "y")
F == ColumnRef("", "f")
S == ColumnRef("", "s")
I(n) == Literal(IntValue(n))
D(n, d) == Literal(DoubleValue(n, d))
W(letters) == Literal(WordValue(letters))

-----------------------------------------------------------------------------
(* Expressions of INTs, two operators deep.                                *)

Binaries(ops, left, right) == {BinaryExpr(op, l, r) : op \in ops, l \in left, r \in right}

Leaves  == {X, I(2)}
Shallow ==
    Binaries({"-", "/", "<", "AND", "OR"}, Leaves, Leaves)
    \cup {UnaryExpr(X), IsNullExpr(X, "IS NULL"), IsNullExpr(X, "IS NOT NULL"),
          BetweenExpr(X, I(2), Y, "BETWEEN"), BetweenExpr(X, Y, I(2), "NOT BETWEEN")}
Operands ==
    Binaries({"-", "/", "<", "AND", "OR"}, {X}, {I(2)})
    \cup {UnaryExpr(X), IsNullExpr(X, "IS NOT NULL"), BetweenExpr(X, Y, I(2), "BETWEEN")}
Deep ==
    Binaries({"-", "/", "<", "AND", "OR"}, Operands \cup {I(2)}, Operands \cup {X})
    \cup {UnaryExpr(e) : e \in Shallow} \cup {IsNullExpr(e, "IS NULL") : e \in Shallow}
    \cup {BetweenExpr(e, I(0), e2, op) : e \in Operands, e2 \in Operands, op \in {"BETWEEN", "NOT BETWEEN"}}

-----------------------------------------------------------------------------
(* Dates.                                                                  *)

Dates ==
    {Civil(0, 1, 1), Civil(1899, 12, 31), Civil(1900, 1, 31), Civil(1996, 2, 29), Civil(2000, 2, 29),
     Civil(2023, 3, 31), Civil(9999, 12, 31)}
Intervals == {IntervalLiteral(n, unit) : n \in {-1200, -13, -1, 0, 1, 12, 60}, unit \in {"day", "month", "year"}}

DateMath ==
    {BinaryExpr(op, Literal(DateValue(d)), i) : op \in {"+", "-"}, d \in Dates, i \in Intervals}
    \cup {BinaryExpr("+", i, Literal(DateValue(d))) : d \in Dates, i \in Intervals}
    \cup {BinaryExpr("<", BinaryExpr("-", BinaryExpr("+", Literal(DateValue(d)), i), i), Literal(DateValue(d)))
             : d \in Dates, i \in Intervals}

-----------------------------------------------------------------------------
(* LIKE and SUBSTRING.                                                     *)

Words(letters, most) == UNION {[1 .. n -> letters] : n \in 0 .. most}

Likes ==
    {LikeExpr(W(text), WordValue(pattern), "LIKE")
        : text \in Words({"a", "b"}, 3), pattern \in Words({"a", "B", "%", "_"}, 3)}
    \cup {LikeExpr(W(text), WordValue(pattern), "NOT LIKE")
        : text \in Words({"a", "b"}, 3), pattern \in [1 .. 4 -> {"a", "%"}]}

Substrings ==
    {SubstringExpr(<<e, I(n)>>) : e \in {S, W(<<"a", "b", "A">>)}, n \in 0 .. 4}
    \cup {SubstringExpr(<<e, n, m>>) : e \in {S, W(<<"a", "b", "A">>)},
             n \in {I(1), I(3), X, BinaryExpr("-", I(2), I(1))}, m \in {I(0), I(2), UnaryExpr(I(1)), Y}}

-----------------------------------------------------------------------------
(* Expressions of all types.                                               *)

Typed == {X, F, S, I(1), D(3, 2), W(<<"b">>), BinaryExpr("/", I(1), I(0)), BinaryExpr("+", I(MaxInt), I(1))}
Mixed ==
    Binaries({"+", "*", "<=", "OR"}, Typed, Typed)
    \cup {UnaryExpr(e) : e \in Typed} \cup {IsNullExpr(e, "IS NULL") : e \in Typed}
    \cup {LikeExpr(e, WordValue(<<"%", "b">>), "NOT LIKE") : e \in Typed}
    \cup {InExpr(e, values, op) : e \in Typed, op \in {"IN", "NOT IN"},
             values \in {<<IntValue(3)>>, <<DoubleValue(1, 2), IntValue(1)>>, <<WordValue(<<"B">>)>>,
                         <<IntValue(1), WordValue(<<"b">>)>>}}
    \cup {CaseExpr(<<BinaryExpr("=", Y, I(0)), e, e2>>) : e \in Typed, e2 \in Typed}
    \cup {CaseExpr(<<c, I(1), BinaryExpr("<", Y, I(1)), e>>) : c \in Typed, e \in Typed}
MixedDeep ==
    {IsNullExpr(e, "IS NOT NULL") : e \in Mixed}
    \cup Binaries({"="}, {BinaryExpr("+", X, S), BinaryExpr("*", X, F)}, Mixed)
    \cup {IsNullExpr(IntervalLiteral(1, "day"), "IS NULL")}

-----------------------------------------------------------------------------
(* Grouped statements, on one table and on two.                            *)

Grouping(from, join, select, keys, having, order) ==
    [Query(select, Nothing) EXCEPT !.from = from, !.join = join, !.group_by = keys,
                                   !.having = having, !.order_by = order]

Sum(e) == AggregateExpr("SUM", <<e>>)
MinOf(e) == AggregateExpr("MIN", <<e>>)
Positive1(e) == BinaryExpr(">", e, I(0))

XMinus1  == BinaryExpr("-", X, I(1))
TXMinus1 == BinaryExpr("-", ColumnRef("t", "x"), I(1))
XMinus1D == BinaryExpr("-", X, D(1, 1))

Keys == {<<X>>, <<XMinus1>>, <<XMinus1D>>, <<X, XMinus1>>, <<ColumnRef("", "k")>>, <<XMinus1, XMinus1D>>, <<S>>}
Items ==
    {Item(X), Item(XMinus1), Item(TXMinus1), As(BinaryExpr("/", XMinus1D, I(2)), "k"), As(XMinus1, "k"),
     Item(Sum(Y)), Item(BinaryExpr("/", Sum(Y), AggregateExpr("COUNT", << >>))), Item(Sum(S)),
     Item(MinOf(BinaryExpr("/", X, I(2)))), Item(MinOf(BinaryExpr("/", X, D(2, 1))))}
Seconds == {Item(X), Item(TXMinus1), As(BinaryExpr("/", XMinus1D, I(2)), "k"), Item(Sum(Y))}
Above == {Y, TXMinus1, Sum(Y), ColumnRef("", "k")}

GroupedOne ==
    {Grouping(From("t", ""), Nothing, <<i, j>>, keys, having, order)
        : i \in Items, j \in Seconds, keys \in Keys \cup {<< >>},
          having \in {Nothing, Positive1(Sum(X)), Positive1(XMinus1)}, order \in {<< >>} \cup {<<Asc(e)>> : e \in Above}}

AX == ColumnRef("a", "x")
BX == ColumnRef("b", "x")
Z  == ColumnRef("", "z")
OnX == [table |-> From("u", "b"), condition |-> BinaryExpr("=", AX, BX)]

JoinKeys  == {<< >>, <<AX>>, <<BX>>, <<AX, BX>>, <<BinaryExpr("-", BX, I(1))>>, <<Z>>}
JoinItems ==
    {Item(AX), Item(BX), Item(Z), As(BX, "k"), Item(BinaryExpr("-", AX, I(1))), Item(BinaryExpr("-", BX, I(1))),
     Item(Sum(AX)), Item(Sum(BX)), Item(Sum(Z))}
GroupedTwo ==
    {Grouping(From("t", "a"), OnX, <<i, j>>, keys, having, order)
        : i \in JoinItems, j \in {Item(BX), As(AX, "k"), Item(Sum(BX))}, keys \in JoinKeys,
          having \in {Nothing, Positive1(BX), Positive1(Sum(BX))},
          order \in {<< >>, <<Asc(BX), Asc(AX)>>, <<Asc(Sum(Y))>>, <<Asc(ColumnRef("", "k"))>>}}

-----------------------------------------------------------------------------
(* Tokens put together without a statement in mind, and every clause at    *)
(* once, whole and cut short.                                              *)

Between(tokens) == <<Token("SELECT")>> \o tokens \o <<Token("FROM"), Identifier("t")>>

Lexemes1 == {Identifier("x"), Token("MINUS"), Token("STAR"), Token("EQ"), Token("AND"), Token("COMMA"),
             LiteralToken(IntValue(1))}
Lexemes2 == {Identifier("x"), Token("BETWEEN"), Token("AND"), Token("NOT")}
Lexemes3 == {Identifier("x"), Token("IS"), Token("NOT"), Token("NULL_KW"), Token("MINUS"), Token("OR")}

Everything ==
    [Grouping(From("t", "a"), OnX, <<As(XMinus1, "k"), Item(Sum(Y))>>, <<Z, XMinus1>>, Positive1(Sum(Y)),
              <<[expr |-> Z, desc |-> TRUE], Asc(Sum(Y))>>)
        EXCEPT !.distinct = TRUE, !.where = Positive1(Y), !.limit = [count |-> 5]]

Prefixes(tokens) == {SubSeq(tokens, 1, n) : n \in 0 .. Len(tokens)}

AllTexts ==
    {Between(s) : s \in Words(Lexemes1, 4) \cup Words(Lexemes2, 6) \cup Words(Lexemes3, 4)}
    \cup Prefixes(StatementTokens(Everything, FALSE))

AllStatements ==
    Select(Shallow \cup Deep \cup DateMath \cup Likes \cup Substrings \cup Mixed \cup MixedDeep)
    \cup Where(Shallow \cup Mixed) \cup GroupedOne \cup GroupedTwo
    \cup {Everything, [Everything EXCEPT !.select_star = TRUE, !.select_list = << >>]}

(* Two aggregates that may print alike.                                    *)
Alike == {Grouping(From("t", ""), Nothing, <<i, j>>, << >>, Nothing, << >>) : i \in Items, j \in Items}

NoTexts == {}
=============================================================================
