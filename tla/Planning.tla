------------------------------ MODULE Planning ------------------------------
(***************************************************************************)
(* From the tree of a statement to its logical plan: binding and constant  *)
(* folding (binder.cc, constant_folding.cc), validation (validator.cc) and *)
(* the schemas that rows have between the operators (logical_plan.cc).     *)
(*                                                                         *)
(* A pass is an operator on trees.  A tree with an Invalid node in it is   *)
(* the error the pass throws.  Joins are on a column of each side; which   *)
(* conditions are accepted is the subject of JoinQuery.                    *)
(***************************************************************************)
EXTENDS Evaluation, Calendar

CONSTANT Catalog   \* from the names of tables to sequences of [name, type]

Invalid == Node("Invalid", NoName, << >>, Nothing)

InvalidNode(ctx, e, invalid) == e.kind = "Invalid" \/ \E n \in DOMAIN e.args : invalid[n]

InvalidWalk  == INSTANCE TreeFold WITH Step <- InvalidNode
IsInvalid(e) == e # Nothing /\ InvalidWalk!Fold(Nothing, e)

(* A pass over the expressions of a statement: over an optional one, over  *)
(* the items of a list, over the condition of a join.                      *)
Maybe(e, Pass(_)) == IF e = Nothing THEN Nothing ELSE Pass(e)
Each(items, Pass(_)) == [n \in DOMAIN items |-> [items[n] EXCEPT !.expr = Pass(@)]]
Condition(join, Pass(_)) == IF join = Nothing THEN Nothing ELSE [join EXCEPT !.condition = Pass(@)]

(* The expressions of a statement above its aggregation.                   *)
Roots(s) ==
    [n \in DOMAIN s.select_list |-> s.select_list[n].expr] \o <<s.having>>
    \o [n \in DOMAIN s.order_by |-> s.order_by[n].expr]

Expressions(s) ==
    Roots(s) \o s.group_by \o <<s.where>> \o (IF s.join = Nothing THEN << >> ELSE <<s.join.condition>>)

-----------------------------------------------------------------------------
(* Constant folding.                                                       *)

(* '1998-12-01' - interval '90' day: a literal again.  Dates may be any    *)
(* text that is one; the interval may come first when it is added.         *)
IsDateInterval(e) ==
    LET swap == e.op = "+" /\ e.args[1].kind = "IntervalLiteral"
        date == e.args[IF swap THEN 2 ELSE 1]
    IN  /\ e.kind = "BinaryExpr" /\ e.op \in {"+", "-"}
        /\ e.args[IF swap THEN 1 ELSE 2].kind = "IntervalLiteral"
        /\ date.kind = "Literal" /\ "date" \in DOMAIN date.payload /\ IsIsoDate(date.payload.date)

FoldDateInterval(e) ==
    LET i == IF e.args[1].kind = "IntervalLiteral" THEN 1 ELSE 2
        n == e.args[i].payload.count
        date == Add(e.args[3 - i].payload.date, IF e.op = "-" THEN - n ELSE n, e.args[i].payload.unit)
    IN  IF (e.op = "-" /\ n = MinInt) \/ date = OutOfRange THEN Invalid ELSE Literal(DateValue(date))

(* An operation on literals becomes its value, unless it raises or is NULL:*)
(* then it is left to the row that gets there.                             *)
FoldOperation(e) ==
    LET valued(v) == IF Raises(v) \/ IsNull(v) THEN e ELSE Literal(v)
    IN  IF e.kind = "BinaryExpr" /\ IsDateInterval(e) THEN FoldDateInterval(e)
        ELSE IF /\ e.kind = "UnaryExpr" \/ (e.kind = "BinaryExpr" /\ e.op \in ArithOps)
                /\ \A n \in DOMAIN e.args : e.args[n].kind = "Literal"
        THEN valued(Evaluate(e, << >>, << >>))
        ELSE e

FoldedNode(ctx, e, args) == FoldOperation(WithArgs(e, args))

FoldWalk    == INSTANCE TreeFold WITH Step <- FoldedNode
FoldNode(e) == FoldWalk!Fold(Nothing, e)

FoldConstants(s) ==
    [s EXCEPT !.select_list = Each(@, FoldNode),
              !.where       = Maybe(@, FoldNode),
              !.group_by    = [n \in DOMAIN @ |-> FoldNode(@[n])],
              !.having      = Maybe(@, FoldNode),
              !.order_by    = Each(@, FoldNode),
              !.join        = Condition(@, FoldNode)]

-----------------------------------------------------------------------------
(* Binding.                                                                *)

HasColumn(table, name) == \E n \in DOMAIN Catalog[table] : Catalog[table][n].name = name

Tables(s) == IF s.join = Nothing THEN <<s.from>> ELSE <<s.from, s.join.table>>
RefName(table) == IF table.alias = NoName THEN table.table_name ELSE table.alias

(* A qualifier is an alias, or the name of a table that has none.  A name  *)
(* that belongs to one of two tables is qualified with the table's name.   *)
ResolveColumnRef(e, tables) ==
    LET c       == e.payload
        named   == {n \in DOMAIN tables : RefName(tables[n]) = c.table_name}
        having  == {n \in DOMAIN tables : HasColumn(tables[n].table_name, c.column_name)}
        stamped(table, slot) ==
            [e EXCEPT !.payload = [table_name |-> table, column_name |-> c.column_name, relation_slot |-> slot - 1]]
    IN  IF c.table_name # NoName
        THEN IF named = {} THEN Invalid
             ELSE IF First(named) \notin having THEN Invalid
             ELSE stamped(c.table_name, First(named))
        ELSE IF Len(tables) < 2 THEN stamped(NoName, 1)
        ELSE IF having = {} THEN e
        ELSE IF having = {1, 2} THEN Invalid
        ELSE stamped(tables[First(having)].table_name, First(having))

BoundNode(tables, e, args) ==
    IF e.kind = "ColumnRef" THEN ResolveColumnRef(e, tables) ELSE WithArgs(e, args)

BindWalk == INSTANCE TreeFold WITH Step <- BoundNode
BindExpr(e, tables) == BindWalk!Fold(tables, e)

(* The select item with this alias; 0 if there is none.                    *)
Aliased(items, e) ==
    IF e.kind # "ColumnRef" THEN 0
    ELSE IF e.payload.table_name # NoName \/ e.payload.column_name = NoName THEN 0
    ELSE First({n \in DOMAIN items : items[n].alias = e.payload.column_name})

Meant(select, e) == IF Aliased(select, e) = 0 THEN e ELSE select[Aliased(select, e)].expr

(* An alias stands for its expression: in ORDER BY always, in GROUP BY     *)
(* unless a table has a column of that name.  Then constants are folded.   *)
Bind(s) ==
    LET bind(e) == BindExpr(e, Tables(s))
        isColumn(e) ==
            /\ e.kind = "ColumnRef"
            /\ \E n \in DOMAIN Tables(s) : HasColumn(Tables(s)[n].table_name, e.payload.column_name)
        bound(select) ==
            [s EXCEPT !.select_list = select,
                      !.where       = Maybe(@, bind),
                      !.group_by    = [n \in DOMAIN @ |-> bind(IF isColumn(@[n]) THEN @[n] ELSE Meant(select, @[n]))],
                      !.having      = Maybe(@, bind),
                      !.order_by    = Each(@, LAMBDA e : bind(Meant(select, e))),
                      !.join        = Condition(@, bind)]
    IN  FoldConstants(bound(Each(s.select_list, bind)))

(* Of what Bind returns.                                                   *)
BindFails(s) ==
    \/ Len(Tables(s)) = 2 /\ RefName(s.from) = RefName(s.join.table)
    \/ \E n \in DOMAIN Expressions(s) : IsInvalid(Expressions(s)[n])

-----------------------------------------------------------------------------
(* Validation.                                                             *)

Aggregates(exprs) == Join([n \in DOMAIN exprs |-> CollectAggregates(exprs[n])])
SelectAggregates(s) == Aggregates([n \in DOMAIN s.select_list |-> s.select_list[n].expr])
Groups(s) == s.group_by # << >> \/ SelectAggregates(s) # << >>

(* Names without a qualifier are columns of the FROM table; no aggregate   *)
(* inside another, and none at all in WHERE.                               *)
ValidNode(on, e, valid) ==
    /\ e.kind = "ColumnRef" =>
         e.payload.table_name # NoName \/ HasColumn(on.table, e.payload.column_name)
    /\ e.kind = "AggregateExpr" =>
         on.allowAggregates /\ \A n \in DOMAIN e.args : CollectAggregates(e.args[n]) = << >>
    /\ \A n \in DOMAIN e.args : valid[n]

ValidWalk == INSTANCE TreeFold WITH Step <- ValidNode
ValidateExpr(e, table, allowAggregates) ==
    ValidWalk!Fold([table |-> table, allowAggregates |-> allowAggregates], e)

SameColumn(c, g) ==
    /\ c.column_name = g.column_name
    /\ NoSlot \in {c.relation_slot, g.relation_slot} \/ c.relation_slot = g.relation_slot

(* Outside aggregates, only group keys and what is computed from them.  A  *)
(* part that prints like a key but is not one is refused.                  *)
GroupedNode(keys, e, grouped) ==
    \/ e.kind = "AggregateExpr"
    \/ \E n \in DOMAIN keys : keys[n].kind # "ColumnRef" /\ ExprKey(keys[n]) = ExprKey(e)
    \/ /\ e.kind = "ColumnRef"
       /\ \E n \in DOMAIN keys : keys[n].kind = "ColumnRef" /\ SameColumn(e.payload, keys[n].payload)
    \/ /\ e.kind # "ColumnRef"
       /\ \A n \in DOMAIN keys :
             keys[n].kind # "ColumnRef" => ExprToString(keys[n]) # ExprToString(e)
       /\ \A n \in DOMAIN e.args : grouped[n]

GroupedWalk == INSTANCE TreeFold WITH Step <- GroupedNode
CheckGroupedRefs(e, keys) == GroupedWalk!Fold(keys, e)

(* SUM and AVG of a column that is a text.                                 *)
SumsText(s, aggregate) ==
    /\ aggregate.op \in {"SUM", "AVG"} /\ aggregate.args # << >>
    /\ aggregate.args[1].kind = "ColumnRef"
    /\ LET c == aggregate.args[1].payload
           table == Catalog[IF c.relation_slot = 1 THEN s.join.table.table_name ELSE s.from.table_name]
           n == IndexOf(table, c.column_name)
       IN  n # 0 /\ table[n].type = "STRING"

(* ORDER BY 1, GROUP BY 1.                                                 *)
IsOrdinal(e) == e.kind = "Literal" /\ e.payload.type = "INT"

ValidKey(s, e) ==
    IF e.kind # "ColumnRef"
    THEN CollectAggregates(e) = << >> /\ ValidateExpr(e, s.from.table_name, TRUE)
    ELSE \/ e.payload.relation_slot # NoSlot /\ e.payload.table_name # NoName
         \/ \E n \in DOMAIN Tables(s) : HasColumn(Tables(s)[n].table_name, e.payload.column_name)

Validate(s) ==
    LET from    == s.from.table_name
        ordered == [n \in DOMAIN s.order_by |-> s.order_by[n].expr]
        all     == Aggregates(Roots(s))
        valid(items) == \A n \in DOMAIN items : ValidateExpr(items[n].expr, from, TRUE)
        column(e) == e.kind = "ColumnRef" /\ e.payload.table_name = NoName
    IN  /\ valid(s.select_list)
        /\ \A n \in DOMAIN all : ~ SumsText(s, all[n])
        /\ s.where # Nothing => ValidateExpr(s.where, from, FALSE)
        /\ \A n \in DOMAIN ordered : ~ IsOrdinal(ordered[n])
        /\ \A n \in DOMAIN s.group_by : ~ IsOrdinal(s.group_by[n]) /\ ValidKey(s, s.group_by[n])
        /\ s.having # Nothing => s.group_by # << >> /\ ValidateExpr(s.having, from, TRUE)
        /\ Groups(s) /\ ~ s.select_star =>
              \A n \in DOMAIN s.select_list : CheckGroupedRefs(s.select_list[n].expr, s.group_by)
        /\ \A n \in DOMAIN ordered :
              column(ordered[n]) => HasColumn(from, ordered[n].payload.column_name)
        /\ Groups(s) \/ Aggregates(ordered) = << >>

-----------------------------------------------------------------------------
(* The logical plan.                                                       *)

(* Above the aggregation, a part that is a group key is its column, found  *)
(* by the name the key prints as.                                          *)
SubstitutedNode(keys, e, args) ==
    LET same == {n \in DOMAIN keys : ExprKey(keys[n]) = ExprKey(e)}
    IN  IF e.kind \in {"AggregateExpr", "ColumnRef", "Literal"} THEN e
        ELSE IF same # {} THEN ColumnRef(NoName, ExprToString(keys[First(same)]))
        ELSE WithArgs(e, args)

SubstituteWalk == INSTANCE TreeFold WITH Step <- SubstitutedNode
SubstituteInto(e, keys) == SubstituteWalk!Fold(keys, e)

SubstituteGroupKeyRefs(s) ==
    LET keys == Chosen(s.group_by, LAMBDA e : e.kind # "ColumnRef")
        substitute(e) == SubstituteInto(e, keys)
    IN  [s EXCEPT !.select_list = Each(@, substitute),
                  !.having      = Maybe(@, substitute),
                  !.order_by    = Each(@, substitute)]

(* The columns of a table that the statement mentions, by name; those of   *)
(* the JOIN table carry slot 1.                                            *)
BuildScanSchema(s, slot) ==
    LET all == Expressions(s)
        mentioned == UNION {CollectCols(all[n]) : n \in DOMAIN all}
        table == Catalog[Tables(s)[slot + 1].table_name]
        of(c) == Node("ColumnRef", NoName, << >>,
                      [table_name |-> NoName, column_name |-> c.name, relation_slot |-> slot])
        column(c) == Column(c.name, c.type, slot, of(c))
    IN  Chosen([n \in DOMAIN table |-> column(table[n])],
               LAMBDA c : s.select_star \/ c.name \in mentioned)

InputSchema(s) ==
    BuildScanSchema(s, 0) \o (IF s.join = Nothing THEN << >> ELSE BuildScanSchema(s, 1))

(* An expression above some operator, with every column it reads replaced  *)
(* by the expression whose values that column holds.                       *)
RestoredNode(schema, e, args) ==
    IF e.kind \in {"ColumnRef", "AggregateExpr"} /\ IndexRead(e, schema) # 0
    THEN schema[IndexRead(e, schema)].of
    ELSE WithArgs(e, args)

RestoreWalk == INSTANCE TreeFold WITH Step <- RestoredNode
Restored(e, schema) == RestoreWalk!Fold(schema, e)

(* The aggregates to compute, one of each name: those of the select list,  *)
(* then those that only HAVING and ORDER BY mention, hidden from SELECT *. *)
ExtractAggregates(s) ==
    LET visible == SelectAggregates(s)
        all     == Aggregates(Roots(s))
        first(n) == \A k \in 1 .. n - 1 : AggregateOutputName(all[k]) # AggregateOutputName(all[n])
        spec(n) == IF first(n) THEN <<[expr |-> all[n], hidden |-> n > Len(visible)]>> ELSE << >>
    IN  Join([n \in DOMAIN all |-> spec(n)])

(* Keys in order, then aggregates.                                         *)
BuildAggregateSchema(s, schema) ==
    LET specs == ExtractAggregates(s)
        computed(e, type) == Column(ExprToString(e), type, 0, Restored(e, schema))
        key(e) == IF e.kind = "ColumnRef" /\ IndexRead(e, schema) # 0 THEN schema[IndexRead(e, schema)]
                  ELSE computed(e, InferExprType(e, schema))
        aggregate(spec) ==
            LET e == spec.expr
                type == IF e.args = << >> THEN "INT" ELSE InferExprType(e.args[1], schema)
                own  == WithArgs(e, [n \in DOMAIN e.args |-> Restored(e.args[n], schema)])
            IN  [Column(AggregateOutputName(e), AggregateResultType(e.op, type), 0, own)
                    EXCEPT !.hidden = spec.hidden]
    IN  [n \in DOMAIN s.group_by |-> key(s.group_by[n])]
        \o [n \in DOMAIN specs |-> aggregate(specs[n])]

(* The columns of the answer; an alias renames.                            *)
BuildProjectSchema(s, schema) ==
    LET type(e) == IF e.kind = "ColumnRef" /\ IndexRead(e, schema) = 0 THEN "STRING"
                   ELSE InferExprType(e, schema)
        column(item) == Column(IF item.alias = NoName THEN ExprToString(item.expr) ELSE item.alias,
                               type(item.expr), 0, Restored(item.expr, schema))
        star == Chosen(schema, LAMBDA c : ~ c.hidden)
    IN  IF s.select_star THEN star ELSE [n \in DOMAIN s.select_list |-> column(s.select_list[n])]

(* build, of a statement that is valid: the statement with its references  *)
(* rewritten and the schemas of its operators.                             *)
BuildPlan(s) ==
    LET plan(stmt, input, schema) ==
            [stmt |-> stmt, input |-> input, schema |-> schema, output |-> BuildProjectSchema(stmt, schema)]
        above(stmt, input) ==
            plan(stmt, input, IF Groups(stmt) THEN BuildAggregateSchema(stmt, input) ELSE input)
        build(stmt) == above(stmt, InputSchema(stmt))
    IN  build(SubstituteGroupKeyRefs(s))

(* The types build checks on its way up.                                   *)
WellTypedPlan(plan) ==
    LET s == plan.stmt
        fits(e, schema) == e = Nothing \/ InferExprType(e, schema) # IllTyped
        specs == ExtractAggregates(s)
        summable(e) ==
            e.args = << >> \/ InferExprType(e.args[1], plan.input)
                                \notin (IF e.op \in {"SUM", "AVG"} THEN {IllTyped, "STRING"} ELSE {IllTyped})
    IN  /\ fits(s.where, plan.input)
        /\ Groups(s) => /\ \A n \in DOMAIN specs : summable(specs[n].expr)
                        /\ \A n \in DOMAIN s.group_by : fits(s.group_by[n], plan.input)
        /\ fits(s.having, plan.schema)
        /\ \A n \in DOMAIN s.order_by : fits(s.order_by[n].expr, plan.schema)
        /\ \A n \in DOMAIN plan.output : plan.output[n].type # IllTyped
=============================================================================
