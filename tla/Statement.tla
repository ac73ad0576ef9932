----------------------------- MODULE Statement -----------------------------
(***************************************************************************)
(* A statement on its way from its tokens to its answer: parsed, bound,    *)
(* planned, and, when it is a table, WHERE and a select list, evaluated    *)
(* row by row.  Any step before the rows may reject it.                    *)
(***************************************************************************)
EXTENDS Meaning, Planning

CONSTANTS
    Statements,   \* what may be meant
    Texts,        \* tokens put together without a statement in mind
    Rows          \* per table its rows, functions from its columns to values

IsCell(v, type) == v = NullValue \/ (IsValue(v) /\ v.type = type)

(* A table has a type for each column, a row a value of it or NULL.        *)
ASSUME TablesAssumption ==
    \A t \in DOMAIN Catalog :
        /\ IsSeq(Catalog[t]) /\ IsSeq(Rows[t])
        /\ \A k \in DOMAIN Catalog[t] :
              /\ Catalog[t][k].type \in {"INT", "DOUBLE", "STRING"}
              /\ \A n \in DOMAIN Rows[t] : IsCell(Rows[t][n][Catalog[t][k].name], Catalog[t][k].type)

(* The lexer makes these tokens, and a statement is a tree.                *)
ASSUME TextsAssumption == \A t \in Texts : IsSeq(t) /\ \A n \in DOMAIN t : IsToken(t[n])
ASSUME StatementsAssumption == \A s \in Statements : IsStatement(s, MeantKinds)

VARIABLES
    input,      \* the tokens, and the statement that was meant or Nothing
    stage,      \* "text", "parsed", "bound", "planned", "rejected"
    tree,       \* what was parsed
    bound,      \* the same, bound and folded
    plan,
    outcomes    \* per row: the values selected, NullValue if WHERE drops it
vars == <<input, stage, tree, bound, plan, outcomes>>

Init ==
    /\ \/ \E s \in Statements, all \in BOOLEAN :
             input = [tokens |-> StatementTokens(s, all), meant |-> s]
       \/ \E t \in Texts : input = [tokens |-> t, meant |-> Nothing]
    /\ stage = "text"
    /\ tree = Nothing /\ bound = Nothing /\ plan = Nothing
    /\ outcomes = << >>

Reject == stage' = "rejected" /\ UNCHANGED <<input, tree, bound, plan, outcomes>>

(* Parser::parse                                                           *)
ParseText ==
    /\ stage = "text"
    /\ \E r \in {ParseSelect(input.tokens)} :
         IF r.at = 0 THEN Reject
         ELSE /\ stage' = "parsed" /\ tree' = r.tree
              /\ UNCHANGED <<input, bound, plan, outcomes>>

TablesExist(s) == \A n \in DOMAIN Tables(s) : Tables(s)[n].table_name \in DOMAIN Catalog

(* Binder::bind; of tables that do not exist nothing is known.             *)
BindTree ==
    /\ stage = "parsed"
    /\ \E b \in {IF TablesExist(tree) THEN Bind(tree) ELSE tree} :
         IF TablesExist(tree) /\ BindFails(b) THEN Reject
         ELSE /\ stage' = "bound" /\ bound' = b
              /\ UNCHANGED <<input, tree, plan, outcomes>>

(* LogicalPlanBuilder::build                                               *)
Build ==
    /\ stage = "bound"
    /\ IF ~ TablesExist(bound) THEN Reject
       ELSE IF ~ Validate(bound) THEN Reject
       ELSE \E built \in {BuildPlan(bound)} :
                IF ~ WellTypedPlan(built) THEN Reject
                ELSE /\ stage' = "planned" /\ plan' = built
                     /\ UNCHANGED <<input, tree, bound, outcomes>>

(* FilterNode and ProjectNode on a row: the values, or the first error.    *)
Outcome(s, schema, row) ==
    LET values == [n \in DOMAIN schema |-> row[schema[n].name]]
        where  == IF s.where = Nothing THEN Truth(TRUE) ELSE Evaluate(s.where, values, schema)
        answer == [n \in DOMAIN s.select_list |-> Evaluate(s.select_list[n].expr, values, schema)]
        raised == {n \in DOMAIN answer : Raises(answer[n])}
    IN  IF Raises(where) THEN where
        ELSE IF where.type \in {"STRING", "DOUBLE"} THEN Raise("type")
        ELSE IF IsNull(where) \/ where = Truth(FALSE) THEN NullValue
        ELSE IF raised # {} THEN answer[First(raised)]
        ELSE [type |-> "ROW", values |-> answer]

(* Nothing above the table but WHERE and the select list.                  *)
EvaluatesRows(s) ==
    /\ s.join = Nothing /\ ~ Groups(s) /\ ~ s.select_star
    /\ s.order_by = << >> /\ ~ s.distinct /\ s.limit = Nothing

(* An error ends the query.                                                *)
NextRow ==
    /\ stage = "planned" /\ EvaluatesRows(bound)
    /\ Len(outcomes) < Len(Rows[bound.from.table_name])
    /\ \A n \in DOMAIN outcomes : ~ Raises(outcomes[n])
    /\ LET row == Rows[bound.from.table_name][Len(outcomes) + 1]
       IN  outcomes' = Append(outcomes, Outcome(plan.stmt, plan.input, row))
    /\ UNCHANGED <<input, stage, tree, bound, plan>>

Next == ParseText \/ BindTree \/ Build \/ NextRow

Spec == Init /\ [][Next]_vars

-----------------------------------------------------------------------------
(* Properties.                                                             *)

(* A statement with one of these passes over all its expressions.          *)
Throughout(s, Pass(_)) ==
    [s EXCEPT !.select_list = Each(@, Pass), !.where = Maybe(@, Pass),
              !.group_by = [n \in DOMAIN @ |-> Pass(@[n])], !.having = Maybe(@, Pass),
              !.order_by = Each(@, Pass)]

(* A statement written down from a tree, with as few or as many            *)
(* parentheses as one likes, is parsed into that tree: precedence,         *)
(* associativity and the two ANDs of BETWEEN.  And what is accepted,       *)
(* whatever it was meant to say, says what was read: written down from the *)
(* tree again, it is the same text (parser.cc).                            *)
ParsedAsWritten ==
    /\ input.meant # Nothing => stage # "rejected" \/ tree # Nothing
    /\ tree # Nothing =>
         IF input.meant # Nothing THEN tree = Throughout(input.meant, Desugared)
         ELSE StatementTokens(Throughout(tree, Sugared), FALSE) = input.tokens

(* What the expressions of a statement mean on a row.                      *)
MeantOutcome(s, row) ==
    LET selected(answer) ==
          IF \E n \in DOMAIN answer : Raises(answer[n]) THEN Raise("any")
          ELSE [type |-> "ROW", values |-> answer]
        filtered(where) ==
          IF Raises(where) THEN where
          ELSE IF where = Truth(FALSE) \/ IsNull(where) THEN NullValue
          ELSE selected([n \in DOMAIN s.select_list |-> Meaning(s.select_list[n].expr, row)])
    IN  filtered(IF s.where = Nothing THEN Truth(TRUE) ELSE AsTruth(Meaning(s.where, row)))

SameValue(v, w) == v.type = w.type /\ (v.type \notin {"NULL", "RAISED"} => v = w)

(* Written out, folded and evaluated, an expression has the value SQL      *)
(* gives to what was written: BETWEEN as two comparisons, a date and an    *)
(* interval as a literal, LIKE by backtracking, and an error only where    *)
(* evaluation gets to it.                                                  *)
ComputesMeaning ==
    LET agrees(outcome, meant) ==
          /\ outcome.type = meant.type
          /\ meant.type = "ROW" =>
               \A k \in DOMAIN meant.values : SameValue(outcome.values[k], meant.values[k])
        row(n) == Rows[input.meant.from.table_name][n]
    IN  input.meant # Nothing =>
            \A n \in DOMAIN outcomes : agrees(outcomes[n], MeantOutcome(input.meant, row(n)))

(* What planning lets through although a row may find it ill-typed, as the *)
(* errors that may then be: a comparison of a text with a number, a        *)
(* connective of what is no truth value, and anything under IS NULL, which *)
(* planning does not look at (logical_plan.cc:120).                        *)
LenientNode(schema, e, lenient) ==
    LET type(n) == InferExprType(e.args[n], schema)
    IN  (IF \/ /\ e.kind = "BinaryExpr" /\ e.op \in CompareOps
               /\ (type(1) = "STRING") # (type(2) = "STRING")
            \/ /\ e.kind = "BinaryExpr" /\ e.op \in {"AND", "OR"}
               /\ type(1) # "INT" \/ type(2) # "INT"
         THEN {"type"}
         ELSE IF e.kind = "IsNullExpr" /\ type(1) = IllTyped THEN {"type", "interval"} ELSE {})
        \cup UNION {lenient[n] : n \in DOMAIN e.args}

LenientWalk == INSTANCE TreeFold WITH Step <- LenientNode
Lenient(e, schema) == LenientWalk!Fold(schema, e)

LenientStatement(s, schema) ==
    (IF s.where = Nothing THEN {}
     ELSE Lenient(s.where, schema) \cup (IF InferExprType(s.where, schema) = "INT" THEN {} ELSE {"type"}))
    \cup UNION {Lenient(s.select_list[n].expr, schema) : n \in DOMAIN s.select_list}

(* A plan that was accepted never meets a value of the wrong type, but for *)
(* the shapes planning is lenient about, nor an interval outside IS NULL,  *)
(* and never a column it cannot find; and the values of an output column   *)
(* have its type, or are INTs that a CASE promotes (logical_plan.cc:92).   *)
WellTyped ==
    \A n \in DOMAIN outcomes :
        LET o == outcomes[n]
        IN  /\ Raises(o) =>
                 o.why \in {"overflow", "start", "length"} \cup LenientStatement(plan.stmt, plan.input)
            /\ o.type = "ROW" =>
                 \A k \in DOMAIN o.values :
                    \/ o.values[k].type \in {"NULL", plan.output[k].type}
                    \/ o.values[k].type = "INT" /\ plan.output[k].type = "DOUBLE"

(* An expression whose columns are known by their slots alone.             *)
CanonicalNode(ctx, e, args) ==
    IF e.kind = "ColumnRef" /\ e.payload.relation_slot # NoSlot
    THEN [e EXCEPT !.payload = [@ EXCEPT !.table_name = NoName]]
    ELSE WithArgs(e, args)

CanonicalWalk == INSTANCE TreeFold WITH Step <- CanonicalNode
Canonical(e)  == CanonicalWalk!Fold(Nothing, e)

ReadsEach ==
    \A n \in DOMAIN Roots(bound) :
        Roots(bound)[n] # Nothing =>
            Restored(Roots(plan.stmt)[n], plan.schema) = Canonical(Roots(bound)[n])

(* The expressions that an aggregation computes columns of.                *)
ComputedBy(s) ==
    LET roots == {n \in DOMAIN Roots(s) : Roots(s)[n] # Nothing}
        keys  == {n \in DOMAIN s.group_by : s.group_by[n].kind # "ColumnRef"}
    IN  {e \in UNION {TextWalk!Subtrees(Roots(s)[n]) : n \in roots} : e.kind = "AggregateExpr"}
        \cup {s.group_by[n] : n \in keys}

(* Computed columns that print alike are the same, and no column of a      *)
(* table has the name of one.                                              *)
Distinguishable(s) ==
    /\ \A c, d \in ComputedBy(s) : ExprToString(c) = ExprToString(d) => Canonical(c) = Canonical(d)
    /\ \A c \in ComputedBy(s) : \A n \in DOMAIN Tables(s) : ~ HasColumn(Tables(s)[n].table_name, ExprToString(c))

(* HAVING and ORDER BY mention what the grouping leaves.                   *)
Grouped(s) ==
    Groups(s) =>
        \A n \in DOMAIN Roots(s) : Roots(s)[n] # Nothing => CheckGroupedRefs(Roots(s)[n], s.group_by)

(* What SELECT, HAVING and ORDER BY read above the aggregation and above a *)
(* join is the column that was computed from the expression they name:     *)
(* either side of a join, a group key written another way, an aggregate    *)
(* used twice.  Unless two computed columns print alike or like a column   *)
(* of a table, or HAVING or ORDER BY mention a column that is not grouped, *)
(* which nothing checks.                                                   *)
ReadsWhatItNames ==
    (stage = "planned" /\ Distinguishable(bound) /\ Grouped(bound)) => ReadsEach

(* The same for every statement that is accepted: "parens are load-        *)
(* bearing" for the names under which aggregates are found                 *)
(* (expr_utils.h:17), and the type of a literal makes two of them differ   *)
(* (validator.cc:36).                                                      *)
ReadsWhatItNamesAlways == stage = "planned" => ReadsEach
=============================================================================
