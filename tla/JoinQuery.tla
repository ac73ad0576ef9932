----------------------------- MODULE JoinQuery -----------------------------
(***************************************************************************)
(* SELECT c AS k FROM t [a] JOIN u [b] ON l = r WHERE w [ORDER BY k]: from *)
(* names to rows.  The binder gives every column reference the slot of its *)
(* relation (0 = FROM, 1 = JOIN), the planner narrows both scans to the    *)
(* columns named, predicate pushdown moves the conjuncts of one side below *)
(* the join, and the operators then look a column up by name and slot in   *)
(* the schema they stand on.  The same column name on both sides, a table  *)
(* joined with itself and aliases make each of these steps delicate.       *)
(*                                                                         *)
(* WHERE is a sequence of conjuncts, a conjunct a sequence of equalities   *)
(* joined by OR, an equality [left, right] of a column with a literal,     *)
(* [literal |-> v], or another column.  A table is a set of rows that fits *)
(* one zone-map chunk.                                                     *)
(***************************************************************************)
EXTENDS Integers, Sequences, FiniteSets

CONSTANTS
    Relations,    \* FROM and JOIN items: [table_name, ref_name, columns]
    Tables,       \* Tables[t]: the contents that table t may have
    Value,        \* the literals and the values of the columns
    Selects,      \* the references that may be selected
    Ons,          \* the join conditions: pairs of references
    Wheres        \* the WHERE clauses

Unqualified == ""
NoSlot      == -1
Slot        == {0, 1}

IsRef(x) == "column_name" \in DOMAIN x

(* A reference as the parser leaves it.                                    *)
Ref(table, column) ==
    [table_name |-> table, column_name |-> column, relation_slot |-> NoSlot]

RefType  == [table_name : STRING, column_name : STRING, relation_slot : Slot \cup {NoSlot}]
Equality == [left : RefType, right : RefType \cup [literal : Value]]

ASSUME ValueAssumption == Value \subseteq Int
ASSUME RelationAssumption ==
    /\ Relations \subseteq [table_name : STRING, ref_name : STRING, columns : SUBSET STRING]
    /\ \A rel \in Relations :
          /\ rel.table_name \in DOMAIN Tables /\ rel.ref_name # Unqualified
          /\ \A content \in Tables[rel.table_name] : content \subseteq [rel.columns -> Value]
ASSUME StatementAssumption ==
    /\ Selects \subseteq RefType /\ Ons \subseteq RefType \X RefType
    /\ Wheres \subseteq Seq(Seq(Equality))

VARIABLES
    range_table,                     \* the two relations, by slot
    rows,                            \* their contents, by slot
    select, where, on, ordered,      \* the statement; the binder rewrites it
    typed,                           \* the statement as it was typed
    optimize,                        \* is the pushdown pass on?
    at, todo,                        \* where binder and pushdown are
    order_key,                       \* what ORDER BY k sorts by
    from_p, join_p, residual_p,      \* the conjuncts below and above the join
    joined, sort_column              \* pairs of rows; the column sorted by

statement == <<select, where, on, ordered>>
pushed    == <<from_p, join_p, residual_p>>
queryVars == <<range_table, rows, statement, typed, optimize, at, todo, order_key, pushed,
               joined, sort_column>>

Columns(slot) == range_table[slot].columns
RefsOf(conjunct) ==
    {x \in UNION {{conjunct[n].left, conjunct[n].right} : n \in DOMAIN conjunct} : IsRef(x)}

QueryInit ==
         /\ range_table \in [Slot -> Relations]
         /\ rows \in [Slot -> UNION {Tables[t] : t \in DOMAIN Tables}]
         /\ \A s \in Slot : rows[s] \in Tables[range_table[s].table_name]
         /\ range_table[0].table_name = range_table[1].table_name => rows[0] = rows[1]
         /\ select \in Selects /\ where \in Wheres /\ on \in Ons /\ ordered \in BOOLEAN
         /\ typed = [select |-> select, where |-> where, on |-> on]
         /\ optimize \in BOOLEAN
         /\ at = "open" /\ todo = 1
         /\ order_key = select
         /\ from_p = << >> /\ join_p = << >> /\ residual_p = << >>
         /\ joined = {} /\ sort_column = << >>

-----------------------------------------------------------------------------
(* The binder.                                                             *)

(* The slots a reference may resolve to: its qualifier is an alias, or the *)
(* name of a table without one.                                            *)
Candidates(ref) ==
    {s \in Slot : /\ ref.table_name \in {Unqualified, range_table[s].ref_name}
                  /\ ref.column_name \in Columns(s)}

(* Neither unknown nor ambiguous.                                          *)
Resolvable(ref) == Cardinality(Candidates(ref)) = 1

(* Wrong variant: the first relation with the column, whatever qualifies.  *)
ResolvedByName(ref) ==
    [ref EXCEPT !.relation_slot = IF ref.column_name \in Columns(0) THEN 0 ELSE 1]

(* resolveColumnRef: the slot is stamped; an unqualified reference is also *)
(* qualified, with the name of the table.                                  *)
Resolved(ref) ==
    LET slot == CHOOSE s \in Candidates(ref) : TRUE
    IN  [ref EXCEPT !.relation_slot = slot,
                    !.table_name = IF @ = Unqualified THEN range_table[slot].table_name ELSE @]

Bound(x) == IF IsRef(x) THEN Resolved(x) ELSE x

Fail == at' = "error"

(* Two relations of one name cannot be told apart.                         *)
SameNames ==
    /\ at = "open" /\ range_table[0].ref_name = range_table[1].ref_name
    /\ Fail
    /\ UNCHANGED <<range_table, rows, statement, typed, optimize, todo, order_key, pushed,
                   joined, sort_column>>

BindSelect ==
    /\ at = "open" /\ range_table[0].ref_name # range_table[1].ref_name
    /\ IF Resolvable(select) THEN select' = Resolved(select) /\ at' = "where"
                             ELSE Fail /\ UNCHANGED select
    /\ UNCHANGED <<range_table, rows, where, on, ordered, typed, optimize, todo, order_key,
                   pushed, joined, sort_column>>

(* The references of one conjunct of WHERE.                                *)
BindConjunct ==
    /\ at = "where" /\ todo <= Len(where)
    /\ IF \A ref \in RefsOf(where[todo]) : Resolvable(ref)
       THEN /\ where' = [where EXCEPT ![todo] =
                            [n \in DOMAIN where[todo] |->
                                [left  |-> Bound(where[todo][n].left),
                                 right |-> Bound(where[todo][n].right)]]]
            /\ todo' = todo + 1
            /\ UNCHANGED at
       ELSE Fail /\ UNCHANGED <<where, todo>>
    /\ UNCHANGED <<range_table, rows, select, on, ordered, typed, optimize, order_key,
                   pushed, joined, sort_column>>

(* Wrong variant: the alias is looked up among the columns first.          *)
BindOrderByName ==
    /\ at = "where" /\ todo > Len(where)
    /\ order_key' = ResolvedByName(select)
    /\ at' = "on"
    /\ UNCHANGED <<range_table, rows, statement, typed, optimize, todo, pushed, joined,
                   sort_column>>

(* ORDER BY k: a clone of the bound expression of alias k, bound again.    *)
BindOrder ==
    /\ at = "where" /\ todo > Len(where)
    /\ IF ~ ordered THEN at' = "on" /\ UNCHANGED order_key
       ELSE IF Resolvable(select) THEN order_key' = Resolved(select) /\ at' = "on"
       ELSE Fail /\ UNCHANGED order_key
    /\ UNCHANGED <<range_table, rows, statement, typed, optimize, todo, pushed, joined,
                   sort_column>>

(* Wrong variant: both columns of ON may be of one side.                   *)
BindOnAny ==
    /\ at = "on"
    /\ IF \A n \in 1 .. 2 : Resolvable(on[n])
       THEN /\ on' = <<Resolved(on[1]), Resolved(on[2])>>
            /\ todo' = 1
            /\ at' = IF optimize THEN "push" ELSE "run"
       ELSE Fail /\ UNCHANGED <<on, todo>>
    /\ UNCHANGED <<range_table, rows, select, where, ordered, typed, optimize, order_key,
                   pushed, joined, sort_column>>

(* ON must compare a column of each side.                                  *)
BindOn ==
    /\ at = "on"
    /\ IF /\ \A n \in 1 .. 2 : Resolvable(on[n])
          /\ Candidates(on[1]) # Candidates(on[2])
       THEN /\ on' = <<Resolved(on[1]), Resolved(on[2])>>
            /\ todo' = 1
            /\ at' = IF optimize THEN "push" ELSE "run"
       ELSE Fail /\ UNCHANGED <<on, todo>>
    /\ UNCHANGED <<range_table, rows, select, where, ordered, typed, optimize, order_key,
                   pushed, joined, sort_column>>

-----------------------------------------------------------------------------
(* Predicate pushdown.                                                     *)

Slots(conjunct) == {ref.relation_slot : ref \in RefsOf(conjunct)}

(* Wrong variant: the conjuncts of the JOIN side are not recognized.       *)
ClassifyFromOnly(conjunct) == IF Slots(conjunct) = {0} THEN "from" ELSE "residual"

Classify(conjunct) ==
    IF Slots(conjunct) = {0} THEN "from"
    ELSE IF Slots(conjunct) = {1} THEN "join" ELSE "residual"

(* restampSlots: below the join the columns of either scan have slot 0.    *)
Restamped(conjunct) ==
    LET stamp(x) == IF IsRef(x) THEN [x EXCEPT !.relation_slot = 0] ELSE x
    IN  [n \in DOMAIN conjunct |-> [left  |-> stamp(conjunct[n].left),
                                    right |-> stamp(conjunct[n].right)]]

(* One conjunct goes below the join or stays above it.                     *)
Push ==
    /\ at = "push" /\ todo <= Len(where)
    /\ LET c == where[todo]
       IN  /\ from_p' = IF Classify(c) = "from" THEN Append(from_p, c) ELSE from_p
           /\ join_p' = IF Classify(c) = "join" THEN Append(join_p, Restamped(c)) ELSE join_p
           /\ residual_p' = IF Classify(c) = "residual" THEN Append(residual_p, c)
                                                        ELSE residual_p
    /\ todo' = todo + 1
    /\ UNCHANGED <<range_table, rows, statement, typed, optimize, at, order_key, joined,
                   sort_column>>

Permuted(s, t) ==
    \E f \in [DOMAIN s -> DOMAIN s] :
        {f[n] : n \in DOMAIN s} = DOMAIN s /\ t = [n \in DOMAIN s |-> s[f[n]]]

Orders(s) == {t \in [DOMAIN s -> {s[n] : n \in DOMAIN s}] : Permuted(s, t)}

(* Each filter is ordered by estimated selectivity, which may be anything. *)
OrderByWork ==
    /\ at = "push" /\ todo > Len(where)
    /\ from_p' \in Orders(from_p)
    /\ join_p' \in Orders(join_p)
    /\ residual_p' \in Orders(residual_p)
    /\ at' = "run"
    /\ UNCHANGED <<range_table, rows, statement, typed, optimize, todo, order_key, joined,
                   sort_column>>

-----------------------------------------------------------------------------
(* The plan.                                                               *)

(* buildScanSchema: every column name that the statement mentions.         *)
Required ==
    {ref.column_name : ref \in {select, on[1], on[2]}
                               \cup UNION {RefsOf(where[n]) : n \in DOMAIN where}}

(* Schemas: columns with the relation they come from and the slot stamped. *)
ScanSchema(s) == {[of |-> s, column_name |-> c, relation_slot |-> 0] : c \in Columns(s) \cap Required}
MergedSchema  == ScanSchema(0) \cup {[col EXCEPT !.relation_slot = 1] : col \in ScanSchema(1)}

(* resolveColumnIndex: by name and slot, else the first of that name; the  *)
(* empty set when there is none.                                           *)
Lookup(ref, schema) ==
    LET same  == {col \in schema : col.column_name = ref.column_name}
        exact == {col \in same : col.relation_slot = ref.relation_slot}
    IN  IF exact # {} THEN exact ELSE {col \in same : \A other \in same : col.of <= other.of}

(* What an operand is worth for the rows r of the relations below.         *)
Worth(x, schema, r) ==
    IF IsRef(x) THEN LET col == CHOOSE c \in Lookup(x, schema) : TRUE IN r[col.of][col.column_name]
                ELSE x.literal

Passes(conjuncts, schema, r) ==
    \A n \in DOMAIN conjuncts : \E m \in DOMAIN conjuncts[n] :
        Worth(conjuncts[n][m].left, schema, r) = Worth(conjuncts[n][m].right, schema, r)

(* Wrong variant: a hint on the other relation's column is taken as well.  *)
SkipsChunkAnySlot(hint, s) ==
    \E n \in DOMAIN hint :
        /\ Len(hint[n]) = 1 /\ ~ IsRef(hint[n][1].right)
        /\ LET ref == hint[n][1].left
           IN  /\ ref.column_name \in Columns(s)
               /\ \/ \A row \in rows[s] : hint[n][1].right.literal < row[ref.column_name]
                  \/ \A row \in rows[s] : hint[n][1].right.literal > row[ref.column_name]

(* ChunkPruner with the zone map of the relation's only chunk: a conjunct  *)
(* "column = literal" on slot 0 whose literal lies outside.                *)
SkipsChunk(hint, s) ==
    \E n \in DOMAIN hint :
        /\ Len(hint[n]) = 1 /\ ~ IsRef(hint[n][1].right)
        /\ LET ref == hint[n][1].left
           IN  /\ ref.relation_slot < 1 /\ ref.column_name \in Columns(s)
               /\ \/ \A row \in rows[s] : hint[n][1].right.literal < row[ref.column_name]
                  \/ \A row \in rows[s] : hint[n][1].right.literal > row[ref.column_name]

(* The predicate above the join, and the pruning hints: a filter hands its *)
(* own down to the scan below it, and the filter above the join hands its  *)
(* own to the FROM side when no filter stands there.                       *)
AboveJoin == IF optimize THEN residual_p ELSE where
FromHint  == IF from_p # << >> THEN from_p ELSE AboveJoin
JoinHint  == join_p

(* The rows of relation s that its scan and the filter on it deliver.      *)
Delivers(s, hint, conjuncts) ==
    IF SkipsChunk(hint, s) THEN {}
    ELSE {row \in rows[s] : Passes(conjuncts, ScanSchema(s), [x \in {s} |-> row])}

(* classifyJoinCondition: the key column of each side.                     *)
JoinKeys == [s \in Slot |-> (CHOOSE ref \in {on[1], on[2]} : ref.relation_slot = s).column_name]

(* Columns that an operator of the plan cannot find in its schema.         *)
Missing ==
    \/ \E s \in Slot : Lookup([Ref("", JoinKeys[s]) EXCEPT !.relation_slot = 0], ScanSchema(s)) = {}
    \/ \E n \in DOMAIN AboveJoin : \E ref \in RefsOf(AboveJoin[n]) : Lookup(ref, MergedSchema) = {}
    \/ \E n \in DOMAIN from_p : \E ref \in RefsOf(from_p[n]) : Lookup(ref, ScanSchema(0)) = {}
    \/ \E n \in DOMAIN join_p : \E ref \in RefsOf(join_p[n]) : Lookup(ref, ScanSchema(1)) = {}

(* Scan, filter, join, filter, sort: an operator that does not find its    *)
(* column raises.                                                          *)
Run ==
    /\ at = "run"
    /\ IF Missing THEN at' = "column not found" /\ UNCHANGED <<joined, sort_column>>
       ELSE
        /\ joined' = {pair \in Delivers(0, FromHint, from_p) \X Delivers(1, JoinHint, join_p) :
                        /\ pair[1][JoinKeys[0]] = pair[2][JoinKeys[1]]
                        /\ Passes(AboveJoin, MergedSchema, [s \in Slot |-> pair[s + 1]])}
        /\ sort_column' = IF ordered
                          THEN LET col == CHOOSE c \in Lookup(order_key, MergedSchema) : TRUE
                               IN  <<col.of, col.column_name>>
                          ELSE << >>
        /\ at' = "done"
    /\ UNCHANGED <<range_table, rows, statement, typed, optimize, todo, order_key, pushed>>

QueryNext ==
         \/ SameNames \/ BindSelect \/ BindConjunct \/ BindOrder \/ BindOn
         \/ Push \/ OrderByWork
         \/ Run

QuerySpec == QueryInit /\ [][QueryNext]_queryVars /\ WF_queryVars(QueryNext)

-----------------------------------------------------------------------------
(* Properties, stated of the statement as it was typed.                    *)

TypedRefs == {typed.select, typed.on[1], typed.on[2]}
             \cup UNION {RefsOf(typed.where[n]) : n \in DOMAIN typed.where}

(* The relation that a typed reference names.                              *)
Meant(ref) == CHOOSE s \in Candidates(ref) : TRUE

(* A statement SQL accepts: two names, every reference means one column    *)
(* and ON compares the two sides.                                          *)
Valid ==
    /\ range_table[0].ref_name # range_table[1].ref_name
    /\ \A ref \in TypedRefs : Resolvable(ref)
    /\ Meant(typed.on[1]) # Meant(typed.on[2])

(* Exactly the statements that SQL rejects are rejected, all of them       *)
(* before a row is read.                                                   *)
RejectsInvalid ==
    /\ at = "error" => ~ Valid
    /\ at \in {"push", "run", "done"} => Valid

Means(x, pair) == IF IsRef(x) THEN pair[Meant(x) + 1][x.column_name] ELSE x.literal

(* What the statement asks for.                                            *)
Wanted ==
    {pair \in rows[0] \X rows[1] :
        /\ Means(typed.on[1], pair) = Means(typed.on[2], pair)
        /\ \A n \in DOMAIN typed.where : \E m \in DOMAIN typed.where[n] :
            Means(typed.where[n][m].left, pair) = Means(typed.where[n][m].right, pair)}

(* With and without the optimizer the plan yields exactly the pairs of     *)
(* rows the statement asks for: each reference is read from the side it    *)
(* names through binding, narrowing, pushdown, re-stamping and lookup, and *)
(* no pruning hint reaches a scan it does not speak of.  No operator looks *)
(* for a column that narrowing dropped.                                    *)
PlanExact ==
    /\ at # "column not found"
    /\ at = "done" => joined = Wanted

(* ORDER BY an alias sorts by the column that the alias stands for.        *)
OrderExact ==
    at = "done" /\ ordered => sort_column = <<Meant(typed.select), typed.select.column_name>>

(* No conjunct about one relation only is left above the join.             *)
PushedDown ==
    optimize /\ at \in {"run", "done"} =>
        \A n \in DOMAIN residual_p : Slots(residual_p[n]) \notin {{0}, {1}}
=============================================================================
