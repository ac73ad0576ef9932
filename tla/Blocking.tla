------------------------------ MODULE Blocking ------------------------------
(***************************************************************************)
(* The operators that keep rows before they hand any up, in both engines:  *)
(* hash aggregation, DISTINCT and ORDER BY.  Volcano pulls a row and hands *)
(* a row up; the vectorized engine consumes its child on the first         *)
(* nextChunk and hands its buffer up in slices of a batch.  Volcano's      *)
(* DISTINCT is the one that streams: it hands a row up when it first sees  *)
(* it.                                                                     *)
(*                                                                         *)
(* Rows are identified by text: groups and duplicates are found in a hash  *)
(* table whose key is one text for all the values that count, one after    *)
(* the other.  A row has two columns: `key`, and `arg`, which the          *)
(* aggregates read; GROUP BY may name either, or both.                     *)
(***************************************************************************)
EXTENDS Integers, FiniteSetsExt, SequencesExt

CONSTANTS
    Key, Arg,      \* the values of the two columns: disjoint sets of numbers
    NULL,
    Text,          \* Text[v] is what Value::toString prints for v, in character codes
    StreamedKeys,  \* the keys that reach Volcano's DISTINCT
    GroupBys,      \* the GROUP BY lists: sequences of columns
    OrderBys,      \* the ORDER BY lists: sequences of [column, desc]
    MaxRows,       \* bound on the input
    BatchSize      \* rows per chunk (1024 in the code)

ASSUME ValueAssumption ==
    /\ Key \subseteq Int /\ Arg \subseteq Int /\ Key \cap Arg = {}
    /\ NULL \notin Key \cup Arg /\ StreamedKeys \subseteq Key \cup {NULL}
    /\ DOMAIN Text = Key \cup Arg \cup {NULL}
    /\ \A v \in DOMAIN Text : Text[v] \in Seq(Nat)
    /\ \E least \in Key \cup Arg : \A v \in Key \cup Arg : least <= v
ASSUME GroupByAssumption == GroupBys \subseteq Seq({"key", "arg"})
ASSUME OrderByAssumption ==
    OrderBys \subseteq Seq([column : {"key", "arg"}, desc : BOOLEAN])
ASSUME BoundAssumption == MaxRows \in Nat /\ BatchSize \in Nat \ {0}

VARIABLES
    input, operator, engine, group_by, order_by,  \* fixed by Init
    pc,          \* "consume", "emit" or "done"
    next,        \* the next input row
    seen,        \* the texts in the hash table, in order of insertion
    groups,      \* the accumulator of every text
    buffer,      \* rows ready for the parent
    cursor,      \* those already handed up
    result       \* what the parent got

query == <<input, operator, engine, group_by, order_by>>
vars  == <<query, pc, next, seen, groups, buffer, cursor, result>>

Streams == operator = "distinct" /\ engine = "volcano"

-----------------------------------------------------------------------------
(* Identity of rows.                                                       *)

Marker     == -1   \* the N of a NULL, which is neither a length nor part of a text
Terminator == 1    \* '\x01'

(* Every cell as it prints, NULL included: what DistinctNode writes.  The  *)
(* length is one symbol here, its digits and a colon in the code.          *)
SerializePlain(v) == <<Len(Text[v])>> \o Text[v] \o <<Terminator>>

(* Wrong variant: the bare text, that of the next column right behind it.  *)
SerializeBare(v) == IF v = NULL THEN <<Marker>> ELSE Text[v]

(* serializeKey: a NULL has its marker instead of a length and a text.     *)
Serialize(v) == IF v = NULL THEN <<Marker, Terminator>> ELSE SerializePlain(v)

(* The values that identify row r: those GROUP BY names, or all of them.   *)
Columns  == IF operator = "aggregate" THEN group_by ELSE <<"key", "arg">>
KeyOf(r) == [n \in DOMAIN Columns |-> input[r][Columns[n]]]

(* The text of row r in the hash table.  Volcano's DISTINCT has a loop of  *)
(* its own that knows no marker.                                           *)
RowText(r) ==
    FlattenSeq([n \in DOMAIN Columns |-> IF Streams THEN SerializePlain(KeyOf(r)[n])
                                                   ELSE Serialize(KeyOf(r)[n])])

-----------------------------------------------------------------------------
(* Accumulators.                                                           *)

Fresh == [count |-> 0, non_null_count |-> 0, sum |-> 0, min_val |-> NULL, max_val |-> NULL]

(* Wrong variant: COUNT(arg) counts the NULLs too.                         *)
UpdatedCountsNull(acc, v) ==
    IF v = NULL
    THEN [acc EXCEPT !.count = @ + 1, !.non_null_count = @ + 1]
    ELSE [count          |-> acc.count + 1,
          non_null_count |-> acc.non_null_count + 1,
          sum            |-> acc.sum + v,
          min_val        |-> IF acc.min_val = NULL \/ v < acc.min_val THEN v ELSE acc.min_val,
          max_val        |-> IF acc.max_val = NULL \/ v > acc.max_val THEN v ELSE acc.max_val]

(* The accumulator after one more row whose argument is v.                 *)
Updated(acc, v) ==
    IF v = NULL
    THEN [acc EXCEPT !.count = @ + 1]
    ELSE [count          |-> acc.count + 1,
          non_null_count |-> acc.non_null_count + 1,
          sum            |-> acc.sum + v,
          min_val        |-> IF acc.min_val = NULL \/ v < acc.min_val THEN v ELSE acc.min_val,
          max_val        |-> IF acc.max_val = NULL \/ v > acc.max_val THEN v ELSE acc.max_val]

(* SELECT key, COUNT( * ), COUNT(arg), SUM(arg), AVG(arg), MIN(arg),       *)
(* MAX(arg); an average is the quotient of sum and count.                  *)
AggregateRow(key, acc) ==
    [key |-> key, star |-> acc.count, count |-> acc.non_null_count,
     sum |-> IF acc.non_null_count > 0 THEN acc.sum ELSE NULL,
     avg |-> IF acc.non_null_count > 0 THEN <<acc.sum, acc.non_null_count>> ELSE NULL,
     min |-> acc.min_val, max |-> acc.max_val]

-----------------------------------------------------------------------------
(* Sorting.                                                                *)

(* Wrong variant: SQL's <, false of every NULL.                            *)
BeforeSql(a, b) == a # NULL /\ b # NULL /\ a < b

(* compareForSort(a, b) < 0: NULL comes before every value.                *)
Before(a, b) == b # NULL /\ (a = NULL \/ a < b)

(* The comparator of both sorts: the first column that tells r from s.     *)
RowBefore(r, s) ==
    \E n \in DOMAIN order_by :
        LET before(k, x, y) == LET c == order_by[k].column
                               IN  IF order_by[k].desc THEN Before(input[y][c], input[x][c])
                                                       ELSE Before(input[x][c], input[y][c])
        IN  /\ before(n, r, s)
            /\ \A m \in 1 .. n - 1 : ~ before(m, r, s) /\ ~ before(m, s, r)

(* std::stable_sort: on a short range, insertion from the back.            *)
Insert(rows, r) ==
    InsertAt(rows, 1 + Max({0} \cup {i \in DOMAIN rows : ~ RowBefore(r, rows[i])}), r)

StableSort(rows) == FoldLeft(Insert, << >>, rows)

-----------------------------------------------------------------------------
Init ==
    /\ operator \in {"aggregate", "distinct", "sort"}
    /\ engine \in {"volcano", "vectorized"}
    /\ group_by \in IF operator = "aggregate" THEN GroupBys ELSE {<< >>}
    /\ order_by \in IF operator = "sort" THEN OrderBys ELSE {<< >>}
    /\ \E n \in 0 .. MaxRows :
        input \in [1 .. n -> [key : IF Streams THEN StreamedKeys ELSE Key \cup {NULL},
                              arg : Arg \cup {NULL}]]
    /\ pc = "consume" /\ next = 1
    /\ seen = << >> /\ groups = << >>
    /\ buffer = << >> /\ cursor = 0 /\ result = << >>

HasRow == pc = "consume" /\ next <= Len(input)

(* A row whose text is new: its group starts with the row's values.        *)
AggregateNew ==
    /\ HasRow /\ operator = "aggregate" /\ ~ Contains(seen, RowText(next))
    /\ seen' = Append(seen, RowText(next))
    /\ groups' = Append(groups, [key |-> KeyOf(next), acc |-> Updated(Fresh, input[next].arg)])
    /\ next' = next + 1
    /\ UNCHANGED <<query, pc, buffer, cursor, result>>

(* A row of a known group.                                                 *)
AggregateSeen ==
    /\ HasRow /\ operator = "aggregate"
    /\ \E g \in DOMAIN seen :
        /\ seen[g] = RowText(next)
        /\ groups' = [groups EXCEPT ![g].acc = Updated(@, input[next].arg)]
    /\ next' = next + 1
    /\ UNCHANGED <<query, pc, seen, buffer, cursor, result>>

(* VecDistinctNode keeps the first row of every text.                      *)
DistinctRow ==
    /\ HasRow /\ operator = "distinct" /\ engine = "vectorized"
    /\ IF Contains(seen, RowText(next))
       THEN UNCHANGED <<seen, buffer>>
       ELSE seen' = Append(seen, RowText(next)) /\ buffer' = Append(buffer, next)
    /\ next' = next + 1
    /\ UNCHANGED <<query, pc, groups, cursor, result>>

(* DistinctNode: a row of a new text goes up at once, any other is         *)
(* skipped and the loop pulls the next.                                    *)
DistinctStream ==
    /\ HasRow /\ Streams
    /\ IF Contains(seen, RowText(next))
       THEN UNCHANGED <<seen, result>>
       ELSE seen' = Append(seen, RowText(next)) /\ result' = Append(result, next)
    /\ next' = next + 1
    /\ UNCHANGED <<query, pc, groups, buffer, cursor>>

(* Both sorts copy the row.                                                *)
SortRow ==
    /\ HasRow /\ operator = "sort"
    /\ buffer' = Append(buffer, next)
    /\ next' = next + 1
    /\ UNCHANGED <<query, pc, seen, groups, cursor, result>>

Consumed == pc = "consume" /\ next > Len(input)

(* Wrong variant: a scalar aggregate needs a row to have a group.          *)
AllGroupsSeen == groups

(* The groups to put out: over no input a scalar aggregate has one.        *)
AllGroups ==
    IF group_by = << >> /\ groups = << >> THEN <<[key |-> << >>, acc |-> Fresh]>> ELSE groups

(* Wrong variant: the vectorized node, too, walks the hash table.          *)
MaterializeUnordered ==
    /\ Consumed /\ operator = "aggregate"
    /\ LET rows == [g \in DOMAIN AllGroups |-> AggregateRow(AllGroups[g].key, AllGroups[g].acc)]
       IN  \E order \in SetToSeqs(DOMAIN rows) : buffer' = [n \in DOMAIN order |-> rows[order[n]]]
    /\ pc' = "emit"
    /\ UNCHANGED <<query, next, seen, groups, cursor, result>>

(* The rows of the groups, in order of insertion (vectorized) or in the    *)
(* order of std::unordered_map, which is any (Volcano).                    *)
Materialize ==
    /\ Consumed /\ operator = "aggregate"
    /\ LET rows == [g \in DOMAIN AllGroups |-> AggregateRow(AllGroups[g].key, AllGroups[g].acc)]
       IN  \E order \in SetToSeqs(DOMAIN rows) :
            /\ engine = "vectorized" => \A n \in DOMAIN order : order[n] = n
            /\ buffer' = [n \in DOMAIN order |-> rows[order[n]]]
    /\ pc' = "emit"
    /\ UNCHANGED <<query, next, seen, groups, cursor, result>>

(* VecDistinctNode has consumed its child.                                 *)
DistinctDone ==
    /\ Consumed /\ operator = "distinct" /\ engine = "vectorized"
    /\ pc' = "emit"
    /\ UNCHANGED <<query, next, seen, groups, buffer, cursor, result>>

(* DistinctNode passes its child's end on.                                 *)
StreamDone ==
    /\ Consumed /\ Streams
    /\ pc' = "done"
    /\ UNCHANGED <<query, next, seen, groups, buffer, cursor, result>>

(* All rows are there: sort them.                                          *)
Sort ==
    /\ Consumed /\ operator = "sort"
    /\ buffer' = StableSort(buffer)
    /\ pc' = "emit"
    /\ UNCHANGED <<query, next, seen, groups, cursor, result>>

(* Wrong variant: the slice starts where the first one did.                *)
EmitAgain ==
    /\ pc = "emit" /\ cursor < Len(buffer)
    /\ LET batch == IF engine = "volcano" THEN 1 ELSE Min({BatchSize, Len(buffer) - cursor})
       IN  result' = SubSeq(buffer, cursor + 1, cursor + batch)
    /\ UNCHANGED <<query, pc, next, seen, groups, buffer, cursor>>

(* One row (Volcano) or one slice of at most a batch goes up.              *)
Emit ==
    /\ pc = "emit" /\ cursor < Len(buffer)
    /\ LET batch == IF engine = "volcano" THEN 1 ELSE Min({BatchSize, Len(buffer) - cursor})
       IN  /\ result' = result \o SubSeq(buffer, cursor + 1, cursor + batch)
           /\ cursor' = cursor + batch
    /\ UNCHANGED <<query, pc, next, seen, groups, buffer>>

EmitDone ==
    /\ pc = "emit" /\ cursor >= Len(buffer)
    /\ pc' = "done"
    /\ UNCHANGED <<query, next, seen, groups, buffer, cursor, result>>

(* Every further call answers null.                                        *)
Exhausted == pc = "done" /\ UNCHANGED vars

Next ==
    \/ AggregateNew \/ AggregateSeen \/ DistinctRow \/ DistinctStream \/ SortRow
    \/ Materialize \/ DistinctDone \/ StreamDone \/ Sort
    \/ Emit \/ EmitDone \/ Exhausted

(* The parent keeps pulling and no step waits.                             *)
Spec == Init /\ [][Next]_vars /\ WF_vars(Next)

-----------------------------------------------------------------------------
(* Properties.                                                             *)

Rows == DOMAIN input
AggregateRows == [key : Seq(Key \cup Arg \cup {NULL}), star : Nat, count : Nat,
                  sum : Int \cup {NULL}, avg : (Int \X Nat) \cup {NULL},
                  min : Arg \cup {NULL}, max : Arg \cup {NULL}]

(* What SQL says of the group of the rows R.                               *)
Expected(key, R) ==
    LET args == {r \in R : input[r].arg # NULL}
        values == {input[r].arg : r \in args}
        total == MapThenSumSet(LAMBDA r : input[r].arg, args)
    IN  [key |-> key, star |-> Cardinality(R), count |-> Cardinality(args),
         sum |-> IF args = {} THEN NULL ELSE total,
         avg |-> IF args = {} THEN NULL ELSE <<total, Cardinality(args)>>,
         min |-> IF args = {} THEN NULL ELSE Min(values),
         max |-> IF args = {} THEN NULL ELSE Max(values)]

(* The groups SQL asks for: one per combination of values, NULL being a    *)
(* value like any other, or exactly one when there is no GROUP BY.         *)
ExpectedGroups ==
    IF group_by = << >> THEN {Expected(<< >>, Rows)}
    ELSE {Expected(k, {r \in Rows : KeyOf(r) = k}) : k \in {KeyOf(r) : r \in Rows}}

(* Every group comes out exactly once with the right aggregates, in        *)
(* either engine: the text tells NULL from 'NULL' and where one column's   *)
(* value ends and the next one's begins, NULL arguments are skipped, and   *)
(* an empty input still has its one scalar row.                            *)
GroupsExact ==
    pc = "done" /\ operator = "aggregate" =>
        /\ ToSet(result) = ExpectedGroups
        /\ Len(result) = Cardinality(ExpectedGroups)

FirstRow(key) == Min({r \in Rows : KeyOf(r) = key})

(* The vectorized aggregate puts its groups out in the order in which      *)
(* their first rows came, through every slice.                             *)
FirstSeenOrder ==
    operator = "aggregate" /\ engine = "vectorized" /\ group_by # << >> =>
        \A n \in 1 .. Len(result) - 1 :
            FirstRow(result[n].key) < FirstRow(result[n + 1].key)

(* DISTINCT keeps exactly the first of the rows that agree in every        *)
(* column, in input order.                                                 *)
DistinctExact ==
    pc = "done" /\ operator = "distinct" =>
        /\ ToSet(result) = {r \in Rows : \A s \in 1 .. r - 1 : input[s] # input[r]}
        /\ \A n \in 1 .. Len(result) - 1 : result[n] < result[n + 1]

(* The order that ORDER BY promises, NULL below every value.               *)
Rank(v) == IF v = NULL THEN Min(Key \cup Arg) - 1 ELSE v

Precedes(r, s) ==
    \E n \in DOMAIN order_by :
        LET column == order_by[n].column
        IN  /\ IF order_by[n].desc THEN Rank(input[r][column]) > Rank(input[s][column])
                                  ELSE Rank(input[r][column]) < Rank(input[s][column])
            /\ \A m \in 1 .. n - 1 : input[r][order_by[m].column] = input[s][order_by[m].column]

(* Whatever has NULLs in it, ORDER BY puts out every row once, no row      *)
(* before one that must precede it, and equal rows as they came.           *)
SortedStable ==
    pc = "done" /\ operator = "sort" =>
        /\ ToSet(result) = Rows /\ Len(result) = Len(input)
        /\ \A n, m \in Rows : n < m =>
            \/ Precedes(result[n], result[m])
            \/ ~ Precedes(result[m], result[n]) /\ result[n] < result[m]

(* Every operator reaches its end: each call consumes or emits.            *)
Ends == <>(pc = "done")
=============================================================================
