------------------------------ MODULE VecFilter ------------------------------
(***************************************************************************)
(* The vectorized WHERE: evalPredicate over the chunks of a filter, and    *)
(* the ExpressionExecutors it keeps.                                       *)
(*                                                                         *)
(* AND and OR at the top of the predicate are answered by selections of    *)
(* rows.  AND cascades: its right operand sees only the rows its left one  *)
(* kept.  OR evaluates both operands over the same rows and merges the     *)
(* results.  What is below is a leaf: a comparison of a column with a      *)
(* constant is a loop over the column; a leaf with a CASE is evaluated row *)
(* by row; any other is compiled once per query, every node owning a       *)
(* scratch column that is reused from chunk to chunk and refilled from     *)
(* those of its operands, for the rows the leaf was given.                 *)
(*                                                                         *)
(* The nodes come in post-order, so the next node to run is all that a     *)
(* recursive call needs to remember.                                       *)
(***************************************************************************)
EXTENDS Evaluator, SequencesExt

CONSTANTS
    Name,        \* columns of the input
    Cell,        \* what a column may hold: [valid, data], data also under a NULL
    Predicates,  \* expressions in post-order
    ChunkLength, \* rows of a chunk
    Selections   \* the rows of every chunk that are selected, a sequence of sequences

ASSUME CellAssumption == Cell \subseteq [valid : BOOLEAN, data : INT]
ASSUME PredicateAssumption == \A e \in Predicates : e \in Seq(Nodes(Name)) /\ PostOrder(e)
ASSUME SelectionAssumption ==
    /\ ChunkLength \in Nat /\ Selections \subseteq Seq(Seq(1 .. ChunkLength))
    /\ \A s \in Selections : \A c \in 1 .. Len(s) : \A i, j \in 1 .. Len(s[c]) : i < j => s[c][i] < s[c][j]

VARIABLES
    expr,       \* the predicate
    leaf,       \* per node: the leaf it is part of, 0 for AND and OR at the top
    selections, \* per chunk, the rows the filter is given, ascending
    chunks,     \* per chunk, column -> row -> cell
    current,    \* the chunk in hand
    node,       \* the next node to run
    out,        \* per node: its scratch column
    sel,        \* per node answered by a selection: the rows that pass it
    status,
    selected    \* per finished chunk, the rows that pass

input == <<expr, leaf, selections, chunks>>
filterVars == <<input, current, node, out, sel, status, selected>>

-----------------------------------------------------------------------------
(* The top of the predicate: the nodes that evalPredicate itself visits.   *)

Root == Len(expr)

(* Node n is in the expression that ends with node m.                      *)
Under(e, n, m) == First(e)[m] <= n /\ n <= m

TopsOf(e) ==
    {n \in DOMAIN e : \A p \in n + 1 .. Len(e) : Under(e, n, p) => e[p].kind = "logical"}

(* The leaf that each node is part of.                                     *)
LeafOf(e) ==
    LET leaves == {n \in TopsOf(e) : e[n].kind # "logical"}
    IN  [n \in DOMAIN e |-> IF n \in TopsOf(e) \ leaves THEN 0 ELSE CHOOSE l \in leaves : Under(e, n, l)]

Leaves       == {n \in DOMAIN leaf : leaf[n] = n}
Tops         == {n \in DOMAIN leaf : leaf[n] \in {0, n}}
NodesOf(l)   == {n \in DOMAIN leaf : leaf[n] = l}

(* The innermost AND whose right operand a node at the top is part of has  *)
(* answered its left operand: those rows are what the node is given.       *)
InputOf(top) ==
    LET ands == {p \in Tops \ Leaves : expr[p].op = "AND" /\ Under(expr, top, expr[p].right)}
    IN  IF ands = {} THEN selections[current] ELSE sel[expr[Min(ands)].left]

Here  == expr[node]
Sel   == InputOf(leaf[node])
Count == Len(Sel)

(* scanColumn serves a column compared with a constant.                    *)
Scans(l) == expr[l].kind = "compare" /\ expr[expr[l].left].kind = "column"
                                    /\ expr[expr[l].right].kind = "constant"

(* compileNode declines a CASE, and with it the whole leaf.                *)
Compiles(l) == ~ Scans(l) /\ \A n \in NodesOf(l) : expr[n].kind # "case"

(* The row as evaluate sees it.                                            *)
RowOf(c, r) == [x \in Name |-> IF chunks[c][x][r].valid THEN chunks[c][x][r].data ELSE NULL]

(* A column: data, and a validity mask that exists only once some row is   *)
(* NULL.                                                                   *)
EmptyColumn == [data |-> << >>, validity |-> << >>, all_valid |-> TRUE]
Null(column, i) == ~ column.all_valid /\ column.validity[i] = 0

FilterInit ==
    /\ expr \in Predicates /\ leaf = LeafOf(expr)
    /\ selections \in Selections
    /\ chunks \in [1 .. Len(selections) -> [Name -> [1 .. ChunkLength -> Cell]]]
    /\ current = 1 /\ node = 1
    /\ out = [n \in 1 .. Len(expr) |-> EmptyColumn]
    /\ sel = [n \in Tops |-> << >>]
    /\ status = "running" /\ selected = << >>

-----------------------------------------------------------------------------
(* Kernels.  resetOut clears the mask; the data is overwritten.            *)

Column1 == out[Here.left]
Column2 == out[Here.right]

(* The mask of a result that is NULL where an operand is.                  *)
Propagated(a, b) ==
    IF a.all_valid /\ b.all_valid THEN << >>
    ELSE [i \in 1 .. Count |-> Truth(~ Null(a, i) /\ ~ Null(b, i))]

(* Marks more rows NULL, making the mask on first use.                     *)
Mark(validity, nulls) ==
    IF nulls = {} THEN validity
    ELSE [i \in 1 .. Count |-> IF i \in nulls THEN 0 ELSE IF validity = << >> THEN 1 ELSE validity[i]]

(* The rows of the selection whose flag is set and not NULL.               *)
Passing(column) == {Sel[i] : i \in {j \in 1 .. Count : ~ Null(column, j) /\ column.data[j] # 0}}

(* The rows of S in ascending order, the order of every selection.         *)
Ascending(S) == CHOOSE s \in SetToSeqs(S) : \A i, j \in DOMAIN s : i < j => s[i] < s[j]

(* The node's column is replaced and the next node follows; the last one   *)
(* of a leaf answers it.                                                   *)
Keep(column) ==
    /\ out' = [out EXCEPT ![node] = column]
    /\ sel' = IF node \in Leaves THEN [sel EXCEPT ![node] = Ascending(Passing(column))] ELSE sel
    /\ node' = node + 1
    /\ UNCHANGED <<input, current, status, selected>>

(* Wrong variant: the mask of the previous chunk stays, resized, unless a  *)
(* new one is made.                                                        *)
WriteStale(data, validity) ==
    LET last  == out[node].validity
        stale == [i \in 1 .. Count |-> IF i <= Len(last) THEN last[i] ELSE 1]
        mask  == IF validity = << >> /\ last # << >> THEN stale ELSE validity
    IN  Keep([data |-> data, validity |-> mask, all_valid |-> mask = << >>])

(* What a kernel leaves: resetOut has cleared the mask of the last chunk.  *)
Write(data, validity) ==
    Keep([data |-> data, validity |-> validity, all_valid |-> validity = << >>])

Busy == status = "running" /\ current <= Len(selections) /\ node <= Root

(* A node of a compiled leaf that is still to be answered.                 *)
Running(kind) ==
    /\ Busy /\ Here.kind = kind
    /\ kind = "logical" => node \notin Tops
    /\ Compiles(leaf[node])

(* Gathers the selected rows, with what lies under a NULL.                 *)
RunColumn ==
    /\ Running("column")
    /\ LET source == chunks[current][Here.column]
       IN  Write([i \in 1 .. Count |-> source[Sel[i]].data],
                 Mark(<< >>, {i \in 1 .. Count : ~ source[Sel[i]].valid}))

RunConstant ==
    /\ Running("constant")
    /\ Write([i \in 1 .. Count |-> Here.constant], << >>)

(* Wrong variant: the kernel computes on the data under a NULL.            *)
ArithValueEager(validity, i) == Arithmetic(Here.op, Column1.data[i], Column2.data[i])

(* A row that is already NULL is skipped: the data under it may overflow.  *)
Skipped(validity, i) == validity # << >> /\ validity[i] = 0

ArithValue(validity, i) ==
    IF Skipped(validity, i) THEN 0 ELSE Arithmetic(Here.op, Column1.data[i], Column2.data[i])

RunArith ==
    /\ Running("arith")
    /\ LET nulls == Propagated(Column1, Column2)
           value(i) == ArithValue(nulls, i)
       IN  /\ \A i \in 1 .. Count : value(i) # Error
           /\ Write([i \in 1 .. Count |-> IF value(i) = NULL THEN 0 ELSE value(i)],
                    Mark(nulls, {i \in 1 .. Count : value(i) = NULL}))

RunCompare ==
    /\ Running("compare")
    /\ Write([i \in 1 .. Count |-> Truth(CompareInts(Here.op, Column1.data[i], Column2.data[i]))],
             Propagated(Column1, Column2))

(* Three-valued AND and OR: the mask comes from the answers.               *)
RunLogical ==
    /\ Running("logical")
    /\ LET operand(column, i) == IF Null(column, i) THEN NULL ELSE column.data[i]
           value(i) == Logical(Here.op, operand(Column1, i), operand(Column2, i))
       IN  Write([i \in 1 .. Count |-> IF value(i) = NULL THEN 0 ELSE value(i)],
                 Mark(<< >>, {i \in 1 .. Count : value(i) = NULL}))

RunNegate ==
    /\ Running("negate")
    /\ LET nulls == Propagated(Column1, Column1)
           value(i) == IF Skipped(nulls, i) THEN 0 ELSE Checked(- Column1.data[i])
       IN  /\ \A i \in 1 .. Count : value(i) # Error
           /\ Write([i \in 1 .. Count |-> value(i)], nulls)

(* Reads the mask of its operand and is itself never NULL.                 *)
RunIsNull ==
    /\ Running("is_null")
    /\ Write([i \in 1 .. Count |-> Truth(Null(Column1, i) # Here.negated)], << >>)

RunInSet ==
    /\ Running("in")
    /\ LET nulls == Propagated(Column1, Column1)
       IN  Write([i \in 1 .. Count |->
                     IF Skipped(nulls, i) THEN 0 ELSE Truth((Column1.data[i] \in Here.list) # Here.negated)],
                 nulls)

(* A kernel meets an overflow: the query fails.                            *)
KernelRaises ==
    /\ \/ /\ Running("arith")
          /\ \E i \in 1 .. Count : ArithValue(Propagated(Column1, Column2), i) = Error
       \/ /\ Running("negate")
          /\ \E i \in 1 .. Count : ~ Null(Column1, i) /\ Checked(- Column1.data[i]) = Error
    /\ status' = "error"
    /\ UNCHANGED <<input, current, node, out, sel, selected>>

-----------------------------------------------------------------------------
(* Leaves that are not compiled, each in one step.                         *)

(* A leaf about to be evaluated: all its nodes are still to come.          *)
Starting(l) == Busy /\ l \in Leaves /\ NodesOf(l) \subseteq node .. l /\ node \in NodesOf(l)

(* The value of the expression at node n on a row of a chunk.              *)
ValueAt(n, c, r) == Evaluate(expr, RowOf(c, r))[n]

Answer(n, rows) ==
    /\ sel' = [sel EXCEPT ![n] = rows]
    /\ node' = n + 1
    /\ UNCHANGED <<input, current, out, status, selected>>

(* A NULL never passes, whatever data lies under it.                       *)
ScanColumn ==
    \E l \in Leaves :
        /\ Starting(l) /\ Scans(l)
        /\ LET column == chunks[current][expr[expr[l].left].column]
               threshold == expr[expr[l].right].constant
               passes(r) == column[r].valid /\ CompareInts(expr[l].op, column[r].data, threshold)
           IN  Answer(l, Ascending({Sel[i] : i \in {j \in 1 .. Count : passes(Sel[j])}}))

Rowwise ==
    \E l \in Leaves :
        /\ Starting(l) /\ ~ Scans(l) /\ ~ Compiles(l)
        /\ \A i \in 1 .. Count : ValueAt(l, current, Sel[i]) # Error
        /\ Answer(l, Ascending({Sel[i] : i \in {j \in 1 .. Count : IsTrue(ValueAt(l, current, Sel[j]))}}))

RowwiseRaises ==
    /\ \E l \in Leaves :
        /\ Starting(l) /\ ~ Scans(l) /\ ~ Compiles(l)
        /\ \E i \in 1 .. Count : ValueAt(l, current, Sel[i]) = Error
    /\ status' = "error"
    /\ UNCHANGED <<input, current, node, out, sel, selected>>

-----------------------------------------------------------------------------
(* AND and OR at the top.                                                  *)

(* Two ascending lists merged, a row in both once.                         *)
Union(x, y) ==
    LET merge[at \in (1 .. Len(x) + 1) \X (1 .. Len(y) + 1)] ==
          LET i == at[1]
              j == at[2]
          IN  IF i > Len(x) THEN SubSeq(y, j, Len(y))
              ELSE IF j > Len(y) THEN SubSeq(x, i, Len(x))
              ELSE IF x[i] < y[j] THEN <<x[i]>> \o merge[<<i + 1, j>>]
              ELSE IF y[j] < x[i] THEN <<y[j]>> \o merge[<<i, j + 1>>]
              ELSE <<x[i]>> \o merge[<<i + 1, j + 1>>]
    IN  merge[<<1, 1>>]

(* AND: the right operand has seen the survivors of the left one only.     *)
Cascade ==
    /\ Busy /\ node \in Tops \ Leaves /\ Here.op = "AND"
    /\ Answer(node, sel[Here.right])

(* The code leaves open which operand of OR goes first: neither changes    *)
(* what the other selects or whether it raises.                            *)
Merge ==
    /\ Busy /\ node \in Tops \ Leaves /\ Here.op = "OR"
    /\ Answer(node, Union(sel[Here.left], sel[Here.right]))

(* VecFilterNode stamps the answer onto the chunk and asks for the next.   *)
ChunkDone ==
    /\ status = "running" /\ current <= Len(selections) /\ node > Root
    /\ selected' = Append(selected, sel[Root])
    /\ current' = current + 1 /\ node' = 1
    /\ UNCHANGED <<input, out, sel, status>>

Finished ==
    /\ status = "error" \/ current > Len(selections)
    /\ UNCHANGED filterVars

FilterNext ==
    \/ RunColumn \/ RunConstant \/ RunArith \/ RunCompare \/ RunLogical
    \/ RunNegate \/ RunIsNull \/ RunInSet \/ KernelRaises
    \/ ScanColumn \/ Rowwise \/ RowwiseRaises
    \/ Cascade \/ Merge
    \/ ChunkDone
    \/ Finished

FilterSpec == FilterInit /\ [][FilterNext]_filterVars /\ WF_filterVars(FilterNext)

-----------------------------------------------------------------------------
(* Properties.                                                             *)

(* The row engine evaluates every operand on every row; this filter skips  *)
(* the right operand of an AND on rows that its left one rejects: it may   *)
(* be saved from an error, and nothing else.  The predicate's value on a   *)
(* row when AND stops at a left operand that is not true:                  *)
ShortValue(n, c, r, value) ==
    IF n \in Leaves THEN ValueAt(n, c, r)
    ELSE LET left  == value[expr[n].left]
             right == value[expr[n].right]
         IN  IF left = Error \/ (expr[n].op = "AND" /\ ~ IsTrue(left)) THEN left
             ELSE IF right = Error THEN Error
             ELSE Logical(expr[n].op, left, right)

ShortValues(c, r) ==
    LET value[n \in Tops] == ShortValue(n, c, r, value)
    IN  value

ShortCircuit(c, r) == ShortValues(c, r)[Root]

(* A finished chunk's selection is ascending, has only rows the filter was *)
(* given, and holds a row for which the scalar evaluator has an answer     *)
(* exactly when that answer is true: whatever the chunk before it left in  *)
(* the scratch columns, whatever lies under a NULL, and however selections *)
(* were cascaded and merged.                                               *)
SameRows ==
    \A c \in 1 .. Len(selected) :
        LET rows == selected[c] IN
        /\ \A i \in 1 .. Len(rows) - 1 : rows[i] < rows[i + 1]
        /\ \A i \in 1 .. Len(rows) : rows[i] \in {selections[c][j] : j \in 1 .. Len(selections[c])}
        /\ \A j \in 1 .. Len(selections[c]) :
             LET r == selections[c][j] IN
             ValueAt(Root, c, r) # Error =>
                 (IsTrue(ValueAt(Root, c, r)) <=> \E i \in 1 .. Len(rows) : rows[i] = r)

(* The query fails exactly when some row raises that no AND protects.      *)
SameErrors ==
    /\ status = "error" =>
        \E i \in 1 .. Len(selections[current]) : ShortCircuit(current, selections[current][i]) = Error
    /\ \A c \in 1 .. Len(selected) : \A i \in 1 .. Len(selections[c]) :
        ShortCircuit(c, selections[c][i]) # Error
=============================================================================
