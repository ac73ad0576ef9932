------------------------------ MODULE Evaluator ------------------------------
(***************************************************************************)
(* evaluate, the scalar evaluator: the value of an expression on one row,  *)
(* the reference both engines are held to.  INT expressions with SQL's     *)
(* NULL, checked arithmetic of a fixed width, and booleans as 0 and 1.     *)
(*                                                                         *)
(* An expression is the list of its nodes in post-order: a node refers to  *)
(* its operands by their positions, and the last node is the root.  DOUBLE *)
(* and STRING operands, LIKE and SUBSTRING obey the same rules with other  *)
(* operations and are left out.                                            *)
(***************************************************************************)
EXTENDS Integers, Sequences

CONSTANTS
    Width,   \* bits of an INT (64 in the code)
    NULL,
    Error    \* evaluation raises

ASSUME WidthAssumption == Width \in Nat \ {0, 1}
ASSUME ValueAssumption == NULL # Error /\ NULL \notin Int /\ Error \notin Int

MinInt == - 2 ^ (Width - 1)
MaxInt == 2 ^ (Width - 1) - 1
INT    == MinInt .. MaxInt

Truth(b) == IF b THEN 1 ELSE 0

-----------------------------------------------------------------------------
(* checked_arith.h: a result that does not fit raises.                     *)
Checked(n) == IF n \in INT THEN n ELSE Error

Magnitude(n) == IF n < 0 THEN - n ELSE n

(* C++ division of integers truncates towards zero.                        *)
Quotient(l, r) == LET q == Magnitude(l) \div Magnitude(r)
                  IN  IF (l < 0) = (r < 0) THEN q ELSE - q

(* l op r on two values; a division by zero is NULL.                       *)
Arithmetic(op, l, r) ==
    CASE op = "+" -> Checked(l + r)
      [] op = "-" -> Checked(l - r)
      [] op = "*" -> Checked(l * r)
      [] op = "/" -> IF r = 0 THEN NULL ELSE Checked(Quotient(l, r))

CompareInts(op, l, r) ==
    CASE op = "="  -> l = r
      [] op = "!=" -> l # r
      [] op = "<"  -> l < r
      [] op = ">"  -> l > r
      [] op = "<=" -> l <= r
      [] op = ">=" -> l >= r

(* AND and OR are decided by one operand when that operand suffices;       *)
(* otherwise a NULL makes them unknown.                                    *)
Logical(op, l, r) ==
    LET isTrue(v)  == v # NULL /\ v # 0
        decisive(v) == v # NULL /\ (IF op = "AND" THEN v = 0 ELSE v # 0)
    IN  IF decisive(l) \/ decisive(r) THEN Truth(op = "OR")
        ELSE IF l = NULL \/ r = NULL THEN NULL
        ELSE Truth(op = "AND" /\ isTrue(l) /\ isTrue(r))

-----------------------------------------------------------------------------
(* The kinds of nodes.                                                     *)
Column(c)           == [kind |-> "column", column |-> c]
Constant(k)         == [kind |-> "constant", constant |-> k]
Arith(op, l, r)     == [kind |-> "arith", op |-> op, left |-> l, right |-> r]
Comparison(op, l, r) == [kind |-> "compare", op |-> op, left |-> l, right |-> r]
Connective(op, l, r) == [kind |-> "logical", op |-> op, left |-> l, right |-> r]
Negate(n)           == [kind |-> "negate", left |-> n]
IsNull(n, negated)  == [kind |-> "is_null", left |-> n, negated |-> negated]
In(n, list, negated) == [kind |-> "in", left |-> n, list |-> list, negated |-> negated]
(* CASE WHEN c THEN t ELSE e END                                           *)
When(c, t, e)       == [kind |-> "case", left |-> c, right |-> t, otherwise |-> e]

Nullary == {"column", "constant"}
Unary   == {"negate", "is_null", "in"}
Binary  == {"arith", "compare", "logical"}

(* The nodes of expressions over a set of columns.                         *)
Nodes(columns) ==
         [kind : {"column"}, column : columns]
    \cup [kind : {"constant"}, constant : INT]
    \cup [kind : {"arith"}, op : {"+", "-", "*", "/"}, left : Nat, right : Nat]
    \cup [kind : {"compare"}, op : {"=", "!=", "<", ">", "<=", ">="}, left : Nat, right : Nat]
    \cup [kind : {"logical"}, op : {"AND", "OR"}, left : Nat, right : Nat]
    \cup [kind : {"negate"}, left : Nat]
    \cup [kind : {"is_null"}, left : Nat, negated : BOOLEAN]
    \cup [kind : {"in"}, left : Nat, list : SUBSET INT, negated : BOOLEAN]
    \cup [kind : {"case"}, left : Nat, right : Nat, otherwise : Nat]

(* The first node of the expression that ends with each node.              *)
First(e) ==
    LET first[n \in 1 .. Len(e)] == IF e[n].kind \in Nullary THEN n ELSE first[e[n].left]
    IN  first

(* Every operand ends where the next one, or the node itself, begins.      *)
PostOrder(e) ==
    /\ \A n \in 1 .. Len(e) :
          /\ e[n].kind \notin Nullary => e[n].left \in 1 .. n - 1
          /\ e[n].kind \in Unary => e[n].left = n - 1
          /\ e[n].kind \in Binary => e[n].right = n - 1 /\ e[n].left = First(e)[e[n].right] - 1
          /\ e[n].kind = "case" => /\ e[n].otherwise = n - 1
                                   /\ e[n].right \in 1 .. n - 1 /\ e[n].right = First(e)[e[n].otherwise] - 1
                                   /\ e[n].left = First(e)[e[n].right] - 1
    /\ e # << >> /\ First(e)[Len(e)] = 1

(* Binary operators evaluate both operands before they look at either.     *)
Strict(l, r, result) ==
    IF l = Error \/ r = Error THEN Error ELSE IF l = NULL \/ r = NULL THEN NULL ELSE result

(* The value of a node on a row, a function from columns to INT or NULL,   *)
(* given the values of the nodes before it.                                *)
NodeValue(e, row, value) ==
    CASE e.kind = "column"   -> row[e.column]
      [] e.kind = "constant" -> e.constant
      [] e.kind = "arith"    ->
           Strict(value[e.left], value[e.right], Arithmetic(e.op, value[e.left], value[e.right]))
      [] e.kind = "compare"  ->
           Strict(value[e.left], value[e.right],
                  Truth(CompareInts(e.op, value[e.left], value[e.right])))
      [] e.kind = "logical"  ->
           IF value[e.left] = Error \/ value[e.right] = Error THEN Error
           ELSE Logical(e.op, value[e.left], value[e.right])
      [] e.kind = "negate"   ->
           Strict(value[e.left], value[e.left], Checked(- value[e.left]))
      [] e.kind = "is_null"  ->
           IF value[e.left] = Error THEN Error
           ELSE Truth((value[e.left] = NULL) # e.negated)
      [] e.kind = "in"       ->
           Strict(value[e.left], value[e.left], Truth((value[e.left] \in e.list) # e.negated))
      [] e.kind = "case"     ->
           IF value[e.left] = Error THEN Error
           ELSE IF value[e.left] \in {NULL, 0} THEN value[e.otherwise] ELSE value[e.right]

(* The value of every node.                                                *)
Evaluate(expr, row) ==
    LET value[n \in 1 .. Len(expr)] == NodeValue(expr[n], row, value)
    IN  value

(* WHERE keeps a row when the predicate is neither unknown nor 0.          *)
IsTrue(v) == v # NULL /\ v # 0
=============================================================================
