------------------------------ MODULE Meaning ------------------------------
(***************************************************************************)
(* What an expression of SQL means on a row, stated without the program:   *)
(* three-valued logic as an order of truth values, BETWEEN as itself, LIKE *)
(* as a way to split the text, dates by the calendar.  Arithmetic is that  *)
(* of the dialect (section Dialect of the repository's README): INTs of a  *)
(* fixed width, an operation that does not fit raises, x / 0 is NULL.      *)
(*                                                                         *)
(* A row is a function from names of columns to values.                    *)
(***************************************************************************)
EXTENDS Grammar, Evaluation

(* Truth values in order: false, unknown, true.                            *)
Rank(v)  == IF IsNull(v) THEN 1 ELSE IF v.num = 0 THEN 0 ELSE 2
Ranked(n) == <<Truth(FALSE), NullValue, Truth(TRUE)>>[n + 1]
AsTruth(v) == IF v.type \in {"STRING", "DOUBLE"} THEN Raise("type") ELSE v

Smallest(m, n) == IF m <= n THEN m ELSE n
And3(v, w) == Ranked(Smallest(Rank(v), Rank(w)))
Or3(v, w)  == Ranked(2 - Smallest(2 - Rank(v), 2 - Rank(w)))
Not3(v)    == Ranked(2 - Rank(v))

(* A % stands for any part of the text, a _ for one letter: whether what   *)
(* is left of the text from t on matches what is left of the pattern.      *)
Matches(text, pattern) ==
    LET from[t \in 1 .. Len(text) + 1, p \in 1 .. Len(pattern) + 1] ==
          IF p > Len(pattern) THEN t > Len(text)
          ELSE IF pattern[p] = "%" THEN \E u \in t .. Len(text) + 1 : from[u, p + 1]
          ELSE /\ t <= Len(text)
               /\ pattern[p] = "_" \/ Fold(pattern[p]) = Fold(text[t])
               /\ from[t + 1, p + 1]
    IN  from[1, 1]

(* The operators whose value is the opposite of another's.                 *)
Positive == ("NOT BETWEEN" :> "BETWEEN") @@ ("NOT IN" :> "IN")
            @@ ("NOT LIKE" :> "LIKE") @@ ("IS NOT NULL" :> "IS NULL")

(* A comparison with NULL is unknown.                                      *)
Compare3(op, v, w) == IF IsNull(v) \/ IsNull(w) THEN NullValue ELSE Compared(op, v, w)

Connect3(op, l, r) ==
    IF Raises(l) \/ Raises(r) THEN Raise("type") ELSE IF op = "AND" THEN And3(l, r) ELSE Or3(l, r)

(* An operator that needs all its operands, on their values.               *)
Applied(e, op, v) ==
    CASE op \in {"AND", "OR"} -> Connect3(op, AsTruth(v[1]), AsTruth(v[2]))
      [] op \in CompareOps -> Compare3(op, v[1], v[2])
      [] op = "BETWEEN" ->
           Connect3("AND", Compare3(">=", v[1], v[2]), Compare3("<=", v[1], v[3]))
      [] op = "IS NULL" -> Truth(IsNull(v[1]))
      [] op = "IN" ->
           LET same(n) == Compare3("=", v[1], e.payload.values[n])
               all == DOMAIN e.payload.values
           IN  IF IsNull(v[1]) THEN NullValue
               ELSE IF \E n \in all : same(n) = Truth(TRUE) /\ \A k \in 1 .. n : ~ Raises(same(k))
               THEN Truth(TRUE)
               ELSE IF \E n \in all : Raises(same(n)) THEN Raise("type") ELSE Truth(FALSE)
      [] op = "LIKE" ->
           IF IsNull(v[1]) THEN NullValue
           ELSE IF v[1].type # "STRING" THEN Raise("type")
           ELSE Truth(Matches(v[1].word, e.payload.word))
      [] op \in ArithOps /\ Len(v) = 2 ->
           IF IsNull(v[1]) \/ IsNull(v[2]) THEN NullValue ELSE Arithmetic(op, v[1], v[2])
      [] op = "-" /\ Len(v) = 1 -> Negated(v[1])
      [] op = "SUBSTRING" ->
           LET letters == v[1].word
               first   == v[2].num
               last    == IF Len(v) = 3 THEN first + v[3].num - 1 ELSE Len(letters)
           IN  IF \E n \in DOMAIN v : IsNull(v[n]) THEN NullValue
               ELSE IF v[1].type # "STRING" \/ \E n \in DOMAIN v \ {1} : v[n].type # "INT"
               THEN Raise("type")
               ELSE IF first < 1 \/ (Len(v) = 3 /\ last < first - 1) THEN Raise("domain")
               ELSE WordValue(SubSeq(letters, first, Smallest(last, Len(letters))))

(* A date and an interval, added or subtracted; the interval may come      *)
(* first when it is added.                                                 *)
IsDateArithmetic(e) ==
    e.kind = "BinaryExpr" /\ \E n \in {1, 2} : e.args[n].kind = "IntervalLiteral"

Shifted(e, v) ==
    LET i == IF e.args[2].kind = "IntervalLiteral" THEN 2 ELSE 1
        n == IF e.op = "-" THEN - e.args[i].payload.count ELSE e.args[i].payload.count
        date  == v[3 - i]
        later == Later(date.date, n, e.args[i].payload.unit)
    IN  IF Raises(date) THEN Raise("date")
        ELSE IF later = OutOfRange THEN Raise("date") ELSE DateValue(later)

(* The result of the first condition that is true, when all before it can  *)
(* be told; else the ELSE.                                                 *)
MeaningOfCase(e, v) ==
    LET conditions == {n \in DOMAIN e.args : n % 2 = 1 /\ n < Len(e.args)}
        stops == {n \in conditions : AsTruth(v[n]) \notin {NullValue, Truth(FALSE)}}
        first == CHOOSE n \in stops : \A k \in stops : n <= k
    IN  IF stops = {} THEN IF Len(e.args) % 2 = 1 THEN v[Len(e.args)] ELSE NullValue
        ELSE IF Raises(AsTruth(v[first])) THEN AsTruth(v[first])
        ELSE v[first + 1]

(* What an expression means, from what its parts mean.                     *)
MeaningNode(row, e, v) ==
    LET opposite == e.op \in DOMAIN Positive
        turned(value) == IF opposite /\ ~ Raises(value) THEN Not3(value) ELSE value
    IN  CASE e.kind = "Literal"   -> e.payload
          [] e.kind = "ColumnRef" -> row[e.payload.column_name]
          [] e.kind = "CaseExpr"  -> MeaningOfCase(e, v)
          [] e.kind = "IntervalLiteral" -> Raise("interval")
          [] OTHER ->
               IF IsDateArithmetic(e) THEN Shifted(e, v)
               ELSE IF \E n \in DOMAIN v : Raises(v[n])
               THEN v[CHOOSE n \in DOMAIN v : Raises(v[n])]
               ELSE turned(Applied(e, IF opposite THEN Positive[e.op] ELSE e.op, v))

MeaningWalk == INSTANCE TreeFold WITH Step <- MeaningNode
Meaning(e, row) == MeaningWalk!Fold(row, e)
=============================================================================
