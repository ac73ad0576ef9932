----------------------------- MODULE QueryStream -----------------------------
(***************************************************************************)
(* What a streaming SELECT ... FROM t [WHERE w] [LIMIT n] promises its     *)
(* caller: the result grows by one or more rows at a time, always the next *)
(* qualifying rows in table order and never more than the limit allows;    *)
(* the query ends only when nothing is left to deliver, or fails because a *)
(* qualifying row cannot be projected.  How the rows are fetched, skipped, *)
(* batched or buffered is not visible here.                                *)
(***************************************************************************)
EXTENDS Naturals, FiniteSets

CONSTANT NoLimit

VARIABLES
    \* the query, which never changes
    qualifying,   \* the rows that satisfy WHERE
    failing,      \* the rows on which evaluating the select list raises
    limit,        \* LIMIT n, or NoLimit
    \* its execution
    result,       \* the rows delivered so far
    status        \* "running", "done" or "error"

query  == <<qualifying, failing, limit>>
stream == <<query, result, status>>

Fits(n) == limit = NoLimit \/ n <= limit

(* `rows` are the next qualifying rows after those already delivered.      *)
NextRows(rows) ==
    /\ rows \subseteq qualifying \ result
    /\ \A x \in rows, y \in (qualifying \ result) \ rows : x < y

(* Nothing more may be delivered.                                          *)
Exhausted ==
    \/ result = qualifying
    \/ limit # NoLimit /\ Cardinality(result) = limit

Init == result = {} /\ status = "running"

Emit ==
    /\ status = "running"
    /\ \E rows \in SUBSET (qualifying \ result) :
        /\ rows # {}
        /\ NextRows(rows)
        /\ Fits(Cardinality(result \cup rows))
        /\ result' = result \cup rows
    /\ UNCHANGED <<query, status>>

Finish ==
    /\ status = "running"
    /\ Exhausted
    /\ status' = "done"
    /\ UNCHANGED <<query, result>>

Fail ==
    /\ status = "running"
    /\ ~ Exhausted
    /\ \E r \in qualifying \ result : r \in failing
    /\ status' = "error"
    /\ UNCHANGED <<query, result>>

Next == Emit \/ Finish \/ Fail

Spec == Init /\ [][Next]_stream

(* Every query ends.                                                       *)
Ends == <>(status # "running")
=============================================================================
