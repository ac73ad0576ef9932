---------------------------- MODULE MCVecFilter -----------------------------
(* Small instances of VecFilter.                                           *)
EXTENDS VecFilter

CONSTANTS a, b

(* 0, a value whose double overflows three bits, and the smallest INT,     *)
(* which has no negation: as a value and under a NULL.                     *)
Cells == {[valid |-> TRUE, data |-> 0], [valid |-> TRUE, data |-> 2],
          [valid |-> TRUE, data |-> -4], [valid |-> FALSE, data |-> -4]}

(* One compiled leaf, a kernel of each kind.                               *)
SumIsLarge  == <<Column(a), Column(b), Arith("+", 1, 2), Constant(1), Comparison(">", 3, 4)>>
Opposite    == <<Column(a), Negate(1), Column(b), Comparison("<", 2, 3)>>
NoProduct   == <<Column(a), Column(b), Arith("*", 1, 2), IsNull(3, FALSE)>>
OverMinusOne == <<Column(a), Constant(-1), Arith("/", 1, 2), IsNull(3, FALSE)>>
ListedRatio == <<Column(a), Column(b), Arith("/", 1, 2), In(3, {0}, TRUE)>>
EitherNull  == <<Column(a), Column(b), Arith("/", 1, 2), Column(a), Connective("OR", 3, 4), IsNull(5, FALSE)>>
BothNull    == <<Column(a), Column(b), Arith("/", 1, 2), Column(a), Connective("AND", 3, 4), IsNull(5, TRUE)>>

(* One leaf, row by row: no branch that is not taken.                      *)
Guarded     == <<Column(a), Column(b), Column(a), Arith("-", 2, 3), Column(b), Column(b), Arith("+", 5, 6),
                 When(1, 4, 7)>>

(* Selections cascaded and merged: a = 0 AND a + b > 1, which the cascade  *)
(* saves from an overflow; a + b > 1 OR b = 0; (a = 0 AND CASE ...) OR     *)
(* b != 0; a / b AND a.                                                    *)
SafeSum     == <<Column(a), Constant(0), Comparison("=", 1, 2),
                 Column(a), Column(b), Arith("+", 4, 5), Constant(1), Comparison(">", 6, 7),
                 Connective("AND", 3, 8)>>
SumOrZero   == <<Column(a), Negate(1), Column(b), Comparison("<", 2, 3),
                 Column(b), Constant(0), Comparison("=", 5, 6), Connective("OR", 4, 7)>>
CaseOrB     == <<Column(a), Constant(0), Comparison("=", 1, 2),
                 Column(a), Column(b), Column(b), Column(b), Arith("+", 6, 7), When(4, 5, 8),
                 Connective("AND", 3, 9),
                 Column(b), Constant(0), Comparison("!=", 11, 12), Connective("OR", 10, 13)>>
RatioAndA   == <<Column(a), Column(b), Arith("/", 1, 2), Column(a), Connective("AND", 3, 4)>>

AllPredicates == {SumIsLarge, Opposite, NoProduct, OverMinusOne, ListedRatio, EitherNull, BothNull, Guarded,
                  SafeSum, SumOrZero, CaseOrB, RatioAndA}

(* A long chunk before a short one, and the other way round.               *)
LongShort == {<< <<1, 2>>, <<2>> >>, << <<2>>, <<1, 2>> >>}

(* The rows outside the selections hold one value, the hardest: a NULL.    *)
Unselected == [valid |-> FALSE, data |-> -4]

MCInit ==
    /\ FilterInit
    /\ \A c \in 1 .. Len(selections) : \A r \in (1 .. ChunkLength) \ Range(selections[c]) :
        \A x \in Name : chunks[c][x][r] = Unselected

MCSpec == MCInit /\ [][FilterNext]_filterVars /\ WF_filterVars(FilterNext)
=============================================================================
