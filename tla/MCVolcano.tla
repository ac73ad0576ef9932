------------------------------ MODULE MCVolcano ------------------------------
(* Small instances of Volcano.                                             *)
EXTENDS Volcano

CONSTANT k

KeyText01 == [n \in Num |-> IF n = 0 THEN "0" ELSE "1"]

P(s, op, l) == [slot |-> s, col |-> k, op |-> op, lit |-> l]

(* None, on either side, on both, and an OR over both that no scan may use.*)
FewWheres ==
    {{}, {{P(0, "=", 1)}}, {{P(1, "=", 1)}}, {{P(0, "<", 1)}, {P(1, ">=", 0)}},
     {{P(0, "!=", 0), P(1, "=", 0)}}, {{P(0, ">", 0), P(0, "<", 0)}}}

FewFailings == {{}, {2}, {1, 3}}
=============================================================================
