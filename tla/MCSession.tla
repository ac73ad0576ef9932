------------------------------ MODULE MCSession ------------------------------
(* Small instances of Session.                                             *)
EXTENDS Session

CONSTANTS laps, drivers, lap_times, lap_speeds, by_driver, misspelt, mistyped

(* Two texts over one table, one join, one text that does not parse and    *)
(* one that does not plan.                                                 *)
AllTablesOf ==
    [q \in Query |-> IF q = by_driver THEN <<laps, drivers>> ELSE <<laps>>]

(* Summing the lap times of one content overflows.                         *)
AllRaises == [q \in Query |-> IF q = lap_times THEN {"large"} ELSE {}]
=============================================================================
