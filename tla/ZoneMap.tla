------------------------------- MODULE ZoneMap -------------------------------
(***************************************************************************)
(* Comparison of column values with literals, and the zone maps that let a *)
(* scan skip a chunk of rows without reading it.                           *)
(*                                                                         *)
(* A column value is a number or NaN.  The CSV loader stores whatever      *)
(* std::stod accepts, and std::stod accepts "nan"; a loaded table holds no *)
(* NULL.  Strings are totally ordered and so behave as numbers here.       *)
(*                                                                         *)
(* A WHERE clause is kept in conjunctive form: a set of clauses, each a    *)
(* set of comparisons [col, op, lit] joined by OR.  A clause of a single   *)
(* comparison is the "column op literal" conjunct the pruner looks for; a  *)
(* longer one is an OR, which the pruner ignores.                          *)
(***************************************************************************)
EXTENDS Integers

CONSTANTS
    Num,        \* the ordered values a column can hold
    NaN,        \* the DOUBLE that compares false with everything
    Col,        \* the columns of the scanned table
    ChunkSize   \* rows covered by one zone-map entry (8192 in the code)

ASSUME NumAssumption == Num \subseteq Int
ASSUME NaNAssumption == NaN \notin Int
ASSUME ChunkAssumption == ChunkSize \in Nat \ {0}

Value == Num \cup {NaN}
Op    == {"=", "!=", "<", ">", "<=", ">="}
Pred  == [col : Col, op : Op, lit : Value]

-----------------------------------------------------------------------------
(* The comparison operators, with the IEEE rule that NaN is unordered.     *)

Less(a, b) == a # NaN /\ b # NaN /\ a < b
Same(a, b) == a # NaN /\ a = b

Compare(op, a, b) ==
    \/ op = "="  /\ Same(a, b)
    \/ op = "!=" /\ ~ Same(a, b)
    \/ op = "<"  /\ Less(a, b)
    \/ op = ">"  /\ Less(b, a)
    \/ op = "<=" /\ (Less(a, b) \/ Same(a, b))
    \/ op = ">=" /\ (Less(b, a) \/ Same(a, b))

(* A row passes WHERE when every clause has a comparison that is true.     *)
Holds(where, row) ==
    \A clause \in where : \E p \in clause : Compare(p.op, row[p.col], p.lit)

-----------------------------------------------------------------------------
(* Zone maps.                                                              *)

Zone == [min_val : Value, max_val : Value]

(* Rows of chunk k of a table of n rows; the last chunk may be short.      *)
ChunkRows(k, n) == {r \in 0 .. n - 1 : k * ChunkSize <= r /\ r < (k + 1) * ChunkSize}

(* The index of every chunk of a table of n rows.                          *)
ChunkIds(n) == {k \in 0 .. n : k * ChunkSize < n}

(* What the min / max loop leaves for a chunk whose rows hold val[r].  The *)
(* loop starts from the first row and moves only when a strict comparison  *)
(* is true: a leading NaN sticks, a later one is passed over.              *)
IsZone(z, val, k, n) ==
    LET first == k * ChunkSize
        Seen  == {val[r] : r \in ChunkRows(k, n)} \ {NaN}
    IN  IF val[first] = NaN
        THEN z.min_val = NaN /\ z.max_val = NaN
        ELSE /\ z.min_val \in Seen /\ \A v \in Seen : z.min_val <= v
             /\ z.max_val \in Seen /\ \A v \in Seen : v <= z.max_val

(* Wrong variant: the pruner also takes comparisons out of an OR.          *)
SimplePredicatesOfOr(where) == {p \in Pred : \E clause \in where : p \in clause}

(* The comparisons the pruner may use: the single-comparison conjuncts.    *)
SimplePredicates(where) == {p \in Pred : {p} \in where}

(* Wrong variant: the closed comparison is pruned like the open one.       *)
CanSkipChunkOpen(op, val, z) ==
    \/ op = "="  /\ (Less(val, z.min_val) \/ Less(z.max_val, val))
    \/ op \in {"<", "<="} /\ (Less(val, z.min_val) \/ Same(val, z.min_val))
    \/ op \in {">", ">="} /\ (Less(z.max_val, val) \/ Same(val, z.max_val))

(* Can no row of a chunk with zone z satisfy "col op val"?                 *)
CanSkipChunk(op, val, z) ==
    \/ op = "="  /\ (Less(val, z.min_val) \/ Less(z.max_val, val))
    \/ op = "<"  /\ (Less(val, z.min_val) \/ Same(val, z.min_val))
    \/ op = ">"  /\ (Less(z.max_val, val) \/ Same(val, z.max_val))
    \/ op = "<=" /\ Less(val, z.min_val)
    \/ op = ">=" /\ Less(z.max_val, val)

(* One comparison that excludes the chunk is enough to skip it.            *)
ShouldSkip(where, zones, k) ==
    \E p \in SimplePredicates(where) :
        /\ k \in DOMAIN zones[p.col]
        /\ CanSkipChunk(p.op, p.lit, zones[p.col][k])
=============================================================================
