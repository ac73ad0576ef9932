------------------------------- MODULE Volcano -------------------------------
(***************************************************************************)
(* The row-at-a-time engine below its blocking operators:                  *)
(*                                                                         *)
(*     SeqScan [-> HashJoin <- SeqScan] [-> Filter] -> Project [-> Limit]  *)
(*                                                                         *)
(* and the step of both planners that hands the loaded tables to the scans.*)
(* A table is loaded once, and a scan takes it out of the map; a self join *)
(* has two scans and one table.                                            *)
(*                                                                         *)
(* next returns a pointer to a row that the callee owns and overwrites on  *)
(* its next call: buffer[s] is the row scan s returned last.  The join     *)
(* keeps such a pointer for as long as it hands out the probe row's bucket.*)
(* Rows are named by their position; a row of the join is a pair [FROM     *)
(* row, JOIN row].                                                         *)
(***************************************************************************)
EXTENDS ZoneMap, Sequences, FiniteSets

CONSTANTS
    JoinCol,    \* the column of the ON clause, in both tables
    Text,       \* Text[k] is what Value::toString prints for k
    NoTable,    \* a query without JOIN; also: nothing in a buffer
    NoLimit,
    MaxFrom,    \* bounds on the sizes of the two tables
    MaxJoin,
    Wheres,     \* WHERE clauses, see PassesWhere
    Limits,
    Failings    \* sets of FROM rows on which the select list raises

ASSUME KeyAssumption == JoinCol \in Col /\ DOMAIN Text = Num
ASSUME NoneAssumption == NoLimit \notin Nat /\ NoTable \notin Int \cup {"t", "u"}
ASSUME LimitAssumption == Limits \subseteq Nat \cup {NoLimit}
ASSUME SizeAssumption == MaxFrom \in Nat /\ MaxJoin \in Nat
ASSUME WhereAssumption == \A w \in Wheres : \A clause \in w : IsFiniteSet(clause)

Table   == {"t", "u"}       \* the FROM table is t
Side    == {"from", "join"}

VARIABLES
    \* the query and its tables, fixed by Init
    data,           \* data[t][r][c]
    zone_maps,      \* of t
    engine,         \* "volcano" or "vectorized"
    storage,        \* "row" or "columnar"
    join_table, where, limit, failing,
    pc,
    \* the planner
    tables,         \* the map: per table, the rows that are in it
    kept,           \* the copy made for the JOIN scan of a self join
    scan_uses,      \* Lowering: scans of each table still to be built
    from_count, swapped,
    \* the operators
    scan_rows,      \* SeqScanNode: the rows it owns
    cursor, buffer,
    hash_table, has_probe_row, bucket_idx,      \* HashJoinNode
    row,            \* the row on its way up
    count,          \* LimitNode
    rows            \* the rows the driver has

query    == <<data, zone_maps, engine, storage, join_table, where, limit, failing>>
planner  == <<tables, kept, scan_uses, from_count, swapped>>
scans    == <<scan_rows, cursor, buffer>>
join     == <<hash_table, has_probe_row, bucket_idx>>
vars     == <<query, pc, planner, scans, join, row, count, rows>>

-----------------------------------------------------------------------------
HasJoin   == join_table # NoTable
SelfJoin  == join_table = "t"

(* The side that probes and the side that builds.                          *)
Probe == IF swapped THEN "join" ELSE "from"
Build == IF swapped THEN "from" ELSE "join"

(* Every bounded table; join keys are numbers.                             *)
TablesUpTo(n) ==
    UNION {[1 .. k -> {r \in [Col -> Value] : r[JoinCol] \in Num}] : k \in 0 .. n}

(* ZoneMap counts rows from 0, sequences from 1.                           *)
ColumnOf(table, c) == [r \in 0 .. Len(table) - 1 |-> table[r + 1][c]]

Init ==
    /\ data \in [{"t"} -> TablesUpTo(MaxFrom)] \cup
                {[n \in Table |-> IF n = "t" THEN x ELSE y] :
                    x \in TablesUpTo(MaxFrom), y \in TablesUpTo(MaxJoin)}
    /\ zone_maps \in [Col -> [ChunkIds(Len(data["t"])) -> Zone]]
    /\ \A c \in Col : \A k \in ChunkIds(Len(data["t"])) :
          IsZone(zone_maps[c][k], ColumnOf(data["t"], c), k, Len(data["t"]))
    /\ engine \in {"volcano", "vectorized"}
    /\ storage \in {"row", "columnar"}
    /\ engine = "vectorized" => storage = "columnar"
    /\ join_table \in (IF "u" \in DOMAIN data THEN {"u"} ELSE {"t", NoTable})
    /\ where \in Wheres
    /\ ~ HasJoin => \A clause \in where : \A p \in clause : p.slot = 0
    /\ limit \in Limits
    /\ failing \in Failings
    /\ pc = IF engine = "volcano" THEN "plan_from" ELSE "lower_from"
    /\ tables = data /\ kept = << >>
    /\ scan_uses = [n \in DOMAIN data |-> (IF n = "t" THEN 1 ELSE 0) + (IF n = join_table THEN 1 ELSE 0)]
    /\ from_count = 0 /\ swapped = FALSE
    /\ scan_rows = [s \in Side |-> << >>]
    /\ cursor = [s \in Side |-> 0] /\ buffer = [s \in Side |-> NoTable]
    /\ hash_table = [x \in {Text[k] : k \in Num} |-> << >>]
    /\ has_probe_row = FALSE /\ bucket_idx = 0
    /\ row = << >> /\ count = 0 /\ rows = << >>

-----------------------------------------------------------------------------
(* Planner::plan.                                                          *)

(* Wrong variant: no copy is made for the second scan of a self join.      *)
PlanFromBare ==
    /\ pc = "plan_from"
    /\ from_count' = Len(tables["t"])
    /\ scan_rows' = [scan_rows EXCEPT !["from"] = tables["t"]]
    /\ tables' = [tables EXCEPT !["t"] = << >>]
    /\ pc' = IF HasJoin THEN "plan_join" ELSE "next"
    /\ UNCHANGED <<query, kept, scan_uses, swapped, cursor, buffer, join, row, count, rows>>

(* Counts the rows, keeps a copy when they are wanted twice, and moves the *)
(* table into the FROM scan.                                               *)
PlanFrom ==
    /\ pc = "plan_from"
    /\ from_count' = Len(tables["t"])
    /\ kept' = IF SelfJoin THEN tables["t"] ELSE << >>
    /\ scan_rows' = [scan_rows EXCEPT !["from"] = tables["t"]]
    /\ tables' = [tables EXCEPT !["t"] = << >>]
    /\ pc' = IF HasJoin THEN "plan_join" ELSE "next"
    /\ UNCHANGED <<query, scan_uses, swapped, cursor, buffer, join, row, count, rows>>

(* Moves the copy or the other table into the JOIN scan and lets the       *)
(* smaller table build.                                                    *)
PlanJoin ==
    /\ pc = "plan_join"
    /\ swapped' = (from_count < (IF SelfJoin THEN from_count ELSE Len(tables[join_table])))
    /\ scan_rows' = [scan_rows EXCEPT !["join"] = IF SelfJoin THEN kept ELSE tables[join_table]]
    /\ tables' = [tables EXCEPT ![join_table] = << >>] /\ kept' = << >>
    /\ pc' = "build"
    /\ UNCHANGED <<query, scan_uses, from_count, cursor, buffer, join, row, count, rows>>

(* Lowering::lowerNode, one scan: the last one to read a table moves it,   *)
(* an earlier one copies it.                                               *)
LowerScan(side, name, after) ==
    /\ scan_uses' = [scan_uses EXCEPT ![name] = @ - 1]
    /\ scan_rows' = [scan_rows EXCEPT ![side] = tables[name]]
    /\ tables' = IF scan_uses'[name] > 0 THEN tables ELSE [tables EXCEPT ![name] = << >>]
    /\ pc' = after
    /\ UNCHANGED <<query, kept, from_count, swapped, cursor, buffer, join, row, count, rows>>

LowerFrom == pc = "lower_from" /\ LowerScan("from", "t", IF HasJoin THEN "lower_join" ELSE "lowered")
LowerJoin == pc = "lower_join" /\ LowerScan("join", join_table, "lowered")

-----------------------------------------------------------------------------
(* SeqScanNode::next.                                                      *)

(* A comparison of a WHERE clause: [slot, col, op, lit]; slot 1 is the     *)
(* JOIN table.                                                             *)
Plain(p) == [col |-> p.col, op |-> p.op, lit |-> p.lit]

(* What the pruner may use for the FROM scan; the JOIN scan gets no hint.  *)
PruningHint == {{Plain(p)} : p \in {q \in UNION {c \in where : Cardinality(c) = 1} : q.slot = 0}}

(* The zone maps exclude the chunk that starts at the cursor of scan s.    *)
CanPrune(s) ==
    /\ s = "from" /\ storage = "columnar"
    /\ cursor[s] < Len(scan_rows[s])
    /\ \E k \in ChunkIds(Len(scan_rows[s])) :
        cursor[s] = k * ChunkSize /\ ShouldSkip(PruningHint, zone_maps, k)

HasNext(s) == ~ CanPrune(s) /\ cursor[s] < Len(scan_rows[s])
AtEnd(s)   == cursor[s] >= Len(scan_rows[s])

(* The scan that is asked: the build side while the join opens, then the   *)
(* probe side, or the only one.                                            *)
Asked(s) ==
    \/ pc = "build" /\ s = Build
    \/ pc = "pull" /\ HasJoin /\ ~ has_probe_row /\ s = Probe
    \/ pc = "pull" /\ ~ HasJoin /\ s = "from"

Smaller(a, b) == IF a <= b THEN a ELSE b

(* One turn of the pruning loop.                                           *)
SkipChunk ==
    \E s \in Side :
        /\ Asked(s) /\ CanPrune(s)
        /\ cursor' = [cursor EXCEPT ![s] = @ + Smaller(ChunkSize, Len(scan_rows[s]) - @)]
        /\ UNCHANGED <<query, pc, planner, scan_rows, buffer, join, row, count, rows>>

(* Scan s returns its next row.                                            *)
ScanNext(s) ==
    /\ Asked(s) /\ HasNext(s)
    /\ buffer' = [buffer EXCEPT ![s] = cursor[s] + 1]
    /\ cursor' = [cursor EXCEPT ![s] = @ + 1]
    /\ UNCHANGED scan_rows

ScanRow ==
    /\ ~ HasJoin
    /\ ScanNext("from")
    /\ row' = <<buffer'["from"], NoTable>>
    /\ pc' = "filter"
    /\ UNCHANGED <<query, planner, join, count, rows>>

(* No row is left: null travels up to the driver.                          *)
ScanEnd ==
    /\ pc = "pull" /\ AtEnd(IF HasJoin THEN Probe ELSE "from")
    /\ HasJoin => ~ has_probe_row
    /\ pc' = "done"
    /\ UNCHANGED <<query, planner, scans, join, row, count, rows>>

-----------------------------------------------------------------------------
(* HashJoinNode.                                                           *)

KeyText(s, r) == Text[scan_rows[s][r][JoinCol]]

(* open: the row is copied into the bucket of its key's text.              *)
BuildRow ==
    /\ pc = "build"
    /\ ScanNext(Build)
    /\ hash_table' = [hash_table EXCEPT ![KeyText(Build, buffer'[Build])] = Append(@, buffer'[Build])]
    /\ UNCHANGED <<query, pc, planner, has_probe_row, bucket_idx, row, count, rows>>

BuildDone ==
    /\ pc = "build" /\ AtEnd(Build)
    /\ has_probe_row' = FALSE /\ bucket_idx' = 0
    /\ pc' = "next"
    /\ UNCHANGED <<query, planner, scans, hash_table, row, count, rows>>

(* Wrong variant: the place in the bucket survives the probe row.          *)
FetchProbeStale ==
    /\ pc = "pull" /\ HasJoin
    /\ ScanNext(Probe)
    /\ has_probe_row' = TRUE
    /\ UNCHANGED <<query, pc, planner, hash_table, bucket_idx, row, count, rows>>

(* The next probe row; the join keeps the pointer.                         *)
FetchProbe ==
    /\ pc = "pull" /\ HasJoin
    /\ ScanNext(Probe)
    /\ has_probe_row' = TRUE /\ bucket_idx' = 0
    /\ UNCHANGED <<query, pc, planner, hash_table, row, count, rows>>

(* The bucket of the row behind the pointer.                               *)
Bucket == hash_table[KeyText(Probe, buffer[Probe])]

(* Columns of the FROM side first, whichever side builds.                  *)
Emit ==
    /\ pc = "pull" /\ HasJoin /\ has_probe_row
    /\ bucket_idx < Len(Bucket)
    /\ LET built == Bucket[bucket_idx + 1]
       IN  row' = IF swapped THEN <<built, buffer[Probe]>> ELSE <<buffer[Probe], built>>
    /\ bucket_idx' = bucket_idx + 1
    /\ pc' = "filter"
    /\ UNCHANGED <<query, planner, scans, hash_table, has_probe_row, count, rows>>

(* Wrong variant: an exhausted bucket is asked again and again.            *)
BucketDoneStuck ==
    /\ pc = "pull" /\ HasJoin /\ has_probe_row
    /\ bucket_idx >= Len(Bucket)
    /\ UNCHANGED vars

BucketDone ==
    /\ pc = "pull" /\ HasJoin /\ has_probe_row
    /\ bucket_idx >= Len(Bucket)
    /\ has_probe_row' = FALSE
    /\ UNCHANGED <<query, pc, planner, scans, hash_table, bucket_idx, row, count, rows>>

-----------------------------------------------------------------------------
(* FilterNode, ProjectNode, LimitNode and the driver.                      *)

(* WHERE on a row of the plan: a set of clauses joined by AND, each a set  *)
(* of comparisons joined by OR.                                            *)
PassesWhere(r) ==
    \A clause \in where : \E p \in clause :
        LET cell == IF p.slot = 0 THEN scan_rows["from"][r[1]][p.col] ELSE scan_rows["join"][r[2]][p.col]
        IN  Compare(p.op, cell, p.lit)

Filter ==
    /\ pc = "filter"
    /\ pc' = IF PassesWhere(row) THEN "project" ELSE "pull"
    /\ UNCHANGED <<query, planner, scans, join, row, count, rows>>

Project ==
    /\ pc = "project"
    /\ pc' = IF row[1] \in failing THEN "error" ELSE "return"
    /\ UNCHANGED <<query, planner, scans, join, row, count, rows>>

(* The limit counts the row and the driver copies it.                      *)
Return ==
    /\ pc = "return"
    /\ count' = count + 1
    /\ rows' = Append(rows, row)
    /\ pc' = "next"
    /\ UNCHANGED <<query, planner, scans, join, row>>

(* Wrong variant: the limit is looked at after the child has been asked.   *)
AskLate ==
    /\ pc = "next"
    /\ pc' = IF limit # NoLimit /\ count > limit THEN "done" ELSE "pull"
    /\ UNCHANGED <<query, planner, scans, join, row, count, rows>>

(* The driver asks the root; a limit that is met answers null by itself.   *)
Ask ==
    /\ pc = "next"
    /\ pc' = IF limit # NoLimit /\ count >= limit THEN "done" ELSE "pull"
    /\ UNCHANGED <<query, planner, scans, join, row, count, rows>>

Over == pc \in {"done", "error", "lowered"}

Ended == Over /\ UNCHANGED vars

Next ==
    \/ PlanFrom \/ PlanJoin \/ LowerFrom \/ LowerJoin
    \/ SkipChunk \/ ScanRow \/ ScanEnd
    \/ BuildRow \/ BuildDone \/ FetchProbe \/ Emit \/ BucketDone
    \/ Filter \/ Project \/ Return \/ Ask
    \/ Ended

Spec == Init /\ [][Next]_vars /\ WF_vars(Next)

-----------------------------------------------------------------------------
(* Properties.                                                             *)

(* Every scan owns all the rows of the table it reads, the two scans of a  *)
(* self join included, in both engines: nobody reads a table that another  *)
(* scan has already moved away.                                            *)
ScansWhole ==
    pc \notin {"plan_from", "plan_join", "lower_from", "lower_join"} =>
        /\ scan_rows["from"] = data["t"]
        /\ HasJoin => scan_rows["join"] = data[join_table]

(* The rows of the answer before LIMIT, as SQL has them.                   *)
Passes(f, j) ==
    \A clause \in where : \E p \in clause :
        Compare(p.op, IF p.slot = 0 THEN data["t"][f][p.col] ELSE data[join_table][j][p.col], p.lit)

Qualifying ==
    IF HasJoin
    THEN {q \in (DOMAIN data["t"]) \X (DOMAIN data[join_table]) :
            /\ Same(data["t"][q[1]][JoinCol], data[join_table][q[2]][JoinCol])
            /\ Passes(q[1], q[2])}
    ELSE {<<f, NoTable>> : f \in {g \in DOMAIN data["t"] : Passes(g, NoTable)}}

(* Their place in the order of probe rows, then build rows; the larger     *)
(* table probes, FROM when they are equal.                                 *)
Rank(q) ==
    IF ~ HasJoin THEN q[1]
    ELSE IF Len(data["t"]) < Len(data[join_table]) THEN q[2] * (MaxFrom + 1) + q[1]
    ELSE q[1] * (MaxFrom + MaxJoin + 1) + q[2]

Ranks(S) == {Rank(q) : q \in S}
Delivered == {rows[i] : i \in 1 .. Len(rows)}

(* Unlike the vectorized engine, this one evaluates the select list on no  *)
(* row beyond the LIMIT: the query fails just when a row of its answer     *)
(* fails, and then after exactly the rows before it.                       *)
ErrorExact ==
    LET fails == {q \in Qualifying : q[1] \in failing}
    IN  /\ pc = "error" =>
            /\ limit # NoLimit => Len(rows) < limit
            /\ \E f \in fails :
                Delivered = {q \in Qualifying : Rank(q) < Rank(f)}
        /\ pc = "done" => \A f \in fails : \/ limit = 0
                                          \/ /\ Len(rows) = limit
                                             /\ \A q \in Delivered : Rank(q) < Rank(f)

(* The engine is a query stream: its rows are those of WHERE and ON, one   *)
(* at a time, in probe order, never more than LIMIT; a zone map skips no   *)
(* row that the query wants.                                               *)
Stream == INSTANCE QueryStream WITH
    qualifying <- Ranks(Qualifying),
    failing    <- {Rank(q) : q \in {p \in Qualifying : p[1] \in failing}},
    result     <- Ranks(Delivered),
    status     <- IF pc \in {"done", "error"} THEN pc ELSE "running"

Implements == Stream!Spec

(* Every query ends.                                                       *)
Ends == <>Over
=============================================================================
