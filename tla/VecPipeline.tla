----------------------------- MODULE VecPipeline -----------------------------
(***************************************************************************)
(* The streaming part of the vectorized executor:                          *)
(*                                                                         *)
(*     VecScan -> [VecFilter] -> [VecProject] -> [VecLimit] -> driver      *)
(*                                                                         *)
(* Execution is pull based and single threaded.  The driver loop in main   *)
(* asks the root for a chunk, the request travels down to the scan, and    *)
(* the chunk travels up.  Scan and project each own one buffer, refilled   *)
(* on every call; filter and limit own none and stamp or truncate the      *)
(* buffer of the node below in place, then pass the pointer on.  pc is the *)
(* node that acts next.                                                    *)
(*                                                                         *)
(* A row of a buffer is named by the table row it holds, so a selection    *)
(* vector is a set of rows; every operator visits it in ascending order.   *)
(***************************************************************************)
EXTENDS ZoneMap, FiniteSets

CONSTANTS
    MaxRows,    \* bound on the size of the tables considered
    BatchSize,  \* rows per DataChunk (1024 in the code)
    Wheres,     \* the WHERE clauses considered
    Limits,     \* the LIMITs considered, NoLimit for a query without one
    NoLimit,
    Projects,   \* subset of BOOLEAN: is there a project node?
    Failings    \* sets of rows on which the select list raises

ASSUME BoundAssumption == MaxRows \in Nat
ASSUME BatchAssumption == BatchSize \in Nat \ {0}
ASSUME WhereAssumption == Wheres \subseteq SUBSET SUBSET Pred
ASSUME LimitAssumption == NoLimit \notin Nat /\ Limits \subseteq Nat \cup {NoLimit}
ASSUME ProjectAssumption == Projects \subseteq BOOLEAN
ASSUME FailingAssumption == Failings \subseteq SUBSET Nat

VARIABLES
    \* the query, fixed by Init
    num_rows, table,    \* table[r][c] : the value of column c in row r
    zone_maps,          \* zone_maps[c][k] : zone of column c over chunk k
    where, project, limit, failing,
    \* the operators
    pc,
    row_cursor, skipped_chunks, current_chunk,   \* VecScanNode
    out_chunk,                                   \* VecProjectNode
    rows_emitted,                                \* VecLimitNode
    rows, row_count     \* driver: the rows appended so far, and how many

query    == <<num_rows, table, zone_maps, where, project, limit, failing>>
scan     == <<row_cursor, skipped_chunks>>
buffers  == <<current_chunk, out_chunk>>
answer   == <<rows, row_count>>
vars     == <<query, pc, scan, buffers, rows_emitted, answer>>

-----------------------------------------------------------------------------
Row        == 0 .. num_rows - 1
HasFilter  == where # {}        \* a filter node exists only for a WHERE
HasLimit   == limit # NoLimit
DataChunk  == [rows : SUBSET Nat, sel : SUBSET Nat, filter_applied : BOOLEAN]
EmptyChunk == [rows |-> {}, sel |-> {}, filter_applied |-> FALSE]

(* The rows of a buffer that count: those selected, once a filter has run. *)
LiveRows(chunk) == IF chunk.filter_applied THEN chunk.sel ELSE chunk.rows

(* The buffer handed to the nodes above the filter.                        *)
TopChunk == IF project THEN out_chunk ELSE current_chunk

Qualifying == {r \in Row : Holds(where, table[r])}

(* T holds the n smallest elements of S.                                   *)
IsFirst(T, S, n) ==
    /\ T \subseteq S
    /\ Cardinality(T) = n
    /\ \A x \in T, y \in S \ T : x < y

(* The chunk that starts at the cursor, if the cursor is at such a start.  *)
AtChunk(k) == k \in ChunkIds(num_rows) /\ row_cursor = k * ChunkSize

(* The zone maps exclude the chunk that starts at the cursor.              *)
CanPrune ==
    /\ HasFilter
    /\ row_cursor < num_rows
    /\ \E k \in 0 .. row_cursor : AtChunk(k) /\ ShouldSkip(where, zone_maps, k)

MinOf(a, b) == IF a <= b THEN a ELSE b

AfterProject == IF HasLimit THEN "limit" ELSE "deliver"
AfterFilter  == IF project THEN "project" ELSE AfterProject
AfterScan    == IF HasFilter THEN "filter" ELSE AfterFilter

-----------------------------------------------------------------------------
Init ==
    /\ num_rows \in 0 .. MaxRows
    /\ table \in [0 .. num_rows - 1 -> [Col -> Value]]
    /\ zone_maps \in [Col -> [ChunkIds(num_rows) -> Zone]]
    /\ \A c \in Col : \A k \in ChunkIds(num_rows) :
          IsZone(zone_maps[c][k], [r \in Row |-> table[r][c]], k, num_rows)
    /\ where \in Wheres
    /\ project \in Projects
    /\ limit \in Limits
    /\ failing \in Failings
    /\ pc = "pull"
    /\ row_cursor = 0 /\ skipped_chunks = 0
    /\ current_chunk = EmptyChunk /\ out_chunk = EmptyChunk
    /\ rows_emitted = 0
    /\ rows = {} /\ row_count = 0

-----------------------------------------------------------------------------
(* Wrong variant: the limit notices only once it has been exceeded.        *)
PullLate ==
    /\ pc = "pull"
    /\ pc' = IF HasLimit /\ rows_emitted > limit THEN "done" ELSE "scan"
    /\ UNCHANGED <<query, scan, buffers, rows_emitted, answer>>

(* The driver asks the root for a chunk.  A limit that is already met      *)
(* answers null without asking the node below.                             *)
Pull ==
    /\ pc = "pull"
    /\ pc' = IF HasLimit /\ rows_emitted >= limit THEN "done" ELSE "scan"
    /\ UNCHANGED <<query, scan, buffers, rows_emitted, answer>>

(* Wrong variant: a short last chunk advances the cursor by a full chunk.  *)
ScanSkipFull ==
    /\ pc = "scan"
    /\ CanPrune
    /\ row_cursor' = row_cursor + ChunkSize
    /\ skipped_chunks' = skipped_chunks + 1
    /\ UNCHANGED <<query, pc, buffers, rows_emitted, answer>>

(* Wrong variant: the loop turns without moving to the next chunk.         *)
ScanSkipStuck ==
    /\ pc = "scan"
    /\ CanPrune
    /\ UNCHANGED vars

(* VecScanNode::nextChunk, one turn of the pruning loop.                   *)
ScanSkip ==
    /\ pc = "scan"
    /\ CanPrune
    /\ row_cursor' = row_cursor + MinOf(ChunkSize, num_rows - row_cursor)
    /\ skipped_chunks' = skipped_chunks + 1
    /\ UNCHANGED <<query, pc, buffers, rows_emitted, answer>>

(* The table is exhausted: null travels up to the driver, which stops.     *)
ScanEnd ==
    /\ pc = "scan"
    /\ ~ CanPrune
    /\ row_cursor >= num_rows
    /\ pc' = "done"
    /\ UNCHANGED <<query, scan, buffers, rows_emitted, answer>>

(* One batch is decoded into the scan's buffer.  The selection and flag    *)
(* that a filter stamped on the previous batch are reset.                  *)
ScanBatch ==
    /\ pc = "scan"
    /\ ~ CanPrune
    /\ row_cursor < num_rows
    /\ LET count == MinOf(BatchSize, num_rows - row_cursor)
       IN  /\ row_cursor' = row_cursor + count
           /\ current_chunk' = [rows           |-> row_cursor .. row_cursor + count - 1,
                                sel            |-> {},
                                filter_applied |-> FALSE]
    /\ pc' = AfterScan
    /\ UNCHANGED <<query, skipped_chunks, out_chunk, rows_emitted, answer>>

(* VecFilterNode::nextChunk: the rows that pass are stamped on the chunk   *)
(* of the node below, looking only at those an earlier filter kept.        *)
FilterStamp ==
    /\ pc = "filter"
    /\ current_chunk' = [current_chunk EXCEPT
            !.sel = {r \in LiveRows(current_chunk) : Holds(where, table[r])},
            !.filter_applied = TRUE]
    /\ pc' = AfterFilter
    /\ UNCHANGED <<query, scan, out_chunk, rows_emitted, answer>>

(* VecProjectNode::nextChunk evaluates the select list on the live rows    *)
(* and gathers them in its own buffer, dense and with no filter pending.   *)
ProjectGather ==
    /\ pc = "project"
    /\ LiveRows(current_chunk) \cap failing = {}
    /\ out_chunk' = [rows           |-> LiveRows(current_chunk),
                     sel            |-> {},
                     filter_applied |-> FALSE]
    /\ pc' = AfterProject
    /\ UNCHANGED <<query, scan, current_chunk, rows_emitted, answer>>

(* Wrong variant: rows that the filter rejected are evaluated too.         *)
ProjectRaiseAll ==
    /\ pc = "project"
    /\ current_chunk.rows \cap failing # {}
    /\ pc' = "error"
    /\ UNCHANGED <<query, scan, buffers, rows_emitted, answer>>

(* The select list raises on one of them: the exception ends the query and *)
(* nothing is printed.                                                     *)
ProjectRaise ==
    /\ pc = "project"
    /\ LiveRows(current_chunk) \cap failing # {}
    /\ pc' = "error"
    /\ UNCHANGED <<query, scan, buffers, rows_emitted, answer>>

(* Wrong variant: a chunk that fits is not counted.                        *)
LimitPassUncounted ==
    /\ pc = "limit"
    /\ Cardinality(LiveRows(TopChunk)) <= limit - rows_emitted
    /\ pc' = "deliver"
    /\ UNCHANGED <<query, scan, buffers, rows_emitted, answer>>

(* VecLimitNode::nextChunk: the whole chunk still fits.                    *)
LimitPass ==
    /\ pc = "limit"
    /\ Cardinality(LiveRows(TopChunk)) <= limit - rows_emitted
    /\ rows_emitted' = rows_emitted + Cardinality(LiveRows(TopChunk))
    /\ pc' = "deliver"
    /\ UNCHANGED <<query, scan, buffers, answer>>

(* The limit's truncation of a chunk: the selection when a filter is       *)
(* pending (the columns keep their rows), the columns otherwise.           *)
Truncated(chunk, kept) ==
    IF chunk.filter_applied THEN [chunk EXCEPT !.sel = kept]
                            ELSE [chunk EXCEPT !.rows = kept]

(* The chunk exceeds what is left: keep its first rows, in place.          *)
LimitTruncate ==
    /\ pc = "limit"
    /\ Cardinality(LiveRows(TopChunk)) > limit - rows_emitted
    /\ \E kept \in SUBSET LiveRows(TopChunk) :
        /\ IsFirst(kept, LiveRows(TopChunk), limit - rows_emitted)
        /\ IF project
           THEN out_chunk' = Truncated(out_chunk, kept) /\ UNCHANGED current_chunk
           ELSE current_chunk' = Truncated(current_chunk, kept) /\ UNCHANGED out_chunk
    /\ rows_emitted' = limit
    /\ pc' = "deliver"
    /\ UNCHANGED <<query, scan, answer>>

(* Wrong variant: the driver ignores a pending selection.                  *)
DeliverUnselected ==
    /\ pc = "deliver"
    /\ rows' = rows \cup TopChunk.rows
    /\ row_count' = row_count + Cardinality(TopChunk.rows)
    /\ pc' = "pull"
    /\ UNCHANGED <<query, scan, buffers, rows_emitted>>

(* The driver appends every live row of the chunk to its result.           *)
Deliver ==
    /\ pc = "deliver"
    /\ rows' = rows \cup LiveRows(TopChunk)
    /\ row_count' = row_count + Cardinality(LiveRows(TopChunk))
    /\ pc' = "pull"
    /\ UNCHANGED <<query, scan, buffers, rows_emitted>>

(* The loop has ended: nothing moves any more.                             *)
Ended ==
    /\ pc \in {"done", "error"}
    /\ UNCHANGED vars

Next ==
    \/ Pull
    \/ ScanSkip \/ ScanEnd \/ ScanBatch
    \/ FilterStamp
    \/ ProjectGather \/ ProjectRaise
    \/ LimitPass \/ LimitTruncate
    \/ Deliver
    \/ Ended

(* One thread runs the loop and no step waits: it keeps going.             *)
Spec == Init /\ [][Next]_vars /\ WF_vars(Next)

-----------------------------------------------------------------------------
TypeOK ==
    /\ num_rows \in 0 .. MaxRows
    /\ table \in [Row -> [Col -> Value]]
    /\ zone_maps \in [Col -> [ChunkIds(num_rows) -> Zone]]
    /\ where \in Wheres /\ project \in Projects
    /\ limit \in Limits /\ failing \in Failings
    /\ pc \in {"pull", "scan", "filter", "project", "limit", "deliver", "done", "error"}
    /\ row_cursor \in 0 .. num_rows
    /\ skipped_chunks \in Nat
    /\ current_chunk \in DataChunk /\ out_chunk \in DataChunk
    /\ rows_emitted \in Nat
    /\ rows \subseteq Row
    /\ row_count \in Nat

(* When the loop ends, the driver holds exactly the rows the query asks    *)
(* for: every row that satisfies WHERE or, under a LIMIT smaller than      *)
(* their number, the first of them.  A pruned chunk that held a match, a   *)
(* selection left over from the previous batch, a truncation of the wrong  *)
(* half of a chunk and a batch boundary off by one would each break this.  *)
Complete ==
    pc = "done" =>
        IF HasLimit /\ limit < Cardinality(Qualifying)
        THEN IsFirst(rows, Qualifying, limit)
        ELSE rows = Qualifying

(* At any moment what has been delivered is a run of qualifying rows with  *)
(* no gap: no qualifying row is still to come before a delivered one, so a *)
(* limit that cuts the stream anywhere keeps the first rows.               *)
NoGap ==
    /\ rows \subseteq Qualifying
    /\ \A x \in rows, y \in Qualifying \ rows : x < y

(* No table row is appended to the result twice, although batches, pruned  *)
(* chunks and truncations meet at different boundaries; and the limit's    *)
(* counter agrees with what the driver received whenever it asks for more. *)
NoDuplicate ==
    /\ row_count = Cardinality(rows)
    /\ HasLimit /\ pc = "pull" => rows_emitted = row_count

(* A failing select list ends the query only if a row that satisfies WHERE *)
(* fails, and fails in a batch that is needed: the rows before that batch  *)
(* do not meet the limit.                                                  *)
ErrorBound ==
    pc = "error" =>
        /\ \E r \in current_chunk.rows : r \in Qualifying \cap failing
        /\ HasLimit =>
             Cardinality({q \in Qualifying : \A r \in current_chunk.rows : q < r}) < limit

(* Once the limit is met the scan is never asked again: truncating the     *)
(* scan's buffer in place relies on it.                                    *)
LimitStopsScan ==
    [][HasLimit /\ rows_emitted >= limit => UNCHANGED <<row_cursor, skipped_chunks>>]_vars

(* The pipeline is one way to produce the stream of rows that QueryStream  *)
(* promises.                                                               *)
Stream == INSTANCE QueryStream WITH
    qualifying <- Qualifying,
    result     <- rows,
    status     <- IF pc \in {"done", "error"} THEN pc ELSE "running"

Implements == Stream!Spec

(* The loop ends, however the chunks, batches and the limit fall: no       *)
(* pruned chunk or empty selection makes it turn without progress.         *)
Ends == Stream!Ends
=============================================================================
