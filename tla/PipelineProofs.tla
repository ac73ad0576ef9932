--------------------------- MODULE PipelineProofs ---------------------------
(***************************************************************************)
(* Proofs about the streaming pipeline, VecPipeline, and about the filter  *)
(* in it, VecFilter.                                                       *)
(*                                                                         *)
(* VecPipeline, for every table, WHERE clause, limit, chunk size and batch *)
(* size: the types, the soundness of zone-map pruning, that the driver     *)
(* ends with exactly the rows asked for, that what it holds is at any      *)
(* moment a gap-free, duplicate-free run of qualifying rows, that the scan *)
(* is left alone once the limit is met, that only a needed batch can fail  *)
(* the query, and that the pipeline implements QueryStream.                *)
(*                                                                         *)
(* VecFilter, for predicates, chunks and selections of any size: the rows  *)
(* it keeps are those on which the scalar evaluator finds the predicate    *)
(* true, and it raises exactly where no AND protects a row.  The value of  *)
(* a predicate, the extent of its nodes and the merge of two selections    *)
(* are recursive functions: that such functions exist is shown by          *)
(* induction written as the choice of a least counterexample.              *)
(***************************************************************************)
EXTENDS VecPipeline, VecFilter, FiniteSetTheorems, SequenceTheorems, WellFoundedInduction, TLAPS

-----------------------------------------------------------------------------
(* What the scan relies on when it skips a chunk.                          *)

(* A comparison that excludes a zone is false on every row of its chunk,   *)
(* NaN rows included.                                                      *)
THEOREM SkipSound ==
    ASSUME NEW n \in Nat, NEW k \in Nat, NEW val, NEW z \in Zone,
           NEW op \in Op, NEW lit \in Value,
           \A r \in 0 .. n - 1 : val[r] \in Value,
           k * ChunkSize \in 0 .. n - 1,
           IsZone(z, val, k, n),
           CanSkipChunk(op, lit, z),
           NEW r \in ChunkRows(k, n)
    PROVE  ~ Compare(op, val[r], lit)
<1> DEFINE Seen == {val[i] : i \in ChunkRows(k, n)} \ {NaN}
<1>1. r \in 0 .. n - 1 /\ val[r] \in Value
  BY DEF ChunkRows
<1>2. Seen \subseteq Int
  BY NumAssumption DEF Value, ChunkRows
<1>3. lit = NaN \/ lit \in Int
  BY NumAssumption DEF Value
<1>4. CASE val[r] = NaN
  <2>1. op # "!="
    BY DEF CanSkipChunk, Op
  <2> QED
    BY <1>4, <2>1 DEF Compare, Less, Same, Op
<1>5. CASE val[r] # NaN /\ val[k * ChunkSize] = NaN
  <2>1. z.min_val = NaN /\ z.max_val = NaN
    BY <1>5 DEF IsZone
  <2> QED
    BY <2>1 DEF CanSkipChunk, Less, Same
<1>6. CASE val[r] # NaN /\ val[k * ChunkSize] # NaN
  <2>1. /\ z.min_val \in Seen /\ \A v \in Seen : z.min_val <= v
        /\ z.max_val \in Seen /\ \A v \in Seen : v <= z.max_val
    BY <1>6 DEF IsZone
  <2>2. val[r] \in Seen
    BY <1>6
  <2>3. /\ z.min_val \in Int /\ z.max_val \in Int /\ val[r] \in Int
        /\ z.min_val <= val[r] /\ val[r] <= z.max_val
    BY <1>2, <2>1, <2>2
  <2> QED
    BY <1>3, <2>3, NaNAssumption DEF CanSkipChunk, Compare, Less, Same, Op
<1> QED
  BY <1>4, <1>5, <1>6

-----------------------------------------------------------------------------
(* The inductive invariant.                                                *)

(* The qualifying rows that are inside the operators.                      *)
Pending ==
    IF pc = "filter" THEN {r \in current_chunk.rows : Holds(where, table[r])}
    ELSE IF pc \in {"project", "error"} THEN LiveRows(current_chunk)
    ELSE IF pc \in {"limit", "deliver"} THEN LiveRows(TopChunk)
    ELSE {}

Taken == rows \cup Pending

(* The qualifying rows the scan has gone past.                             *)
Passed == {r \in Qualifying : r < row_cursor}

(* The limit has cut the stream.                                           *)
Cut == HasLimit /\ IsFirst(Taken, Qualifying, limit)

ZonesExact ==
    \A c \in Col : \A k \in ChunkIds(num_rows) :
        IsZone(zone_maps[c][k], [r \in Row |-> table[r][c]], k, num_rows)

(* Every qualifying row the scan has gone past is delivered or inside the  *)
(* operators, and no other; once the limit has cut, exactly the first rows *)
(* are.                                                                    *)
Covered ==
    /\ pc \in {"scan", "filter", "project", "limit", "error"} => Taken = Passed
    /\ pc \in {"pull", "deliver"} => Taken = Passed \/ Cut
    /\ pc = "done" => (Taken = Passed /\ row_cursor >= num_rows) \/ Cut

(* What is inside the operators comes after what was delivered.            *)
Apart == \A x \in rows, y \in Pending : x < y

(* A chunk enters the filter fresh, and a node acts only if it exists.     *)
Fresh ==
    /\ pc = "filter" => HasFilter /\ ~ current_chunk.filter_applied
    /\ pc = "limit" => HasLimit
    /\ pc \in {"project", "error"} =>
          project /\ LiveRows(current_chunk) \subseteq current_chunk.rows
    /\ pc = "error" => LiveRows(current_chunk) \cap failing # {}

(* The limit's counter, the driver's count and what is still on its way.   *)
Counts ==
    /\ row_count = Cardinality(rows)
    /\ HasLimit =>
        /\ rows_emitted = row_count + (IF pc = "deliver" THEN Cardinality(Pending) ELSE 0)
        /\ rows_emitted <= limit
        /\ pc \in {"scan", "filter", "project", "limit", "error"} => rows_emitted < limit

IInv == TypeOK /\ ZonesExact /\ Covered /\ Apart /\ Fresh /\ Counts

-----------------------------------------------------------------------------
(* Types.                                                                  *)

USE DEF Row, query, scan, buffers, answer

LEMMA MinType ==
    ASSUME NEW x \in Nat, NEW y \in Nat
    PROVE  MinOf(x, y) \in Nat /\ MinOf(x, y) <= x /\ MinOf(x, y) <= y
BY DEF MinOf

LEMMA LiveSubset ==
    ASSUME NEW chunk \in DataChunk
    PROVE  LiveRows(chunk) \subseteq Nat
BY DEF LiveRows, DataChunk

(* Rows that are live in a chunk on its way up belong to the table.        *)
LEMMA PendingInTable ==
    ASSUME IInv
    PROVE  Pending \subseteq Qualifying /\ rows \subseteq Qualifying
BY DEF IInv, Covered, Taken, Passed, Cut, IsFirst, TypeOK, Pending

LEMMA Finite ==
    ASSUME IInv
    PROVE  IsFiniteSet(Qualifying) /\ IsFiniteSet(Pending) /\ IsFiniteSet(rows)
<1>1. IsFiniteSet(0 .. num_rows - 1)
  BY FS_Interval, BoundAssumption DEF IInv, TypeOK
<1>2. Qualifying \subseteq 0 .. num_rows - 1
  BY DEF Qualifying
<1> QED
  BY <1>1, <1>2, PendingInTable, FS_Subset

(* The bounds hold and every variable keeps its type initially.            *)
LEMMA InitType == Init => TypeOK
BY DEF Init, TypeOK, DataChunk, EmptyChunk

(* Every action keeps the types.                                           *)
LEMMA StepType == IInv /\ [Next]_vars => TypeOK'
<1> SUFFICES ASSUME IInv, [Next]_vars
             PROVE  TypeOK'
  OBVIOUS
<1> USE BoundAssumption, BatchAssumption, ChunkAssumption
<1>0. TypeOK
  BY DEF IInv
<1>1. CASE Pull
  BY <1>0, <1>1 DEF Pull, TypeOK
<1>2. CASE ScanSkip
  <2>1. MinOf(ChunkSize, num_rows - row_cursor) \in 0 .. num_rows - row_cursor
    BY <1>0, MinType DEF TypeOK
  <2> QED
    BY <1>0, <1>2, <2>1 DEF ScanSkip, TypeOK
<1>3. CASE ScanEnd
  BY <1>0, <1>3 DEF ScanEnd, TypeOK
<1>4. CASE ScanBatch
  <2> DEFINE count == MinOf(BatchSize, num_rows - row_cursor)
  <2>1. count \in 0 .. num_rows - row_cursor
    BY <1>0, <1>4, MinType DEF TypeOK, ScanBatch
  <2>2. current_chunk' \in DataChunk /\ row_cursor' = row_cursor + count
    BY <1>0, <1>4, <2>1 DEF ScanBatch, TypeOK, DataChunk
  <2> QED
    BY <1>0, <1>4, <2>1, <2>2
    DEF ScanBatch, TypeOK, AfterScan, AfterFilter, AfterProject
<1>5. CASE FilterStamp
  <2>1. current_chunk' \in DataChunk
    BY <1>0, <1>5, LiveSubset DEF FilterStamp, TypeOK, DataChunk, LiveRows
  <2> QED
    BY <1>0, <1>5, <2>1 DEF FilterStamp, TypeOK, AfterFilter, AfterProject
<1>6. CASE ProjectGather
  <2>1. out_chunk' \in DataChunk
    BY <1>0, <1>6, LiveSubset DEF ProjectGather, TypeOK, DataChunk
  <2> QED
    BY <1>0, <1>6, <2>1 DEF ProjectGather, TypeOK, AfterProject
<1>7. CASE ProjectRaise
  BY <1>0, <1>7 DEF ProjectRaise, TypeOK
<1>8. CASE LimitPass
  <2>1. /\ Pending = LiveRows(TopChunk)
        /\ IsFiniteSet(Pending)
    BY <1>8, Finite DEF LimitPass, Pending
  <2>2. Cardinality(LiveRows(TopChunk)) \in Nat
    BY <2>1, FS_CardinalityType
  <2> QED
    BY <1>0, <1>8, <2>2 DEF LimitPass, TypeOK
<1>9. CASE LimitTruncate
  <2>1. limit \in Nat
    BY <1>0, <1>9, LimitAssumption DEF LimitTruncate, TypeOK, IInv, Fresh, HasLimit
  <2>2. PICK kept \in SUBSET LiveRows(TopChunk) :
          IF project
          THEN out_chunk' = Truncated(out_chunk, kept) /\ UNCHANGED current_chunk
          ELSE current_chunk' = Truncated(current_chunk, kept) /\ UNCHANGED out_chunk
    BY <1>9 DEF LimitTruncate
  <2>3. kept \subseteq Nat
    BY <1>0, LiveSubset DEF TypeOK, TopChunk
  <2>4. current_chunk' \in DataChunk /\ out_chunk' \in DataChunk
    BY <1>0, <2>2, <2>3 DEF TypeOK, DataChunk, Truncated
  <2> QED
    BY <1>0, <1>9, <2>1, <2>4 DEF LimitTruncate, TypeOK
<1>10. CASE Deliver
  <2>1. /\ Pending = LiveRows(TopChunk)
        /\ IsFiniteSet(Pending)
    BY <1>10, Finite DEF Deliver, Pending
  <2>2. Cardinality(LiveRows(TopChunk)) \in Nat
    BY <2>1, FS_CardinalityType
  <2>3. rows' \subseteq Row
    BY <1>0, <1>10, <2>1, PendingInTable DEF Deliver, TypeOK, Qualifying
  <2> QED
    BY <1>0, <1>10, <2>2, <2>3 DEF Deliver, TypeOK
<1>11. CASE UNCHANGED vars
  BY <1>0, <1>11 DEF vars, TypeOK
<1> QED
  BY <1>1, <1>2, <1>3, <1>4, <1>5, <1>6, <1>7, <1>8, <1>9, <1>10, <1>11 DEF Next, Ended

-----------------------------------------------------------------------------
(* The steps of the invariant.                                             *)

(* No action changes the query.                                            *)
LEMMA QueryFixed ==
    ASSUME [Next]_vars
    PROVE  UNCHANGED query /\ Qualifying' = Qualifying
<1>1. UNCHANGED query
  BY DEF Next, vars, Pull, ScanSkip, ScanEnd, ScanBatch, FilterStamp, ProjectGather,
         ProjectRaise, LimitPass, LimitTruncate, Deliver, Ended
<1> QED
  BY <1>1 DEF Qualifying

(* A chunk that is skipped holds no qualifying row.                        *)
LEMMA SkipsNothing ==
    ASSUME IInv, ScanSkip
    PROVE  Passed' = Passed
<1> USE ChunkAssumption, BoundAssumption
<1>0. TypeOK /\ ZonesExact
  BY DEF IInv
<1>1. PICK k \in 0 .. row_cursor : AtChunk(k) /\ ShouldSkip(where, zone_maps, k)
  BY DEF ScanSkip, CanPrune
<1>2. PICK p \in SimplePredicates(where) :
        k \in DOMAIN zone_maps[p.col] /\ CanSkipChunk(p.op, p.lit, zone_maps[p.col][k])
  BY <1>1 DEF ShouldSkip
<1>3. /\ p.col \in Col /\ p.op \in Op /\ p.lit \in Value
      /\ {p} \in where
  BY <1>2 DEF SimplePredicates, Pred
<1>4. /\ k \in ChunkIds(num_rows) /\ row_cursor = k * ChunkSize
      /\ row_cursor \in 0 .. num_rows - 1 /\ num_rows \in Nat /\ k \in Nat
  <2>1. row_cursor < num_rows
    BY DEF ScanSkip, CanPrune
  <2>2. num_rows \in Nat /\ row_cursor \in Nat
    BY <1>0 DEF TypeOK
  <2> QED
    BY <1>1, <2>1, <2>2 DEF AtChunk
<1> DEFINE val == [i \in 0 .. num_rows - 1 |-> table[i][p.col]]
<1>5. /\ zone_maps[p.col][k] \in Zone
      /\ IsZone(zone_maps[p.col][k], val, k, num_rows)
      /\ \A i \in 0 .. num_rows - 1 : val[i] \in Value
  BY <1>0, <1>3, <1>4 DEF TypeOK, ZonesExact
<1>6. ASSUME NEW r \in ChunkRows(k, num_rows)
      PROVE  r \notin Qualifying
  <2>1. ~ Compare(p.op, val[r], p.lit)
    <3> HIDE DEF val
    <3> QED
      BY <1>2, <1>3, <1>4, <1>5, SkipSound
  <2>2. val[r] = table[r][p.col]
    BY DEF ChunkRows
  <2> QED
    BY <1>3, <2>1, <2>2 DEF Qualifying, Holds
<1>7. /\ row_cursor <= row_cursor' /\ row_cursor' <= row_cursor + ChunkSize
      /\ row_cursor' \in Nat
  <2>1. row_cursor' = row_cursor + MinOf(ChunkSize, num_rows - row_cursor)
    BY DEF ScanSkip
  <2>2. num_rows - row_cursor \in Nat
    BY <1>4
  <2>3. /\ MinOf(ChunkSize, num_rows - row_cursor) \in Nat
        /\ MinOf(ChunkSize, num_rows - row_cursor) <= ChunkSize
    BY <2>2, MinType
  <2> QED
    BY <1>4, <2>1, <2>3
<1>8. ASSUME NEW r \in Qualifying, r < row_cursor'
      PROVE  r < row_cursor
  <2>1. r \in 0 .. num_rows - 1 /\ row_cursor' \in Nat
    BY <1>7 DEF Qualifying
  <2>2. (k + 1) * ChunkSize = k * ChunkSize + ChunkSize
    BY <1>4
  <2>3. r >= row_cursor => r \in ChunkRows(k, num_rows)
    BY <1>4, <1>7, <1>8, <2>1, <2>2 DEF ChunkRows
  <2> QED
    BY <1>4, <1>6, <2>1, <2>3
<1>9. Qualifying' = Qualifying
  BY DEF ScanSkip, Qualifying
<1>10. Qualifying \subseteq Nat /\ row_cursor \in Nat /\ row_cursor' \in Nat
  BY <1>4, <1>7 DEF Qualifying
<1>11. \A r \in Qualifying : r < row_cursor' <=> r < row_cursor
  BY <1>7, <1>8, <1>10
<1>12. Passed' = {r \in Qualifying : r < row_cursor'}
  BY <1>9 DEF Passed
<1> QED
  BY <1>11, <1>12 DEF Passed

(* The zones stay exact, because neither they nor the table change.        *)
LEMMA StepZones == IInv /\ [Next]_vars => ZonesExact'
<1> SUFFICES ASSUME IInv, [Next]_vars
             PROVE  ZonesExact'
  OBVIOUS
<1>1. UNCHANGED <<num_rows, table, zone_maps>>
  BY QueryFixed
<1> QED
  BY <1>1 DEF IInv, ZonesExact

(* A complete reading of everything below the cursor, whose size is the    *)
(* limit, is a cut.                                                        *)
LEMMA FullIsCut ==
    ASSUME IInv, HasLimit, Taken = Passed, Cardinality(Taken) = limit
    PROVE  Cut
<1>1. row_cursor \in Nat /\ Qualifying \subseteq Nat
  BY BoundAssumption DEF IInv, TypeOK, Qualifying
<1> QED
  BY <1>1 DEF Cut, IsFirst, Passed

(* The flow through the operators: nothing qualifying is lost, delivered   *)
(* out of order or counted wrongly.                                        *)
Flow == Covered /\ Apart /\ Fresh /\ Counts

LEMMA PullFlow ==
    ASSUME IInv, Pull
    PROVE  Flow'
<1>1. pc = "pull" /\ UNCHANGED <<query, scan, buffers, rows_emitted, answer>>
  BY DEF Pull
<1>2. Pending = {} /\ Pending' = {} /\ Taken = rows /\ Taken' = rows
  BY <1>1 DEF Pull, Pending, Taken
<1>3. Qualifying' = Qualifying /\ Passed' = Passed /\ HasLimit' = HasLimit
  BY <1>1 DEF Qualifying, Passed, HasLimit
<1>4. /\ row_count = Cardinality(rows)
      /\ HasLimit => rows_emitted = row_count /\ rows_emitted <= limit
      /\ rows_emitted \in Nat /\ row_count \in Nat
  BY <1>1 DEF IInv, Counts, TypeOK
<1>5. HasLimit => limit \in Nat
  BY LimitAssumption DEF HasLimit, IInv, TypeOK
<1>6. Taken = Passed \/ Cut
  BY <1>1 DEF IInv, Covered
<1>7. Cut' <=> Cut
  BY <1>1, <1>2, <1>3 DEF Cut, IsFirst
<1>8. CASE HasLimit /\ rows_emitted >= limit
  <2>1. Cut
    BY <1>2, <1>4, <1>5, <1>6, <1>8, FullIsCut
  <2>2. pc' = "done"
    BY <1>8 DEF Pull
  <2> QED
    BY <1>1, <1>2, <1>3, <1>4, <1>7, <2>1, <2>2 DEF Flow, Covered, Apart, Fresh, Counts
<1>9. CASE ~ (HasLimit /\ rows_emitted >= limit)
  <2>1. Taken = Passed
    BY <1>2, <1>4, <1>5, <1>6, <1>9 DEF Cut, IsFirst
  <2>2. pc' = "scan"
    BY <1>9 DEF Pull
  <2>3. HasLimit => rows_emitted < limit
    BY <1>4, <1>5, <1>9
  <2> QED
    BY <1>1, <1>2, <1>3, <1>4, <2>1, <2>2, <2>3 DEF Flow, Covered, Apart, Fresh, Counts
<1> QED
  BY <1>8, <1>9

LEMMA ScanSkipFlow ==
    ASSUME IInv, ScanSkip
    PROVE  Flow'
<1>1. /\ pc = "scan" /\ pc' = "scan"
      /\ UNCHANGED <<query, buffers, rows_emitted, answer>>
  BY DEF ScanSkip
<1>2. Pending = {} /\ Pending' = {} /\ Taken' = Taken
  BY <1>1 DEF Pending, Taken
<1>3. Passed' = Passed
  BY SkipsNothing
<1> QED
  BY <1>1, <1>2, <1>3 DEF IInv, Flow, Covered, Apart, Fresh, Counts, HasLimit

LEMMA ScanEndFlow ==
    ASSUME IInv, ScanEnd
    PROVE  Flow'
<1>1. /\ pc = "scan" /\ pc' = "done" /\ row_cursor >= num_rows
      /\ UNCHANGED <<query, scan, buffers, rows_emitted, answer>>
  BY DEF ScanEnd
<1>2. Pending = {} /\ Pending' = {} /\ Taken' = Taken
  BY <1>1 DEF Pending, Taken
<1>3. Passed' = Passed
  BY <1>1 DEF Passed, Qualifying
<1> QED
  BY <1>1, <1>2, <1>3 DEF IInv, Flow, Covered, Apart, Fresh, Counts, HasLimit

(* Without a WHERE clause there is no filter node and every row qualifies. *)
LEMMA NoWhere ==
    ASSUME ~ HasFilter
    PROVE  \A row : Holds(where, row)
BY DEF HasFilter, Holds

LEMMA ScanBatchFlow ==
    ASSUME IInv, ScanBatch
    PROVE  Flow'
<1> DEFINE count == MinOf(BatchSize, num_rows - row_cursor)
           batch == row_cursor .. row_cursor + count - 1
<1>1. /\ pc = "scan" /\ pc' = AfterScan /\ row_cursor < num_rows
      /\ row_cursor' = row_cursor + count
      /\ current_chunk' = [rows |-> batch, sel |-> {}, filter_applied |-> FALSE]
      /\ UNCHANGED <<query, skipped_chunks, out_chunk, rows_emitted, answer>>
  BY DEF ScanBatch
<1>2. row_cursor \in Nat /\ num_rows \in Nat /\ rows \subseteq 0 .. num_rows - 1
  BY BoundAssumption DEF IInv, TypeOK
<1>3. count \in Nat /\ count <= num_rows - row_cursor
  <2>1. num_rows - row_cursor \in Nat /\ BatchSize \in Nat
    BY <1>1, <1>2, BatchAssumption
  <2> QED
    BY <2>1, MinType
<1> HIDE DEF count
<1>4. Pending = {} /\ Taken = rows /\ rows = Passed
  BY <1>1 DEF Pending, Taken, IInv, Covered
<1>5. UNCHANGED <<HasFilter, HasLimit, AfterFilter, AfterProject, Qualifying>>
  BY <1>1 DEF HasFilter, HasLimit, AfterFilter, AfterProject, Qualifying
<1>6. Pending' = {r \in batch : r \in Qualifying}
  <2>1. batch \subseteq 0 .. num_rows - 1
    BY <1>2, <1>3
  <2>2. CASE HasFilter
    <3>1. pc' = "filter"
      BY <1>1, <2>2 DEF AfterScan
    <3>2. Pending' = {r \in batch : Holds(where, table[r])}
      BY <1>1, <3>1 DEF Pending
    <3> QED
      BY <2>1, <3>2 DEF Qualifying
  <2>3. CASE ~ HasFilter
    <3>1. batch \subseteq Qualifying
      BY <2>1, <2>3, NoWhere DEF Qualifying
    <3>2. LiveRows(current_chunk') = batch
      BY <1>1 DEF LiveRows
    <3>3. pc' = "project" => project
      BY <1>1, <2>3 DEF AfterScan, AfterFilter, AfterProject
    <3>4. CASE project
      <4>1. pc' = "project"
        BY <1>1, <2>3, <3>4 DEF AfterScan, AfterFilter
      <4>2. Pending' = LiveRows(current_chunk)'
        BY <4>1 DEF Pending
      <4> QED
        BY <3>1, <3>2, <4>2 DEF LiveRows
    <3>5. CASE ~ project
      <4>1. pc' \in {"limit", "deliver"} /\ TopChunk' = current_chunk'
        BY <1>1, <2>3, <3>5 DEF AfterScan, AfterFilter, AfterProject, TopChunk
      <4>2. Pending' = LiveRows(TopChunk)'
        BY <4>1 DEF Pending
      <4> QED
        BY <3>1, <3>2, <4>1, <4>2 DEF LiveRows
    <3> QED
      BY <3>4, <3>5
  <2> QED
    BY <2>2, <2>3
<1>7. Taken' = Passed'
  <2>1. Passed' = {r \in Qualifying : r < row_cursor + count}
    BY <1>1, <1>5 DEF Passed
  <2>2. Qualifying \subseteq Nat
    BY DEF Qualifying
  <2>3. Taken' = rows \cup Pending'
    BY <1>1 DEF Taken
  <2>4. \A r \in Qualifying : r < row_cursor + count <=> r < row_cursor \/ r \in batch
    BY <1>2, <1>3, <2>2
  <2> QED
    BY <1>4, <1>6, <2>1, <2>3, <2>4 DEF Passed
<1>8. Apart'
  <2>1. \A x \in rows, y \in batch : x < y
    BY <1>2, <1>3, <1>4 DEF Passed
  <2> QED
    BY <1>1, <1>6, <2>1 DEF Apart
<1>9. Fresh'
  <2>1. LiveRows(current_chunk)' = batch /\ current_chunk'.rows = batch
        /\ current_chunk'.filter_applied = FALSE
    BY <1>1 DEF LiveRows
  <2>2. pc' # "error"
    BY <1>1 DEF AfterScan, AfterFilter, AfterProject
  <2> QED
    BY <1>1, <1>5, <2>1, <2>2 DEF Fresh, AfterScan, AfterFilter, AfterProject
<1>10. Counts'
  <2>1. HasLimit => pc' # "deliver"
    BY <1>1 DEF AfterScan, AfterFilter, AfterProject
  <2> QED
    BY <1>1, <1>5, <2>1 DEF IInv, Counts
<1>11. Covered'
  <2>1. pc' \notin {"done", "pull"}
    BY <1>1 DEF AfterScan, AfterFilter, AfterProject
  <2> QED
    BY <1>7, <2>1 DEF Covered
<1> QED
  BY <1>8, <1>9, <1>10, <1>11 DEF Flow

LEMMA FilterStampFlow ==
    ASSUME IInv, FilterStamp
    PROVE  Flow'
<1>1. /\ pc = "filter" /\ pc' = AfterFilter
      /\ UNCHANGED <<query, scan, out_chunk, rows_emitted, answer>>
  BY DEF FilterStamp
<1>2. current_chunk \in DataChunk /\ ~ current_chunk.filter_applied
  BY <1>1 DEF IInv, TypeOK, Fresh
<1>3. /\ current_chunk'.rows = current_chunk.rows
      /\ current_chunk'.sel = {r \in current_chunk.rows : Holds(where, table[r])}
      /\ current_chunk'.filter_applied = TRUE
  BY <1>2 DEF FilterStamp, DataChunk, LiveRows
<1>4. UNCHANGED <<HasLimit, AfterFilter, AfterProject, Qualifying, Passed>>
  BY <1>1 DEF HasLimit, AfterFilter, AfterProject, Qualifying, Passed
<1>5. Pending = current_chunk'.sel
  BY <1>1, <1>3 DEF Pending
<1>6. LiveRows(current_chunk)' = current_chunk'.sel
  BY <1>3 DEF LiveRows
<1>7. pc' \in {"project", "limit", "deliver"} /\ (pc' = "project" <=> project)
  BY <1>1 DEF AfterFilter, AfterProject
<1>8. Pending' = Pending
  <2>1. CASE project
    BY <1>5, <1>6, <1>7, <2>1 DEF Pending
  <2>2. CASE ~ project
    <3>1. LiveRows(TopChunk)' = current_chunk'.sel
      BY <1>1, <1>3, <2>2 DEF TopChunk, LiveRows
    <3>2. pc' \in {"limit", "deliver"} /\ pc' \notin {"project", "error", "filter"}
      BY <1>7, <2>2
    <3> QED
      BY <1>5, <3>1, <3>2 DEF Pending
  <2> QED
    BY <2>1, <2>2
<1>9. Taken' = Taken
  BY <1>1, <1>8 DEF Taken
<1>10. Covered' /\ Apart'
  BY <1>1, <1>4, <1>7, <1>8, <1>9 DEF IInv, Covered, Apart
<1>11. Fresh'
  <2>1. pc' = "limit" => HasLimit
    BY <1>1 DEF AfterFilter, AfterProject
  <2> QED
    BY <1>1, <1>3, <1>4, <1>6, <1>7, <2>1 DEF Fresh
<1>12. Counts'
  <2>1. HasLimit => pc' # "deliver"
    BY <1>1 DEF AfterFilter, AfterProject
  <2> QED
    BY <1>1, <1>4, <2>1 DEF IInv, Counts
<1> QED
  BY <1>10, <1>11, <1>12 DEF Flow

LEMMA ProjectGatherFlow ==
    ASSUME IInv, ProjectGather
    PROVE  Flow'
<1>1. /\ pc = "project" /\ pc' = AfterProject
      /\ out_chunk' = [rows |-> LiveRows(current_chunk), sel |-> {},
                       filter_applied |-> FALSE]
      /\ UNCHANGED <<query, scan, current_chunk, rows_emitted, answer>>
  BY DEF ProjectGather
<1>2. project /\ Pending = LiveRows(current_chunk)
  BY <1>1 DEF IInv, Fresh, Pending
<1>3. UNCHANGED <<HasLimit, AfterProject, Qualifying, Passed>>
  BY <1>1 DEF HasLimit, AfterProject, Qualifying, Passed
<1>4. pc' \in {"limit", "deliver"} /\ (pc' = "limit" <=> HasLimit)
  BY <1>1 DEF AfterProject
<1>5. Pending' = Pending
  <2>1. LiveRows(TopChunk)' = LiveRows(current_chunk)
    BY <1>1, <1>2 DEF TopChunk, LiveRows
  <2>2. Pending' = LiveRows(TopChunk)'
    BY <1>4 DEF Pending
  <2> QED
    BY <1>2, <2>1, <2>2
<1>6. Taken' = Taken
  BY <1>1, <1>5 DEF Taken
<1>7. Covered' /\ Apart' /\ Fresh'
  BY <1>1, <1>3, <1>4, <1>5, <1>6 DEF IInv, Covered, Apart, Fresh
<1>8. Counts'
  BY <1>1, <1>3, <1>4 DEF IInv, Counts
<1> QED
  BY <1>7, <1>8 DEF Flow

LEMMA ProjectRaiseFlow ==
    ASSUME IInv, ProjectRaise
    PROVE  Flow'
<1>1. /\ pc = "project" /\ pc' = "error"
      /\ LiveRows(current_chunk) \cap failing # {}
      /\ UNCHANGED <<query, scan, buffers, rows_emitted, answer>>
  BY DEF ProjectRaise
<1>2. UNCHANGED <<HasLimit, Qualifying, Passed, LiveRows(current_chunk)>>
  BY <1>1 DEF HasLimit, Qualifying, Passed, LiveRows
<1>3. Pending' = Pending /\ Taken' = Taken
  BY <1>1, <1>2 DEF Pending, Taken
<1> QED
  BY <1>1, <1>2, <1>3 DEF IInv, Flow, Covered, Apart, Fresh, Counts

LEMMA LimitPassFlow ==
    ASSUME IInv, LimitPass
    PROVE  Flow'
<1>1. /\ pc = "limit" /\ pc' = "deliver"
      /\ Cardinality(LiveRows(TopChunk)) <= limit - rows_emitted
      /\ rows_emitted' = rows_emitted + Cardinality(LiveRows(TopChunk))
      /\ UNCHANGED <<query, scan, buffers, answer>>
  BY DEF LimitPass
<1>2. UNCHANGED <<HasLimit, Qualifying, Passed, TopChunk, LiveRows(TopChunk)>>
  BY <1>1 DEF HasLimit, Qualifying, Passed, TopChunk, LiveRows
<1>3. Pending = LiveRows(TopChunk) /\ Pending' = Pending /\ Taken' = Taken
  BY <1>1, <1>2 DEF Pending, Taken
<1>4. Cardinality(Pending) \in Nat
  BY Finite, FS_CardinalityType
<1>5. HasLimit /\ limit \in Nat /\ rows_emitted = row_count
  BY <1>1, LimitAssumption DEF IInv, Fresh, Counts, TypeOK, HasLimit
<1>6. row_count = Cardinality(rows) /\ rows_emitted \in Nat
  BY DEF IInv, Counts, TypeOK
<1>7. Counts'
  BY <1>1, <1>2, <1>3, <1>4, <1>5, <1>6 DEF Counts
<1> QED
  BY <1>1, <1>2, <1>3, <1>7 DEF IInv, Flow, Covered, Apart, Fresh

LEMMA LimitTruncateFlow ==
    ASSUME IInv, LimitTruncate
    PROVE  Flow'
<1> DEFINE left == limit - rows_emitted
<1>1. /\ pc = "limit" /\ pc' = "deliver"
      /\ rows_emitted' = limit
      /\ UNCHANGED <<query, scan, answer>>
  BY DEF LimitTruncate
<1>2. Pending = LiveRows(TopChunk)
  BY <1>1 DEF Pending
<1>3. PICK kept \in SUBSET Pending :
        /\ IsFirst(kept, Pending, left)
        /\ IF project
           THEN out_chunk' = Truncated(out_chunk, kept) /\ UNCHANGED current_chunk
           ELSE current_chunk' = Truncated(current_chunk, kept) /\ UNCHANGED out_chunk
  BY <1>2 DEF LimitTruncate
<1>4. UNCHANGED <<HasLimit, Qualifying, Passed, project>>
  BY <1>1 DEF HasLimit, Qualifying, Passed
<1>5. Pending' = kept
  <2>1. current_chunk \in DataChunk /\ out_chunk \in DataChunk
    BY DEF IInv, TypeOK
  <2>2. ASSUME NEW chunk \in DataChunk
        PROVE  LiveRows(Truncated(chunk, kept)) = kept
    BY DEF DataChunk, LiveRows, Truncated
  <2>3. CASE project
    <3>1. LiveRows(TopChunk)' = LiveRows(out_chunk')
      BY <1>4, <2>3 DEF TopChunk, LiveRows
    <3> QED
      BY <1>1, <1>3, <2>1, <2>2, <2>3, <3>1 DEF Pending
  <2>4. CASE ~ project
    <3>1. LiveRows(TopChunk)' = LiveRows(current_chunk')
      BY <1>4, <2>4 DEF TopChunk, LiveRows
    <3> QED
      BY <1>1, <1>3, <2>1, <2>2, <2>4, <3>1 DEF Pending
  <2> QED
    BY <2>3, <2>4
<1>6. /\ HasLimit /\ limit \in Nat /\ rows_emitted = row_count
      /\ rows_emitted < limit
      /\ row_count = Cardinality(rows) /\ row_count \in Nat
  BY <1>1, LimitAssumption DEF IInv, Fresh, Counts, TypeOK, HasLimit
<1>7. Cardinality(kept) = left /\ kept \subseteq Pending
  BY <1>3 DEF IsFirst
<1>8. Apart'
  BY <1>1, <1>5, <1>7 DEF IInv, Apart
<1>9. Taken' = rows \cup kept
  BY <1>1, <1>5 DEF Taken
<1>10. Cut'
  <2>1. Taken = Passed /\ Apart
    BY <1>1 DEF IInv, Covered
  <2>2. row_cursor \in Nat /\ Qualifying \subseteq Nat
    BY BoundAssumption DEF IInv, TypeOK, Qualifying
  <2>3. rows \cup kept \subseteq Qualifying
    BY <1>7, PendingInTable
  <2>4. \A x \in rows \cup kept, y \in Qualifying \ (rows \cup kept) : x < y
    <3> SUFFICES ASSUME NEW x \in rows \cup kept, NEW y \in Qualifying \ (rows \cup kept)
                 PROVE  x < y
      OBVIOUS
    <3>1. x \in Passed
      BY <1>7, <2>1 DEF Taken
    <3>2. CASE y \notin Passed
      BY <2>2, <3>1, <3>2 DEF Passed
    <3>3. CASE y \in Passed
      <4>1. y \in Pending \ kept
        BY <2>1, <3>3 DEF Taken
      <4>2. CASE x \in kept
        BY <1>3, <4>1, <4>2 DEF IsFirst
      <4>3. CASE x \in rows
        BY <2>1, <4>1, <4>3 DEF Apart
      <4> QED
        BY <4>2, <4>3
    <3> QED
      BY <3>2, <3>3
  <2>5. Cardinality(rows \cup kept) = limit
    <3>1. rows \cap kept = {}
      <4>1. \A x \in rows : x \in Nat
        BY <2>2, PendingInTable
      <4> QED
        BY <1>7, <2>1, <4>1 DEF Apart
    <3>2. IsFiniteSet(rows) /\ IsFiniteSet(kept)
      BY <1>7, Finite, FS_Subset
    <3>3. Cardinality(rows \cup kept)
            = Cardinality(rows) + Cardinality(kept) - Cardinality(rows \cap kept)
      BY <3>2, FS_Union
    <3>4. Cardinality(rows \cap kept) = 0
      BY <3>1, FS_EmptySet
    <3> QED
      BY <1>6, <1>7, <3>3, <3>4
  <2> QED
    BY <1>1, <1>4, <1>6, <1>9, <2>3, <2>4, <2>5 DEF Cut, IsFirst
<1>11. Counts'
  BY <1>1, <1>4, <1>5, <1>6, <1>7 DEF Counts
<1>12. Covered' /\ Fresh'
  BY <1>1, <1>10 DEF Covered, Fresh
<1> QED
  BY <1>8, <1>11, <1>12 DEF Flow

LEMMA DeliverFlow ==
    ASSUME IInv, Deliver
    PROVE  Flow'
<1>1. /\ pc = "deliver" /\ pc' = "pull"
      /\ rows' = rows \cup LiveRows(TopChunk)
      /\ row_count' = row_count + Cardinality(LiveRows(TopChunk))
      /\ UNCHANGED <<query, scan, buffers, rows_emitted>>
  BY DEF Deliver
<1>2. Pending = LiveRows(TopChunk) /\ Pending' = {} /\ Taken' = Taken
  BY <1>1 DEF Pending, Taken
<1>3. UNCHANGED <<HasLimit, Qualifying, Passed>>
  BY <1>1 DEF HasLimit, Qualifying, Passed
<1>4. row_count' = Cardinality(rows')
  <2>1. rows \cap Pending = {}
    <3>1. \A x \in rows : x \in Nat
      BY PendingInTable DEF Qualifying
    <3> QED
      BY <3>1 DEF IInv, Apart
  <2>2. Cardinality(rows \cup Pending)
          = Cardinality(rows) + Cardinality(Pending) - Cardinality(rows \cap Pending)
    BY Finite, FS_Union
  <2>3. Cardinality(rows \cap Pending) = 0
    BY <2>1, FS_EmptySet
  <2>4. Cardinality(rows) \in Nat /\ Cardinality(Pending) \in Nat
    BY Finite, FS_CardinalityType
  <2> QED
    BY <1>1, <1>2, <2>2, <2>3, <2>4 DEF IInv, Counts
<1>5. Counts'
  <2>1. HasLimit => rows_emitted = row_count + Cardinality(Pending)
    BY <1>1 DEF IInv, Counts
  <2>2. HasLimit => rows_emitted <= limit
    BY DEF IInv, Counts
  <2> QED
    BY <1>1, <1>2, <1>3, <1>4, <2>1, <2>2 DEF IInv, Counts, TypeOK
<1>6. Cut' <=> Cut
  BY <1>1, <1>2, <1>3 DEF Cut, IsFirst
<1>7. Covered' /\ Apart' /\ Fresh'
  BY <1>1, <1>2, <1>3, <1>6 DEF IInv, Covered, Apart, Fresh
<1> QED
  BY <1>5, <1>7 DEF Flow

LEMMA StepFlow == IInv /\ [Next]_vars => Flow'
<1> SUFFICES ASSUME IInv, [Next]_vars
             PROVE  Flow'
  OBVIOUS
<1>1. CASE UNCHANGED vars
  <2>1. UNCHANGED <<HasLimit, HasFilter, Qualifying, TopChunk, LiveRows(current_chunk)>>
    BY <1>1 DEF vars, HasLimit, HasFilter, Qualifying, TopChunk, LiveRows
  <2>2. UNCHANGED <<Pending, Passed>>
    BY <1>1, <2>1 DEF vars, Pending, Passed, LiveRows, TopChunk
  <2>3. UNCHANGED <<Taken, Cut>>
    BY <1>1, <2>1, <2>2 DEF vars, Taken, Cut, IsFirst
  <2> QED
    BY <1>1, <2>1, <2>2, <2>3 DEF IInv, vars, Flow, Covered, Apart, Fresh, Counts
<1> QED
  BY <1>1, PullFlow, ScanSkipFlow, ScanEndFlow, ScanBatchFlow, FilterStampFlow,
     ProjectGatherFlow, ProjectRaiseFlow, LimitPassFlow, LimitTruncateFlow, DeliverFlow
  DEF Next, Ended

LEMMA InitIInv == Init => IInv
<1> SUFFICES ASSUME Init
             PROVE  IInv
  OBVIOUS
<1>1. TypeOK
  BY InitType
<1>2. ZonesExact
  BY DEF Init, ZonesExact
<1>3. Pending = {} /\ Taken = {}
  BY DEF Init, Pending, Taken
<1>4. Passed = {}
  BY DEF Init, Passed, Qualifying
<1>5. Covered /\ Apart /\ Fresh
  BY <1>3, <1>4 DEF Init, Covered, Apart, Fresh
<1>6. HasLimit => limit \in Nat
  BY LimitAssumption DEF Init, HasLimit
<1>7. Cardinality(rows) = 0
  BY FS_EmptySet DEF Init
<1>8. Counts
  BY <1>6, <1>7 DEF Init, Counts
<1> QED
  BY <1>1, <1>2, <1>5, <1>8 DEF IInv

LEMMA StepIInv == IInv /\ [Next]_vars => IInv'
BY StepType, StepZones, StepFlow DEF IInv, Flow

(* The invariant holds in every reachable state.                           *)
THEOREM Invariance == Spec => []IInv
BY InitIInv, StepIInv, PTL DEF Spec

-----------------------------------------------------------------------------
(* What follows from it.                                                   *)

(* Every variable of the pipeline keeps its type.                          *)
THEOREM TypeCorrect == Spec => []TypeOK
<1>1. IInv => TypeOK
  BY DEF IInv
<1> QED
  BY <1>1, Invariance, PTL

LEMMA TakenIsFirst ==
    ASSUME IInv
    PROVE  \A x \in Taken, y \in Qualifying \ Taken : x < y
<1>1. Taken = Passed \/ Cut
  BY DEF IInv, Covered, TypeOK
<1>2. row_cursor \in Nat /\ Qualifying \subseteq Nat
  BY BoundAssumption DEF IInv, TypeOK, Qualifying
<1>3. CASE Taken = Passed
  BY <1>2, <1>3 DEF Passed
<1>4. CASE Cut
  BY <1>4 DEF Cut, IsFirst
<1> QED
  BY <1>1, <1>3, <1>4

(* What has been delivered is a gap-free run of qualifying rows, wherever  *)
(* pruning, filtering and the limit cut the stream.                        *)
THEOREM NoGapTheorem == Spec => []NoGap
<1>1. IInv => NoGap
  <2> SUFFICES ASSUME IInv
               PROVE  NoGap
    OBVIOUS
  <2>1. rows \subseteq Qualifying
    BY PendingInTable
  <2>2. \A x \in rows, y \in Qualifying \ rows : x < y
    BY TakenIsFirst DEF IInv, Apart, Taken
  <2> QED
    BY <2>1, <2>2 DEF NoGap
<1> QED
  BY <1>1, Invariance, PTL

(* No row is delivered twice, and the limit counts what is delivered.      *)
THEOREM NoDuplicateTheorem == Spec => []NoDuplicate
<1>1. IInv => NoDuplicate
  BY DEF IInv, Counts, NoDuplicate, TypeOK
<1> QED
  BY <1>1, Invariance, PTL

(* The loop ends only with exactly the rows the query asks for, for every  *)
(* table, WHERE clause, limit, chunk size and batch size.                  *)
THEOREM CompleteTheorem == Spec => []Complete
<1>1. IInv => Complete
  <2> SUFFICES ASSUME IInv, pc = "done"
               PROVE  IF HasLimit /\ limit < Cardinality(Qualifying)
                      THEN IsFirst(rows, Qualifying, limit)
                      ELSE rows = Qualifying
    BY DEF Complete
  <2>1. Taken = rows
    BY DEF Taken, Pending
  <2>2. (rows = Passed /\ row_cursor >= num_rows) \/ Cut
    BY <2>1 DEF IInv, Covered
  <2>3. row_count = Cardinality(rows) /\ (HasLimit => limit \in Nat /\ row_count <= limit)
    BY LimitAssumption DEF IInv, Counts, TypeOK, HasLimit
  <2>4. Cardinality(Qualifying) \in Nat
    BY Finite, FS_CardinalityType
  <2>5. CASE rows = Passed /\ row_cursor >= num_rows
    <3>1. row_cursor \in Nat /\ num_rows \in Nat
      BY BoundAssumption DEF IInv, TypeOK
    <3>2. rows = Qualifying
      BY <2>5, <3>1 DEF Passed, Qualifying
    <3> QED
      BY <2>3, <2>4, <3>2
  <2>6. CASE Cut
    <3>1. HasLimit /\ IsFirst(rows, Qualifying, limit)
      BY <2>1, <2>6 DEF Cut
    <3>2. rows \subseteq Qualifying /\ Cardinality(rows) = limit
      BY <3>1 DEF IsFirst
    <3>3. /\ Cardinality(rows) <= Cardinality(Qualifying)
          /\ Cardinality(rows) = Cardinality(Qualifying) => rows = Qualifying
      BY <3>2, Finite, FS_Subset
    <3> QED
      BY <2>3, <2>4, <3>1, <3>2, <3>3
  <2> QED
    BY <2>2, <2>5, <2>6
<1> QED
  BY <1>1, Invariance, PTL

(* A select list that raises ends the query only for a qualifying row of a *)
(* batch that the limit still needed.                                      *)
THEOREM ErrorBoundTheorem == Spec => []ErrorBound
<1>1. IInv => ErrorBound
  <2> SUFFICES ASSUME IInv, pc = "error"
               PROVE  /\ \E r \in current_chunk.rows : r \in Qualifying \cap failing
                      /\ HasLimit =>
                           Cardinality({q \in Qualifying :
                                          \A r \in current_chunk.rows : q < r}) < limit
    BY DEF ErrorBound
  <2> DEFINE before == {q \in Qualifying : \A r \in current_chunk.rows : q < r}
  <2>1. /\ Pending = LiveRows(current_chunk) /\ Taken = Passed
        /\ Pending \subseteq current_chunk.rows
        /\ Pending \cap failing # {}
    BY DEF Pending, IInv, Covered, Fresh
  <2>2. PICK r \in current_chunk.rows : r \in Qualifying \cap failing /\ r \in Pending
    BY <2>1, PendingInTable
  <2>3. row_cursor \in Nat /\ Qualifying \subseteq Nat
    BY BoundAssumption DEF IInv, TypeOK, Qualifying
  <2>4. before \subseteq rows
    <3> SUFFICES ASSUME NEW q \in before
                 PROVE  q \in rows
      OBVIOUS
    <3>1. q < r /\ r < row_cursor
      BY <2>1, <2>2 DEF Taken, Passed
    <3>2. q \in Passed
      BY <2>2, <2>3, <3>1 DEF Passed
    <3>3. q \notin Pending
      BY <2>1, <2>3
    <3> QED
      BY <2>1, <3>2, <3>3 DEF Taken
  <2>5. HasLimit => Cardinality(before) < limit
    <3>1. Cardinality(before) <= Cardinality(rows) /\ Cardinality(before) \in Nat
      BY <2>4, Finite, FS_Subset, FS_CardinalityType
    <3>2. Cardinality(rows) = row_count /\ row_count \in Nat
      BY DEF IInv, Counts, TypeOK
    <3>3. HasLimit => row_count = rows_emitted /\ rows_emitted < limit /\ limit \in Nat
      BY <3>2, LimitAssumption DEF IInv, Counts, TypeOK, HasLimit
    <3> QED
      BY <3>1, <3>2, <3>3
  <2> QED
    BY <2>2, <2>5
<1> QED
  BY <1>1, Invariance, PTL

(* Once the limit is met the scan does not move again.                     *)
THEOREM LimitStopsTheorem == Spec => LimitStopsScan
<1>1. IInv /\ [Next]_vars
        => [HasLimit /\ rows_emitted >= limit => UNCHANGED <<row_cursor, skipped_chunks>>]_vars
  <2> SUFFICES ASSUME IInv, [Next]_vars, HasLimit, rows_emitted >= limit
               PROVE  UNCHANGED <<row_cursor, skipped_chunks>>
    OBVIOUS
  <2>1. limit \in Nat /\ rows_emitted \in Nat
    BY LimitAssumption DEF IInv, TypeOK, HasLimit
  <2>2. pc # "scan"
    BY <2>1 DEF IInv, Counts
  <2> QED
    BY <2>2 DEF Next, vars, Pull, ScanSkip, ScanEnd, ScanBatch, FilterStamp, ProjectGather,
                ProjectRaise, LimitPass, LimitTruncate, Deliver, Ended
<1> QED
  BY <1>1, Invariance, PTL DEF Spec, LimitStopsScan

-----------------------------------------------------------------------------
(* The pipeline implements QueryStream.                                    *)

LEMMA SameCardinality == \A S : Stream!Cardinality(S) = Cardinality(S)
BY Zenon DEF Stream!Cardinality, Cardinality

LEMMA StreamStep == IInv /\ IInv' /\ [Next]_vars => [Stream!Next]_(Stream!stream)
<1> SUFFICES ASSUME IInv, IInv', [Next]_vars
             PROVE  [Stream!Next]_(Stream!stream)
  OBVIOUS
<1> USE DEF Stream!stream, Stream!query
<1>1. UNCHANGED <<failing, limit>> /\ Qualifying' = Qualifying
  BY QueryFixed
<1>2. rows \subseteq Qualifying /\ Pending \subseteq Qualifying
  BY PendingInTable
<1>3. /\ row_count = Cardinality(rows) /\ row_count \in Nat /\ rows_emitted \in Nat
      /\ HasLimit => limit \in Nat
  BY LimitAssumption DEF IInv, Counts, TypeOK, HasLimit
<1>4. CASE Pull
  <2>1. pc = "pull" /\ rows' = rows
    BY <1>4 DEF Pull
  <2>2. CASE HasLimit /\ rows_emitted >= limit
    <3>1. pc' = "done"
      BY <1>4, <2>2 DEF Pull
    <3>2. rows_emitted = row_count /\ rows_emitted <= limit
      BY <2>1, <2>2, <1>3 DEF IInv, Counts
    <3>3. limit # NoLimit /\ Cardinality(rows) = limit
      BY <1>3, <2>2, <3>2 DEF HasLimit
    <3>4. Stream!Exhausted
      BY <3>3, SameCardinality DEF Stream!Exhausted
    <3>5. Stream!Finish
      BY <1>1, <2>1, <3>1, <3>4 DEF Stream!Finish
    <3> QED
      BY <3>5 DEF Stream!Next
  <2>3. CASE ~ (HasLimit /\ rows_emitted >= limit)
    BY <1>1, <1>4, <2>1, <2>3 DEF Pull
  <2> QED
    BY <2>2, <2>3
<1>5. CASE ScanEnd
  <2>1. pc = "scan" /\ pc' = "done" /\ rows' = rows /\ row_cursor >= num_rows
    BY <1>5 DEF ScanEnd
  <2>2. rows = Passed
    BY <2>1 DEF IInv, Covered, Taken, Pending
  <2>3. row_cursor \in Nat /\ num_rows \in Nat
    BY BoundAssumption DEF IInv, TypeOK
  <2>4. rows = Qualifying
    BY <2>1, <2>2, <2>3 DEF Passed, Qualifying
  <2>5. Stream!Finish
    BY <1>1, <2>1, <2>4 DEF Stream!Finish, Stream!Exhausted
  <2> QED
    BY <2>5 DEF Stream!Next
<1>6. CASE ProjectRaise
  <2>1. pc = "project" /\ pc' = "error" /\ rows' = rows
        /\ LiveRows(current_chunk) \cap failing # {}
    BY <1>6 DEF ProjectRaise
  <2>2. Pending = LiveRows(current_chunk)
    BY <2>1 DEF Pending
  <2>3. PICK r \in Pending : r \in failing
    BY <2>1, <2>2
  <2>4. r \in Qualifying \ rows
    <3>1. r \in Nat
      BY <1>2 DEF Qualifying
    <3> QED
      BY <1>2, <3>1 DEF IInv, Apart
  <2>5. limit # NoLimit => Cardinality(rows) # limit
    BY <1>3, <2>1 DEF IInv, Counts, HasLimit
  <2>6. ~ Stream!Exhausted
    <3>1. rows # Qualifying
      BY <2>4
    <3> QED
      BY <2>5, <3>1, SameCardinality DEF Stream!Exhausted
  <2>7. Stream!Fail
    BY <1>1, <2>1, <2>3, <2>4, <2>6 DEF Stream!Fail
  <2> QED
    BY <2>7 DEF Stream!Next
<1>7. CASE Deliver
  <2>1. pc = "deliver" /\ pc' = "pull" /\ rows' = rows \cup Pending
    BY <1>7 DEF Deliver, Pending
  <2>2. CASE Pending = {}
    BY <1>1, <2>1, <2>2
  <2>3. CASE Pending # {}
    <3>1. Pending \in SUBSET (Qualifying \ rows)
      <4>1. \A x \in rows : x \in Nat
        BY <1>2 DEF Qualifying
      <4> QED
        BY <1>2, <4>1 DEF IInv, Apart
    <3>2. \A x \in Pending, y \in (Qualifying \ rows) \ Pending : x < y
      BY TakenIsFirst DEF Taken
    <3>3. Stream!Fits(Cardinality(rows \cup Pending))
      <4>1. Cardinality(rows \cup Pending) = row_count'
        BY <2>1 DEF IInv, Counts
      <4>2. HasLimit' => rows_emitted' = row_count' + 0 /\ rows_emitted' <= limit'
        BY <2>1 DEF IInv, Counts
      <4>3. row_count' \in Nat
        BY DEF IInv, TypeOK
      <4>4. limit # NoLimit => row_count' <= limit
        BY <1>1, <4>2, <4>3 DEF HasLimit
      <4> QED
        BY <4>1, <4>4 DEF Stream!Fits
    <3>4. Stream!NextRows(Pending)
      BY <3>1, <3>2 DEF Stream!NextRows
    <3>5. UNCHANGED <<Qualifying, failing, limit>> /\ pc \notin {"done", "error"}
          /\ pc' \notin {"done", "error"}
      BY <1>1, <2>1
    <3>6. Stream!Emit
      BY <2>1, <2>3, <3>1, <3>3, <3>4, <3>5, SameCardinality DEF Stream!Emit
    <3> QED
      BY <3>6 DEF Stream!Next
  <2> QED
    BY <2>2, <2>3
<1>8. CASE ScanSkip \/ ScanBatch \/ FilterStamp \/ ProjectGather \/ LimitPass
           \/ LimitTruncate \/ Ended \/ UNCHANGED vars
  BY <1>1, <1>8
  DEF ScanSkip, ScanBatch, FilterStamp, ProjectGather, LimitPass, LimitTruncate, Ended,
      vars, AfterScan, AfterFilter, AfterProject
<1> QED
  BY <1>4, <1>5, <1>6, <1>7, <1>8 DEF Next

(* Scan, filter, project, limit and driver together deliver the stream of  *)
(* rows that QueryStream promises.                                         *)
THEOREM Refinement == Spec => Implements
<1>1. Init => Stream!Init
  BY DEF Init, Stream!Init
<1> QED
  BY <1>1, StreamStep, Invariance, PTL DEF Spec, Implements, Stream!Spec

-----------------------------------------------------------------------------
(* Recursion over numbers.                                                 *)

(* Every nonempty set of naturals has a least element.                     *)
LEMMA LeastNat ==
    ASSUME NEW S \in SUBSET Nat, S # {}
    PROVE  \E x \in S : \A y \in S : x <= y
<1>1. PICK x \in S : \A y \in S : ~ (<<y, x>> \in OpToRel(<, Nat))
  BY WFMin, NatLessThanWellFounded
<1>2. \A y \in S : ~ (y < x)
  BY <1>1, Zenon DEF OpToRel
<1> QED
  BY <1>2

(* A nonempty set of naturals with a bound has a greatest element.         *)
LEMMA GreatestNat ==
    ASSUME NEW S \in SUBSET Nat, S # {}, NEW n \in Nat, \A y \in S : y <= n
    PROVE  \E x \in S : \A y \in S : y <= x
<1> DEFINE D == {n - y : y \in S}
<1>1. D \in SUBSET Nat /\ D # {}
  <2>1. \A y \in S : n - y \in Nat
    OBVIOUS
  <2> QED
    BY <2>1
<1>2. PICK d \in D : \A e \in D : d <= e
  BY <1>1, LeastNat
<1>3. PICK x \in S : d = n - x
  OBVIOUS
<1>4. \A y \in S : n - x <= n - y
  BY <1>2, <1>3
<1> HIDE DEF D
<1>5. ASSUME NEW y \in S
      PROVE  y <= x
  <2>1. n - x <= n - y /\ x \in Nat /\ y \in Nat
    BY <1>4
  <2> QED
    BY <2>1
<1> QED
  BY <1>5

(* A function on S that is defined at every n from its values where the    *)
(* measure mu is smaller.                                                  *)
Local(S, V, mu, step) ==
    \A n \in S : \A f, g \in [S -> V] :
        (\A m \in S : mu[m] < mu[n] => f[m] = g[m]) => step[<<n, f>>] = step[<<n, g>>]

Solves(S, f, step) == \A n \in S : f[n] = step[<<n, f>>]

(* There is one.                                                           *)
LEMMA Recursion ==
    ASSUME NEW N \in Nat, NEW S, NEW V, NEW v \in V, NEW mu \in [S -> 1 .. N],
           NEW step \in [S \X [S -> V] -> V], Local(S, V, mu, step)
    PROVE  \E f \in [S -> V] : Solves(S, f, step)
<1> DEFINE Solved(k) == \E f \in [S -> V] : \A n \in S : mu[n] <= k => f[n] = step[<<n, f>>]
           Open      == {k \in 0 .. N : ~ Solved(k)}
<1>1. Solved(0)
  <2>1. [n \in S |-> v] \in [S -> V] /\ \A n \in S : ~ (mu[n] <= 0)
    OBVIOUS
  <2> QED
    BY <2>1
<1>2. ASSUME NEW k \in 1 .. N, Solved(k - 1)
      PROVE  Solved(k)
  <2>1. PICK f \in [S -> V] : \A n \in S : mu[n] <= k - 1 => f[n] = step[<<n, f>>]
    BY <1>2
  <2> DEFINE g == [n \in S |-> IF mu[n] = k THEN step[<<n, f>>] ELSE f[n]]
  <2>2. \A n \in S : step[<<n, f>>] \in V
    OBVIOUS
  <2>3. g \in [S -> V] /\ \A n \in S : g[n] = IF mu[n] = k THEN step[<<n, f>>] ELSE f[n]
    BY <2>2
  <2> HIDE DEF g
  <2>4. ASSUME NEW n \in S, mu[n] <= k
        PROVE  g[n] = step[<<n, g>>]
    <3>1. ASSUME NEW m \in S, mu[m] < mu[n]
          PROVE  f[m] = g[m]
      <4>1. mu[m] \in Int /\ mu[n] \in Int
        OBVIOUS
      <4>2. mu[m] # k
        BY <2>4, <3>1, <4>1
      <4> QED
        BY <2>3, <4>2
    <3>2. step[<<n, f>>] = step[<<n, g>>]
      BY <2>3, <3>1 DEF Local
    <3>3. CASE mu[n] = k
      BY <2>3, <3>2, <3>3
    <3>4. CASE mu[n] # k
      BY <2>1, <2>3, <2>4, <3>2, <3>4, SMTT(40)
    <3> QED
      BY <3>3, <3>4
  <2> QED
    BY <2>3, <2>4
<1>3. Open = {}
  <2> SUFFICES ASSUME Open # {} PROVE FALSE
    OBVIOUS
  <2>0. Open \in SUBSET Nat /\ N \in 0 .. N
    OBVIOUS
  <2> HIDE DEF Solved
  <2>1. PICK k \in Open : \A l \in Open : k <= l
    BY <2>0, LeastNat
  <2>2. k \in 0 .. N /\ ~ Solved(k)
    OBVIOUS
  <2>3. k \in 1 .. N
    BY <1>1, <2>2
  <2>4. k - 1 \in 0 .. N /\ ~ (k <= k - 1)
    BY <2>3
  <2>5. Solved(k - 1)
    BY <2>1, <2>4
  <2> QED
    BY <1>2, <2>2, <2>3, <2>5
<1>4. Solved(N)
  <2>1. N \in 0 .. N
    OBVIOUS
  <2> HIDE DEF Solved
  <2> QED
    BY <1>3, <2>1
<1>5. \A n \in S : mu[n] <= N
  OBVIOUS
<1> QED
  BY <1>4, <1>5 DEF Solves

-----------------------------------------------------------------------------
(* The scalar evaluator.                                                   *)

Outcome == Int \cup {NULL, Error}
Rows    == [Name -> Int \cup {NULL}]

LEMMA ArithmeticType ==
    ASSUME NEW op \in {"+", "-", "*", "/"}, NEW l \in Int, NEW r \in Int
    PROVE  Arithmetic(op, l, r) \in Outcome
<1>1. \A n \in Int : Checked(n) \in Outcome
  BY DEF Checked, Outcome, INT
<1>2. r # 0 => Quotient(l, r) \in Int
  <2>1. Magnitude(l) \in Nat /\ Magnitude(r) \in Nat /\ (r # 0 => Magnitude(r) # 0)
    BY DEF Magnitude
  <2>2. r # 0 => Magnitude(l) \div Magnitude(r) \in Int
    BY <2>1
  <2> QED
    BY <2>2 DEF Quotient
<1>3. l + r \in Int /\ l - r \in Int /\ l * r \in Int
  OBVIOUS
<1> QED
  BY <1>1, <1>2, <1>3 DEF Arithmetic, Outcome

(* The operands that a node has, and where they are.                       *)
HasOperands(e, n) ==
    /\ e[n].kind \notin Nullary => e[n].left \in 1 .. n - 1
    /\ e[n].kind \in Binary \cup {"case"} => e[n].right \in 1 .. n - 1
    /\ e[n].kind = "case" => e[n].otherwise \in 1 .. n - 1

(* What the kind of a node says about it.                                  *)
LEMMA NodeFacts ==
    ASSUME NEW e \in Nodes(Name)
    PROVE  /\ e.kind \in Nullary \cup Unary \cup Binary \cup {"case"}
           /\ e.kind = "column" => e.column \in Name
           /\ e.kind = "constant" => e.constant \in Int
           /\ e.kind = "arith" => e.op \in {"+", "-", "*", "/"}
           /\ e.kind = "compare" => e.op \in {"=", "!=", "<", ">", "<=", ">="}
           /\ e.kind = "logical" => e.op \in {"AND", "OR"}
           /\ e.kind \in {"is_null", "in"} => e.negated \in BOOLEAN
BY DEF Nodes, Nullary, Unary, Binary, INT

LEMMA NodeValueType ==
    ASSUME NEW N \in Nat, NEW e \in Nodes(Name), NEW row \in Rows, NEW f \in [1 .. N -> Outcome],
           e.kind \notin Nullary => e.left \in 1 .. N,
           e.kind \in Binary \cup {"case"} => e.right \in 1 .. N,
           e.kind = "case" => e.otherwise \in 1 .. N
    PROVE  NodeValue(e, row, f) \in Outcome
<1> USE NodeFacts
<1>1. CASE e.kind \in Nullary
  BY <1>1 DEF NodeValue, Nullary, Outcome, Rows
<1>2. CASE e.kind = "arith"
  <2>1. f[e.left] \in Outcome /\ f[e.right] \in Outcome
    BY <1>2 DEF Nullary, Binary
  <2>2. \A l, r \in Int : Arithmetic(e.op, l, r) \in Outcome
    BY <1>2, ArithmeticType
  <2> QED
    BY <1>2, <2>1, <2>2 DEF NodeValue, Strict, Outcome
<1>3. CASE e.kind \in {"compare", "logical", "is_null", "in"}
  BY <1>3 DEF NodeValue, Strict, Logical, Truth, Outcome
<1>4. CASE e.kind = "negate"
  <2>1. f[e.left] \in Outcome
    BY <1>4 DEF Nullary
  <2> QED
    BY <1>4, <2>1 DEF NodeValue, Strict, Checked, Outcome
<1>5. CASE e.kind = "case"
  BY <1>5 DEF NodeValue, Nullary, Outcome
<1> QED
  BY <1>1, <1>2, <1>3, <1>4, <1>5 DEF Unary, Binary

(* A node's value depends on those of its operands only.                   *)
LEMMA NodeValueLocal ==
    ASSUME NEW e \in Nodes(Name), NEW row, NEW f, NEW g,
           e.kind \notin Nullary => f[e.left] = g[e.left],
           e.kind \in Binary \cup {"case"} => f[e.right] = g[e.right],
           e.kind = "case" => f[e.otherwise] = g[e.otherwise]
    PROVE  NodeValue(e, row, f) = NodeValue(e, row, g)
<1>1. CASE e.kind \in Nullary
  BY <1>1 DEF NodeValue, Nullary
<1>2. CASE e.kind \in Unary
  BY <1>2 DEF NodeValue, Nullary, Unary
<1>3. CASE e.kind \in Binary
  BY <1>3 DEF NodeValue, Nullary, Binary
<1>4. CASE e.kind = "case"
  BY <1>4 DEF NodeValue, Nullary
<1> QED
  BY <1>1, <1>2, <1>3, <1>4, NodeFacts

WellFormed(e) == e \in Seq(Nodes(Name)) /\ PostOrder(e)

(* The value of a node is determined by those of its operands.             *)
LEMMA EvaluateFacts ==
    ASSUME NEW e \in Seq(Nodes(Name)), NEW row \in Rows,
           \A n \in 1 .. Len(e) : HasOperands(e, n)
    PROVE  /\ Evaluate(e, row) \in [1 .. Len(e) -> Outcome]
           /\ \A n \in 1 .. Len(e) : Evaluate(e, row)[n] = NodeValue(e[n], row, Evaluate(e, row))
<1> DEFINE S == 1 .. Len(e)
           step == [x \in S \X [S -> Outcome] |-> NodeValue(e[x[1]], row, x[2])]
           mu == [n \in S |-> n]
           Is(f) == f = [n \in S |-> NodeValue(e[n], row, f)]
<1>1. Len(e) \in Nat /\ \A n \in S : e[n] \in Nodes(Name)
  OBVIOUS
<1>2. \A n \in S, f \in [S -> Outcome] : step[<<n, f>>] = NodeValue(e[n], row, f)
  OBVIOUS
<1>3. \A n \in S, f \in [S -> Outcome] : NodeValue(e[n], row, f) \in Outcome
  BY <1>1, NodeValueType DEF HasOperands
<1>4. step \in [S \X [S -> Outcome] -> Outcome]
  BY <1>3
<1>5. ASSUME NEW n \in S, NEW f \in [S -> Outcome], NEW g \in [S -> Outcome],
             \A m \in S : m < n => f[m] = g[m]
      PROVE  step[<<n, f>>] = step[<<n, g>>]
  <2>1. \A m \in 1 .. n - 1 : f[m] = g[m]
    BY <1>5
  <2>2. NodeValue(e[n], row, f) = NodeValue(e[n], row, g)
    <3>1. /\ e[n] \in Nodes(Name)
          /\ e[n].kind \notin Nullary => f[e[n].left] = g[e[n].left]
          /\ e[n].kind \in Binary \cup {"case"} => f[e[n].right] = g[e[n].right]
          /\ e[n].kind = "case" => f[e[n].otherwise] = g[e[n].otherwise]
      BY <1>1, <2>1, Zenon DEF HasOperands
    <3> HIDE DEF step, S
    <3> QED
      BY <3>1, NodeValueLocal
  <2> QED
    BY <1>2, <2>2
<1>6. NULL \in Outcome
  BY DEF Outcome
<1> HIDE DEF step
<1>7. PICK f \in [S -> Outcome] : Solves(S, f, step)
  <2>1. Local(S, Outcome, mu, step)
    BY <1>5 DEF Local
  <2>2. mu \in [S -> 1 .. Len(e)]
    OBVIOUS
  <2> HIDE DEF S, mu
  <2> QED
    BY <1>1, <1>4, <1>6, <2>1, <2>2, Recursion
<1>8. Is(f)
  BY <1>2, <1>7 DEF Solves
<1>9. Evaluate(e, row) = CHOOSE h : Is(h)
  BY DEF Evaluate
<1>10. Is(Evaluate(e, row))
  BY <1>8, <1>9
<1> DEFINE h == Evaluate(e, row)
<1> HIDE DEF h
<1>11. h = [n \in S |-> NodeValue(e[n], row, h)]
  BY <1>10 DEF h
<1> DEFINE differ == {n \in S : h[n] # f[n]}
<1>12. differ = {}
  <2> SUFFICES ASSUME differ # {} PROVE FALSE
    OBVIOUS
  <2>0. differ \in SUBSET Nat
    OBVIOUS
  <2>1. PICK n \in differ : \A m \in differ : n <= m
    BY <2>0, LeastNat
  <2>2. \A m \in 1 .. n - 1 : h[m] = f[m]
    BY <1>1, <2>1
  <2>3. NodeValue(e[n], row, h) = NodeValue(e[n], row, f)
    BY <1>1, <2>2, NodeValueLocal DEF HasOperands
  <2> QED
    BY <1>8, <1>11, <2>1, <2>3
<1>13. h \in [S -> Outcome]
  <2>1. \A n \in S : h[n] = f[n]
    BY <1>12
  <2> QED
    BY <1>11, <2>1
<1> QED
  BY <1>11, <1>13 DEF h

-----------------------------------------------------------------------------
(* The shape of an expression in post-order.                               *)

LEMMA FirstFacts ==
    ASSUME NEW e \in Seq(Nodes(Name)), PostOrder(e)
    PROVE  /\ First(e) \in [1 .. Len(e) -> Nat]
           /\ \A n \in 1 .. Len(e) :
                 First(e)[n] = IF e[n].kind \in Nullary THEN n ELSE First(e)[e[n].left]
<1> DEFINE S == 1 .. Len(e)
           From(n, f) == IF e[n].kind \in Nullary THEN n ELSE f[e[n].left]
           step == [x \in S \X [S -> Nat] |-> From(x[1], x[2])]
           mu == [n \in S |-> n]
           Is(f) == f = [n \in S |-> From(n, f)]
<1>1. Len(e) \in Nat /\ \A n \in S : n \in Nat /\ (e[n].kind \notin Nullary => e[n].left \in 1 .. n - 1)
  BY DEF PostOrder
<1>2. \A n \in S, f \in [S -> Nat] : step[<<n, f>>] = From(n, f)
  OBVIOUS
<1>3. ASSUME NEW n \in S, NEW f \in [S -> Nat]
      PROVE  From(n, f) \in Nat
  <2>1. e[n].kind \notin Nullary => e[n].left \in S
    BY <1>1
  <2> QED
    BY <1>1, <2>1
<1>4. step \in [S \X [S -> Nat] -> Nat]
  BY <1>3
<1>5. ASSUME NEW n \in S, NEW f \in [S -> Nat], NEW g \in [S -> Nat],
             \A m \in S : m < n => f[m] = g[m]
      PROVE  step[<<n, f>>] = step[<<n, g>>]
  <2>1. \A m \in 1 .. n - 1 : f[m] = g[m]
    BY <1>5
  <2>2. From(n, f) = From(n, g)
    BY <1>1, <2>1
  <2> QED
    BY <1>2, <2>2
<1> HIDE DEF step
<1>6. PICK f \in [S -> Nat] : Solves(S, f, step)
  <2>1. Local(S, Nat, mu, step)
    BY <1>5 DEF Local
  <2>2. mu \in [S -> 1 .. Len(e)] /\ 0 \in Nat
    OBVIOUS
  <2> HIDE DEF S, mu
  <2> QED
    BY <1>1, <1>4, <2>1, <2>2, Recursion
<1>7. Is(f)
  BY <1>2, <1>6 DEF Solves
<1>8. First(e) = CHOOSE h : Is(h)
  BY DEF First
<1>9. Is(First(e))
  BY <1>7, <1>8
<1> DEFINE h == First(e)
<1> HIDE DEF h
<1>10. h = [n \in S |-> From(n, h)]
  BY <1>9 DEF h
<1> DEFINE differ == {n \in S : h[n] # f[n]}
<1>11. differ = {}
  <2> SUFFICES ASSUME differ # {} PROVE FALSE
    OBVIOUS
  <2>0. differ \in SUBSET Nat
    OBVIOUS
  <2>1. PICK n \in differ : \A m \in differ : n <= m
    BY <2>0, LeastNat
  <2>2. \A m \in 1 .. n - 1 : h[m] = f[m]
    BY <1>1, <2>1
  <2>3. From(n, h) = From(n, f)
    BY <1>1, <2>2
  <2> QED
    BY <1>7, <1>10, <2>1, <2>3
<1>12. h \in [S -> Nat]
  <2>1. \A n \in S : h[n] = f[n]
    BY <1>11
  <2> QED
    BY <1>10, <2>1
<1> QED
  BY <1>10, <1>12 DEF h

(* Where the operands of a node begin and end.                             *)
Shape(e) ==
    \A n \in 1 .. Len(e) :
        /\ First(e)[n] \in 1 .. n /\ HasOperands(e, n)
        /\ e[n].kind \in Nullary \cup Unary \cup Binary \cup {"case"}
        /\ e[n].kind \in Nullary => First(e)[n] = n
        /\ e[n].kind \in Unary => e[n].left = n - 1 /\ First(e)[n] = First(e)[n - 1]
        /\ e[n].kind \in Binary => /\ e[n].right = n - 1 /\ e[n].left = First(e)[n - 1] - 1
                                   /\ First(e)[n] = First(e)[e[n].left]
        /\ e[n].kind = "case" => /\ e[n].otherwise = n - 1 /\ e[n].right = First(e)[n - 1] - 1
                                 /\ e[n].left = First(e)[e[n].right] - 1
                                 /\ First(e)[n] = First(e)[e[n].left]

LEMMA ShapeFacts ==
    ASSUME NEW e \in Seq(Nodes(Name)), PostOrder(e)
    PROVE  /\ Shape(e) /\ Len(e) \in Nat \ {0} /\ First(e)[Len(e)] = 1
           /\ \A n \in 1 .. Len(e) : e[n] \in Nodes(Name)
<1> DEFINE F == First(e)
<1>1. /\ Len(e) \in Nat \ {0} /\ F[Len(e)] = 1 /\ \A n \in 1 .. Len(e) : e[n] \in Nodes(Name)
  BY DEF PostOrder
<1>2. \A n \in 1 .. Len(e) :
          /\ F[n] \in Nat /\ F[n] = IF e[n].kind \in Nullary THEN n ELSE F[e[n].left]
          /\ e[n].kind \in Nullary \cup Unary \cup Binary \cup {"case"}
          /\ e[n].kind \notin Nullary => e[n].left \in 1 .. n - 1
          /\ e[n].kind \in Unary => e[n].left = n - 1
          /\ e[n].kind \in Binary => e[n].right = n - 1 /\ e[n].left = F[e[n].right] - 1
          /\ e[n].kind = "case" => /\ e[n].otherwise = n - 1
                                   /\ e[n].right \in 1 .. n - 1 /\ e[n].right = F[e[n].otherwise] - 1
                                   /\ e[n].left = F[e[n].right] - 1
  BY <1>1, FirstFacts, NodeFacts DEF PostOrder
<1> HIDE DEF F
<1> DEFINE bad == {n \in 1 .. Len(e) : F[n] \notin 1 .. n}
<1>3. bad = {}
  <2> SUFFICES ASSUME bad # {} PROVE FALSE
    OBVIOUS
  <2>0. bad \in SUBSET Nat
    OBVIOUS
  <2>1. PICK n \in bad : \A m \in bad : n <= m
    BY <2>0, LeastNat
  <2>2. \A m \in 1 .. n - 1 : F[m] \in 1 .. m
    BY <1>1, <2>1
  <2>3. F[n] \in Nat /\ n \in 1 .. Len(e)
    BY <1>2, <2>1
  <2>4. CASE e[n].kind \in Nullary
    BY <1>2, <2>1, <2>3, <2>4
  <2>5. CASE e[n].kind \notin Nullary
    <3>1. e[n].left \in 1 .. n - 1 /\ F[n] = F[e[n].left]
      BY <1>2, <2>3, <2>5
    <3> QED
      BY <2>1, <2>2, <2>3, <3>1
  <2> QED
    BY <2>4, <2>5
<1>4. ASSUME NEW n \in 1 .. Len(e)
      PROVE  /\ F[n] \in 1 .. n /\ HasOperands(e, n)
             /\ e[n].kind \in Nullary \cup Unary \cup Binary \cup {"case"}
             /\ e[n].kind \in Nullary => F[n] = n
             /\ e[n].kind \in Unary => e[n].left = n - 1 /\ F[n] = F[n - 1]
             /\ e[n].kind \in Binary => /\ e[n].right = n - 1 /\ e[n].left = F[n - 1] - 1
                                        /\ F[n] = F[e[n].left]
             /\ e[n].kind = "case" => /\ e[n].otherwise = n - 1 /\ e[n].right = F[n - 1] - 1
                                      /\ e[n].left = F[e[n].right] - 1
                                      /\ F[n] = F[e[n].left]
  <2>1. F[n] \in 1 .. n
    BY <1>3
  <2>2. e[n].kind \in Unary \cup Binary \cup {"case"} => e[n].kind \notin Nullary
    BY DEF Nullary, Unary, Binary
  <2>3. e[n].kind \notin Nullary => n - 1 \in 1 .. n - 1
    BY <1>2
  <2>4. HasOperands(e, n)
    BY <1>2, <2>2, <2>3 DEF HasOperands
  <2> QED
    BY <1>2, <2>1, <2>2, <2>4
<1> QED
  BY <1>1, <1>4 DEF Shape, F

(* Two expressions in one are disjoint, or one is in the other.            *)
LEMMA Nested ==
    ASSUME NEW e, Len(e) \in Nat, Shape(e), NEW a \in 1 .. Len(e), NEW b \in 1 .. Len(e), a <= b
    PROVE  First(e)[b] <= First(e)[a] \/ a < First(e)[b]
<1> DEFINE F == First(e)
           bad == {m \in a .. Len(e) : ~ (F[m] <= F[a] \/ a < F[m])}
<1>1. \A n \in 1 .. Len(e) :
        /\ F[n] \in 1 .. n
        /\ e[n].kind \in Nullary \cup Unary \cup Binary \cup {"case"}
        /\ e[n].kind \in Nullary => F[n] = n
        /\ e[n].kind \in Unary => n - 1 \in 1 .. n - 1 /\ F[n] = F[n - 1]
        /\ e[n].kind \in Binary => /\ n - 1 \in 1 .. n - 1 /\ e[n].left \in 1 .. n - 1
                                   /\ e[n].left = F[n - 1] - 1 /\ F[n] = F[e[n].left]
        /\ e[n].kind = "case" => /\ n - 1 \in 1 .. n - 1 /\ e[n].right \in 1 .. n - 1 /\ e[n].left \in 1 .. n - 1
                                 /\ e[n].right = F[n - 1] - 1
                                 /\ e[n].left = F[e[n].right] - 1
                                 /\ F[n] = F[e[n].left]
  <2>1. Nullary \cap (Unary \cup Binary \cup {"case"}) = {}
    BY DEF Nullary, Unary, Binary
  <2> SUFFICES ASSUME NEW n \in 1 .. Len(e)
               PROVE  /\ F[n] \in 1 .. n
                      /\ e[n].kind \in Nullary \cup Unary \cup Binary \cup {"case"}
                      /\ e[n].kind \in Nullary => F[n] = n
                      /\ e[n].kind \in Unary => n - 1 \in 1 .. n - 1 /\ F[n] = F[n - 1]
                      /\ e[n].kind \in Binary => /\ n - 1 \in 1 .. n - 1 /\ e[n].left \in 1 .. n - 1
                                                 /\ e[n].left = F[n - 1] - 1 /\ F[n] = F[e[n].left]
                      /\ e[n].kind = "case" => /\ n - 1 \in 1 .. n - 1 /\ e[n].right \in 1 .. n - 1
                                               /\ e[n].left \in 1 .. n - 1
                                               /\ e[n].right = F[n - 1] - 1
                                               /\ e[n].left = F[e[n].right] - 1
                                               /\ F[n] = F[e[n].left]
    OBVIOUS
  <2>2. e[n].kind \in Unary \cup Binary \cup {"case"} => e[n].left \in 1 .. n - 1
    BY <2>1, Zenon DEF Shape, HasOperands
  <2>3. e[n].kind \in Unary \cup Binary \cup {"case"} => n - 1 \in 1 .. n - 1
    BY <2>2
  <2>4. e[n].kind = "case" => e[n].right \in 1 .. n - 1
    BY Zenon DEF Shape, HasOperands
  <2>5. /\ F[n] \in 1 .. n
        /\ e[n].kind \in Nullary \cup Unary \cup Binary \cup {"case"}
        /\ e[n].kind \in Nullary => F[n] = n
        /\ e[n].kind \in Unary => F[n] = F[n - 1]
        /\ e[n].kind \in Binary => e[n].left = F[n - 1] - 1 /\ F[n] = F[e[n].left]
        /\ e[n].kind = "case" => /\ e[n].right = F[n - 1] - 1 /\ e[n].left = F[e[n].right] - 1
                                 /\ F[n] = F[e[n].left]
    BY Zenon DEF Shape
  <2> QED
    BY <2>2, <2>3, <2>4, <2>5, Zenon
<1> HIDE DEF F
<1>2. bad = {}
  <2> SUFFICES ASSUME bad # {} PROVE FALSE
    OBVIOUS
  <2>0. bad \in SUBSET Nat
    OBVIOUS
  <2>1. PICK n \in bad : \A m \in bad : n <= m
    BY <2>0, LeastNat
  <2>2. n \in 1 .. Len(e) /\ a < n /\ F[a] \in 1 .. a /\ F[n] \in 1 .. n
    BY <1>1, <2>1
  <2>3. \A m \in 1 .. n - 1 : a <= m => F[m] <= F[a] \/ a < F[m]
    BY <2>1, <2>2
  <2>4. \A m \in 1 .. n - 1 : F[m] \in 1 .. m
    BY <1>1, <2>2
  <2>5. CASE e[n].kind \in Nullary
    BY <1>1, <2>1, <2>2, <2>5
  <2>6. CASE e[n].kind \in Unary
    <3>1. n - 1 \in 1 .. n - 1 /\ F[n] = F[n - 1]
      BY <1>1, <2>2, <2>6
    <3>2. a <= n - 1
      BY <2>2
    <3>3. F[n - 1] <= F[a] \/ a < F[n - 1]
      BY <2>3, <3>1, <3>2
    <3> QED
      BY <2>1, <3>1, <3>3
  <2>7. CASE e[n].kind \in Binary
    <3>1. /\ n - 1 \in 1 .. n - 1 /\ e[n].left \in 1 .. n - 1
          /\ e[n].left = F[n - 1] - 1 /\ F[n] = F[e[n].left]
      BY <1>1, <2>2, <2>7
    <3>2. CASE a <= e[n].left
      BY <2>1, <2>2, <2>3, <3>1, <3>2
    <3>3. CASE e[n].left < a
      <4>1. F[n - 1] <= F[a]
        BY <2>2, <2>3, <2>4, <3>1, <3>3
      <4> QED
        BY <2>1, <2>2, <2>4, <3>1, <4>1
    <3> QED
      BY <2>2, <3>1, <3>2, <3>3
  <2>8. CASE e[n].kind = "case"
    <3>1. /\ n - 1 \in 1 .. n - 1 /\ e[n].right \in 1 .. n - 1 /\ e[n].left \in 1 .. n - 1
          /\ e[n].right = F[n - 1] - 1 /\ e[n].left = F[e[n].right] - 1 /\ F[n] = F[e[n].left]
      BY <1>1, <2>2, <2>8
    <3>2. CASE a <= e[n].left
      BY <2>1, <2>2, <2>3, <3>1, <3>2
    <3>3. CASE e[n].left < a /\ a <= e[n].right
      <4>1. F[e[n].right] <= F[a]
        BY <2>2, <2>3, <2>4, <3>1, <3>3, SMTT(30)
      <4>2. F[n] <= e[n].left /\ F[e[n].right] = e[n].left + 1
        <5>1. e[n].left \in Int /\ F[e[n].right] \in Int /\ F[e[n].left] <= e[n].left
          BY <2>2, <2>4, <3>1
        <5> QED
          BY <3>1, <5>1
      <4>3. F[n] <= F[a]
        BY <2>2, <2>4, <3>1, <4>1, <4>2
      <4> QED
        BY <2>1, <4>3
    <3>4. CASE e[n].right < a
      <4>1. F[n - 1] <= F[a]
        BY <2>2, <2>3, <2>4, <3>1, <3>4
      <4>2. F[n] <= e[n].left
        BY <2>4, <3>1
      <4>5. F[e[n].right] \in Int /\ F[n - 1] \in Int
        BY <2>4, <3>1
      <4>6. F[e[n].right] = e[n].left + 1 /\ F[n - 1] = e[n].right + 1
        BY <3>1, <4>5, SMTT(40)
      <4>3. F[e[n].right] <= e[n].right
        BY <2>4, <3>1
      <4>7. F[n] \in Int /\ F[a] \in Int /\ e[n].left \in Int /\ e[n].right \in Int
        BY <2>2, <3>1
      <4>8. e[n].right + 1 <= F[a] /\ e[n].left + 1 <= e[n].right
        BY <4>1, <4>3, <4>6
      <4>4. F[n] <= F[a]
        BY <4>2, <4>7, <4>8
      <4> QED
        BY <2>1, <4>4
    <3> QED
      BY <2>2, <3>1, <3>2, <3>3, <3>4
  <2> QED
    BY <1>1, <2>2, <2>5, <2>6, <2>7, <2>8
<1>3. b \in a .. Len(e) /\ b \notin bad
  BY <1>2
<1> QED
  BY <1>3 DEF F


(* What post-order comes to.                                               *)
Tree(e) ==
    /\ Len(e) \in Nat \ {0} /\ DOMAIN e = 1 .. Len(e) /\ Shape(e) /\ First(e)[Len(e)] = 1
    /\ \A n \in 1 .. Len(e) : e[n] \in Nodes(Name)

LEMMA TreeFacts ==
    ASSUME NEW e \in Seq(Nodes(Name)), PostOrder(e)
    PROVE  Tree(e)
BY ShapeFacts DEF Tree

(* Of two expressions that share a node, one is in the other.              *)
LEMMA Overlap ==
    ASSUME NEW e, Tree(e), NEW a \in 1 .. Len(e), NEW b \in 1 .. Len(e), NEW c \in 1 .. Len(e),
           Under(e, a, b), Under(e, a, c), b <= c
    PROVE  First(e)[c] <= First(e)[b] /\ Under(e, b, c)
<1>1. First(e)[c] <= First(e)[b] \/ b < First(e)[c]
  BY Nested DEF Tree
<1>2. First(e)[b] \in 1 .. b /\ First(e)[c] \in 1 .. c
  BY DEF Tree, Shape
<1> QED
  BY <1>1, <1>2 DEF Under

(* Node n is an operand of m, which is not a CASE.                         *)
Child(e, n, m) ==
    \/ e[m].kind \in Unary \cup Binary /\ n = e[m].left
    \/ e[m].kind \in Binary /\ n = e[m].right

(* Every node but the root is an operand of the first that is over it.     *)
LEMMA Parent ==
    ASSUME NEW e, Tree(e), NEW n \in 1 .. Len(e), n # Len(e)
    PROVE  \E m \in n + 1 .. Len(e) :
              /\ Under(e, n, m) /\ \A q \in n + 1 .. Len(e) : Under(e, n, q) => m <= q
              /\ e[m].kind # "case" => Child(e, n, m)
<1> DEFINE F == First(e)
           above == {q \in n + 1 .. Len(e) : Under(e, n, q)}
<1>1. Len(e) \in above
  <2>1. Len(e) \in Nat /\ F[Len(e)] = 1
    BY DEF Tree
  <2> QED
    BY <2>1 DEF Under
<1>2. above \in SUBSET Nat
  OBVIOUS
<1>3. PICK m \in above : \A q \in above : m <= q
  BY <1>1, <1>2, LeastNat
<1>4. m \in 1 .. Len(e) /\ n < m /\ F[m] <= n /\ n \in Int /\ m \in Int
  BY DEF Under
<1>5. \A q \in 1 .. m - 1 : n < q => n < F[q] \/ F[q] \notin Int
  <2> SUFFICES ASSUME NEW q \in 1 .. m - 1, n < q, ~ (n < F[q]), F[q] \in Int PROVE FALSE
    OBVIOUS
  <2>1. q \in above
    BY <1>4 DEF Under
  <2> QED
    BY <1>3, <1>4, <2>1
<1>6. /\ F[m] \in 1 .. m /\ HasOperands(e, m)
      /\ e[m].kind \in Nullary \cup Unary \cup Binary \cup {"case"}
      /\ e[m].kind \in Nullary => F[m] = m
      /\ e[m].kind \in Unary => e[m].left = m - 1 /\ F[m] = F[m - 1]
      /\ e[m].kind \in Binary => /\ e[m].right = m - 1 /\ e[m].left = F[m - 1] - 1
                                 /\ F[m] = F[e[m].left]
  BY <1>4, Zenon DEF Tree, Shape
<1>7. \A q \in 1 .. m - 1 : F[q] \in 1 .. q
  <2>1. \A q \in 1 .. Len(e) : F[q] \in 1 .. q
    BY Zenon DEF Tree, Shape
  <2>2. \A q \in 1 .. m - 1 : q \in 1 .. Len(e)
    BY <1>4
  <2> QED
    BY <2>1, <2>2, Zenon
<1>8. Nullary \cap (Unary \cup Binary) = {}
  BY DEF Nullary, Unary, Binary
<1> HIDE DEF above, F
<1>9. CASE e[m].kind \in Unary
  <2>1. n = m - 1
    BY <1>4, <1>5, <1>6, <1>7, <1>9
  <2> QED
    BY <1>3, <1>6, <1>9, <2>1 DEF Child, above
<1>10. CASE e[m].kind \in Binary
  <2>1. e[m].left \in 1 .. m - 1 /\ m - 1 \in 1 .. m - 1
    BY <1>4, <1>6, <1>8, <1>10 DEF HasOperands
  <2>2. CASE n <= e[m].left
    <3>1. n = e[m].left
      BY <1>4, <1>5, <1>6, <1>7, <1>10, <2>1, <2>2
    <3> QED
      BY <1>3, <1>10, <3>1 DEF Child, above
  <2>3. CASE e[m].left < n
    <3>1. F[m - 1] <= n
      BY <1>4, <1>6, <1>7, <1>10, <2>1, <2>3
    <3>2. n = m - 1
      BY <1>4, <1>5, <1>7, <2>1, <3>1
    <3> QED
      BY <1>3, <1>6, <1>10, <3>2 DEF Child, above
  <2> QED
    BY <1>4, <2>1, <2>2, <2>3
<1>11. CASE e[m].kind \in Nullary
  BY <1>4, <1>6, <1>11
<1>12. CASE e[m].kind = "case"
  BY <1>3, <1>12 DEF above
<1> QED
  BY <1>6, <1>9, <1>10, <1>11, <1>12

(* The operands of a node are within it.                                   *)
LEMMA Operands ==
    ASSUME NEW e, Tree(e), NEW m \in 1 .. Len(e), NEW n, Child(e, n, m)
    PROVE  n \in 1 .. Len(e) /\ n < m /\ Under(e, n, m)
<1>1. /\ First(e)[m] \in 1 .. m /\ HasOperands(e, m)
      /\ e[m].kind \in Unary => e[m].left = m - 1 /\ First(e)[m] = First(e)[m - 1]
      /\ e[m].kind \in Binary => /\ e[m].right = m - 1 /\ e[m].left = First(e)[m - 1] - 1
                                 /\ First(e)[m] = First(e)[e[m].left]
  BY Zenon DEF Tree, Shape
<1>2. \A q \in 1 .. m - 1 : First(e)[q] \in 1 .. q
  BY DEF Tree, Shape
<1>3. Nullary \cap (Unary \cup Binary) = {}
  BY DEF Nullary, Unary, Binary
<1>4. CASE e[m].kind \in Unary /\ n = e[m].left
  <2>1. n \in 1 .. m - 1 /\ n = m - 1
    BY <1>1, <1>3, <1>4 DEF HasOperands
  <2> QED
    BY <1>1, <1>2, <1>4, <2>1 DEF Under
<1>5. CASE e[m].kind \in Binary /\ n \in {e[m].left, e[m].right}
  <2>1. e[m].left \in 1 .. m - 1 /\ e[m].right \in 1 .. m - 1 /\ e[m].right = m - 1
    BY <1>1, <1>3, <1>5 DEF HasOperands
  <2>2. First(e)[m] <= e[m].left /\ First(e)[m] <= e[m].right
    BY <1>1, <1>2, <1>5, <2>1
  <2> QED
    BY <1>1, <1>5, <2>1, <2>2 DEF Under
<1> QED
  BY <1>4, <1>5 DEF Child

-----------------------------------------------------------------------------
(* The top of a predicate and its leaves.                                  *)

LeavesOf(e) == {n \in TopsOf(e) : e[n].kind # "logical"}

LEMMA RootIsTop ==
    ASSUME NEW e, Tree(e)
    PROVE  Len(e) \in TopsOf(e) /\ TopsOf(e) \subseteq 1 .. Len(e)
BY DEF TopsOf, Tree

LEMMA ChildIsTop ==
    ASSUME NEW e, Tree(e), NEW p \in TopsOf(e), e[p].kind = "logical", NEW n, Child(e, n, p)
    PROVE  n \in TopsOf(e) /\ n < p
<1> DEFINE F == First(e)
<1>1. p \in 1 .. Len(e) /\ p \in Int /\ Len(e) \in Int /\ DOMAIN e = 1 .. Len(e)
  BY DEF TopsOf, Tree
<1>2. n \in 1 .. Len(e) /\ n < p /\ Under(e, n, p) /\ n \in Int
  BY <1>1, Operands
<1>3. /\ e[p].right = p - 1 /\ e[p].left = F[p - 1] - 1 /\ HasOperands(e, p)
      /\ n \in {e[p].left, e[p].right} /\ e[p].kind \notin Nullary /\ e[p].kind \in Binary
  BY <1>1 DEF Tree, Shape, Child, Unary, Binary, Nullary
<1>4. ASSUME NEW q \in n + 1 .. Len(e), Under(e, n, q)
      PROVE  e[q].kind = "logical"
  <2>1. q \in 1 .. Len(e) /\ n < q /\ F[q] <= n /\ q \in Int
    BY <1>2, <1>4 DEF Under
  <2>2. CASE q = p
    BY <2>2
  <2>3. CASE p < q
    <3>1. Under(e, p, q)
      BY <1>1, <1>2, <1>4, <2>1, <2>3, Overlap
    <3>2. q \in p + 1 .. Len(e)
      BY <1>1, <2>1, <2>3
    <3> QED
      BY <3>1, <3>2 DEF TopsOf
  <2>4. CASE q < p
    <3>1. p - 1 \in 1 .. Len(e) /\ q <= p - 1
      BY <1>1, <2>1, <2>4
    <3>2. F[p - 1] <= F[q] \/ q < F[p - 1]
      BY <2>1, <3>1, Nested DEF Tree
    <3>3. F[p - 1] \in Int /\ F[q] \in Int
      BY <2>1, <3>1 DEF Tree, Shape
    <3>4. n = e[p].left
      BY <1>3, <2>1, <3>1
    <3> HIDE DEF F
    <3>5. n = F[p - 1] - 1
      BY <1>3, <3>4
    <3> QED
      BY <1>2, <2>1, <3>2, <3>3, <3>5
  <2> QED
    BY <1>1, <2>1, <2>2, <2>3, <2>4
<1> QED
  BY <1>1, <1>2, <1>4 DEF TopsOf

(* No node is in two leaves.                                               *)
LEMMA LeafUnique ==
    ASSUME NEW e, Tree(e), NEW n \in 1 .. Len(e), NEW l \in LeavesOf(e), NEW m \in TopsOf(e),
           Under(e, n, l), Under(e, n, m), m <= l
    PROVE  m = l
<1>1. l \in 1 .. Len(e) /\ m \in 1 .. Len(e) /\ Len(e) \in Int
  BY DEF LeavesOf, TopsOf, Tree
<1>2. Under(e, m, l)
  BY <1>1, Overlap
<1>3. m < l => l \in m + 1 .. Len(e)
  BY <1>1
<1>4. m < l => e[l].kind = "logical"
  BY <1>2, <1>3 DEF TopsOf
<1> QED
  BY <1>1, <1>4 DEF LeavesOf

(* A node that is not AND or OR at the top is in a leaf.                   *)
LEMMA LeafExists ==
    ASSUME NEW e, Tree(e), NEW n \in 1 .. Len(e), ~ (n \in TopsOf(e) /\ e[n].kind = "logical")
    PROVE  \E l \in LeavesOf(e) : Under(e, n, l)
<1>1. CASE n \in TopsOf(e)
  <2>1. Under(e, n, n)
    BY DEF Tree, Shape, Under
  <2> QED
    BY <1>1, <2>1 DEF LeavesOf
<1>2. CASE n \notin TopsOf(e)
  <2> DEFINE over == {p \in n + 1 .. Len(e) : Under(e, n, p) /\ e[p].kind # "logical"}
  <2>0. DOMAIN e = 1 .. Len(e) /\ Len(e) \in Nat
    BY DEF Tree
  <2>1. over # {}
    BY <1>2, <2>0 DEF TopsOf
  <2>2. over \in SUBSET Nat /\ \A y \in over : y <= Len(e)
    BY <2>0
  <2>3. PICK p \in over : \A q \in over : q <= p
    BY <2>0, <2>1, <2>2, GreatestNat
  <2>4. p \in 1 .. Len(e) /\ n < p /\ Under(e, n, p) /\ e[p].kind # "logical"
    BY <2>0
  <2>5. ASSUME NEW q \in p + 1 .. Len(e), Under(e, p, q)
        PROVE  e[q].kind = "logical"
    <3>1. q \in 1 .. Len(e) /\ p < q
      BY <2>0, <2>4
    <3>2. First(e)[q] <= First(e)[p]
      <4>1. Under(e, p, p)
        BY <2>4 DEF Under, Tree, Shape
      <4> QED
        BY <2>4, <2>5, <3>1, <4>1, Overlap
    <3>3. Under(e, n, q)
      BY <2>4, <3>1, <3>2 DEF Under, Tree, Shape
    <3>4. q \in n + 1 .. Len(e)
      BY <2>0, <2>4, <3>1
    <3>5. q \in over => q <= p
      BY <2>3
    <3> QED
      BY <2>4, <3>1, <3>3, <3>4, <3>5
  <2>6. p \in TopsOf(e)
    BY <2>0, <2>4, <2>5 DEF TopsOf
  <2> QED
    BY <2>4, <2>6 DEF LeavesOf
<1> QED
  BY <1>1, <1>2

(* What LeafOf says of every node.                                         *)
LEMMA LeafFacts ==
    ASSUME NEW e, Tree(e)
    PROVE  /\ LeafOf(e) \in [1 .. Len(e) -> 0 .. Len(e)]
           /\ \A n \in 1 .. Len(e) : LeafOf(e)[n] = 0 <=> n \in TopsOf(e) /\ e[n].kind = "logical"
           /\ \A n \in 1 .. Len(e) : LeafOf(e)[n] # 0 =>
                LeafOf(e)[n] \in LeavesOf(e) /\ Under(e, n, LeafOf(e)[n])
           /\ \A l \in LeavesOf(e) : \A n \in 1 .. Len(e) : Under(e, n, l) => LeafOf(e)[n] = l
           /\ \A n \in 1 .. Len(e) : LeafOf(e)[n] = n <=> n \in LeavesOf(e)
<1> DEFINE at(n) == CHOOSE l \in LeavesOf(e) : Under(e, n, l)
           L == LeafOf(e)
           and(n) == n \in TopsOf(e) /\ e[n].kind = "logical"
<1>1. DOMAIN e = 1 .. Len(e) /\ Len(e) \in Nat /\ LeavesOf(e) \subseteq 1 .. Len(e)
  BY DEF Tree, LeavesOf, TopsOf
<1>2. /\ DOMAIN L = 1 .. Len(e)
      /\ \A n \in 1 .. Len(e) : (and(n) => L[n] = 0) /\ (~ and(n) => L[n] = at(n))
  BY <1>1 DEF LeafOf, LeavesOf
<1>3. L = [n \in 1 .. Len(e) |-> L[n]]
  BY <1>1 DEF LeafOf
<1>4. ASSUME NEW n \in 1 .. Len(e), ~ and(n)
      PROVE  L[n] \in LeavesOf(e) /\ Under(e, n, L[n]) /\ L[n] # 0 /\ L[n] \in 1 .. Len(e)
  <2>1. at(n) \in LeavesOf(e) /\ Under(e, n, at(n))
    BY <1>4, LeafExists
  <2> HIDE DEF at, L
  <2> QED
    BY <1>1, <1>2, <1>4, <2>1
<1>5. ASSUME NEW l \in LeavesOf(e), NEW n \in 1 .. Len(e), Under(e, n, l)
      PROVE  ~ and(n) /\ L[n] = l
  <2>1. l \in 1 .. Len(e) /\ n <= l /\ l \in TopsOf(e) /\ e[l].kind # "logical"
    BY <1>1, <1>5 DEF Under, LeavesOf
  <2>2. ~ and(n)
    <3>1. Under(e, n, n)
      BY DEF Tree, Shape, Under
    <3> QED
      BY <1>5, <2>1, <3>1, LeafUnique
  <2>3. L[n] \in LeavesOf(e) /\ Under(e, n, L[n]) /\ L[n] \in 1 .. Len(e)
    BY <1>4, <2>2
  <2>4. L[n] <= l \/ l <= L[n]
    BY <2>1, <2>3
  <2>5. L[n] \in TopsOf(e)
    BY <2>3 DEF LeavesOf
  <2> HIDE DEF L
  <2> QED
    BY <1>5, <2>1, <2>2, <2>3, <2>4, <2>5, LeafUnique
<1>6. ASSUME NEW n \in 1 .. Len(e)
      PROVE  L[n] = n <=> n \in LeavesOf(e)
  <2>1. Under(e, n, n)
    BY DEF Tree, Shape, Under
  <2>2. and(n) => L[n] = 0 /\ n \notin LeavesOf(e)
    BY <1>2 DEF LeavesOf
  <2> HIDE DEF L, and
  <2> QED
    BY <1>4, <1>5, <2>1, <2>2
<1> HIDE DEF L, and
<1>7. L \in [1 .. Len(e) -> 0 .. Len(e)]
  <2>1. \A n \in 1 .. Len(e) : L[n] \in 0 .. Len(e)
    BY <1>1, <1>2, <1>4
  <2>2. L = [n \in 1 .. Len(e) |-> L[n]]
    BY <1>3
  <2> QED
    BY <2>1, <2>2, Zenon
<1> QED
  BY <1>2, <1>4, <1>5, <1>6, <1>7, Zenon DEF L, and

(* The ANDs whose right operand a node is part of.                         *)
AndsOver(e, t) ==
    {p \in TopsOf(e) : e[p].kind = "logical" /\ e[p].op = "AND" /\ Under(e, t, e[p].right)}

(* The operands of AND and OR.                                             *)
LEMMA Sides ==
    ASSUME NEW e, Tree(e), NEW p \in TopsOf(e), e[p].kind = "logical"
    PROVE  /\ p \in 1 .. Len(e) /\ e[p].op \in {"AND", "OR"}
           /\ e[p].left \in TopsOf(e) /\ e[p].right \in TopsOf(e)
           /\ e[p].left \in 1 .. p - 1 /\ e[p].right \in 1 .. p - 1
           /\ e[p].right = p - 1 /\ First(e)[e[p].right] = e[p].left + 1
           /\ First(e)[p] <= e[p].left
<1>1. p \in 1 .. Len(e) /\ e[p] \in Nodes(Name)
  BY DEF TopsOf, Tree
<1>2. e[p].kind \in Binary /\ e[p].kind \notin Nullary
  BY DEF Binary, Nullary
<1>3. Child(e, e[p].left, p) /\ Child(e, e[p].right, p)
  BY <1>2 DEF Child
<1>4. /\ e[p].right = p - 1 /\ e[p].left = First(e)[p - 1] - 1 /\ HasOperands(e, p)
  BY <1>1, <1>2 DEF Tree, Shape
<1>5. e[p].left \in 1 .. p - 1 /\ e[p].right \in 1 .. p - 1
  BY <1>2, <1>4 DEF HasOperands
<1>6. p - 1 \in 1 .. Len(e)
  BY <1>1, <1>4, <1>5 DEF Tree
<1>7. First(e)[p - 1] \in Int
  BY <1>6 DEF Tree, Shape
<1>8. First(e)[p] <= e[p].left
  BY <1>1, <1>3, Operands DEF Under
<1>9. e[p].op \in {"AND", "OR"}
  BY <1>1, NodeFacts
<1>10. e[p].left \in TopsOf(e) /\ e[p].right \in TopsOf(e)
  BY <1>3, ChildIsTop
<1>11. First(e)[e[p].right] = e[p].left + 1
  BY <1>4, <1>7
<1> QED
  BY <1>1, <1>4, <1>5, <1>8, <1>9, <1>10, <1>11

LEMMA AndOver ==
    ASSUME NEW e, Tree(e), NEW t \in 1 .. Len(e), NEW q \in AndsOver(e, t)
    PROVE  /\ q \in TopsOf(e) /\ e[q].kind = "logical" /\ e[q].op = "AND"
           /\ e[q].left < First(e)[t] /\ t < q
<1>1. /\ q \in TopsOf(e) /\ e[q].kind = "logical" /\ e[q].op = "AND" /\ Under(e, t, e[q].right)
  BY DEF AndsOver
<1>2. /\ q \in 1 .. Len(e) /\ e[q].right \in 1 .. q - 1 /\ e[q].right = q - 1 /\ e[q].left \in Int
      /\ First(e)[e[q].right] = e[q].left + 1
  BY <1>1, Sides
<1>3. e[q].right \in 1 .. Len(e)
  BY <1>2 DEF Tree
<1>4. First(e)[t] \in 1 .. t /\ First(e)[e[q].right] \in Int
  BY <1>3 DEF Tree, Shape
<1>5. First(e)[e[q].right] <= First(e)[t]
  <2>1. Under(e, t, t) /\ t <= e[q].right
    BY <1>1, <1>4 DEF Under
  <2> QED
    BY <1>1, <1>3, <2>1, Overlap
<1>6. t <= e[q].right
  BY <1>1 DEF Under
<1> QED
  BY <1>1, <1>2, <1>4, <1>5, <1>6

LEMMA AndsOverRoot ==
    ASSUME NEW e, Tree(e)
    PROVE  AndsOver(e, Len(e)) = {}
<1>1. Len(e) \in 1 .. Len(e) /\ Len(e) \in Nat
  BY DEF Tree
<1>2. \A q \in AndsOver(e, Len(e)) : Len(e) < q /\ q \in 1 .. Len(e)
  BY <1>1, AndOver, RootIsTop
<1> QED
  BY <1>1, <1>2

(* A node whose operand is in the right one of an AND is so itself.        *)
LEMMA AndsOverSide ==
    ASSUME NEW e, Tree(e), NEW p \in TopsOf(e), e[p].kind = "logical",
           NEW n \in {e[p].left, e[p].right}, n = e[p].right => e[p].op = "OR"
    PROVE  AndsOver(e, n) = AndsOver(e, p)
<1> DEFINE F == First(e)
<1>1. /\ p \in 1 .. Len(e) /\ e[p].left \in 1 .. p - 1 /\ e[p].right \in 1 .. p - 1
      /\ e[p].right = p - 1 /\ F[e[p].right] = e[p].left + 1 /\ F[p] <= e[p].left
  BY Sides
<1>2. n \in 1 .. Len(e) /\ p - 1 \in 1 .. Len(e) /\ Len(e) \in Nat
  BY <1>1 DEF Tree
<1>3. \A m \in 1 .. Len(e) : F[m] \in 1 .. m
  BY DEF Tree, Shape
<1>4. ASSUME NEW q \in AndsOver(e, p)
      PROVE  q \in AndsOver(e, n)
  <2>1. /\ q \in TopsOf(e) /\ e[q].kind = "logical" /\ e[q].op = "AND" /\ Under(e, p, e[q].right)
    BY DEF AndsOver
  <2>2. q \in 1 .. Len(e) /\ e[q].right \in 1 .. q - 1
    BY <2>1, Sides
  <2>3. e[q].right \in 1 .. Len(e)
    BY <2>2 DEF Tree
  <2>4. F[e[q].right] <= F[p]
    <3>1. Under(e, p, p) /\ p <= e[q].right
      BY <1>1, <1>3, <2>1 DEF Under
    <3> QED
      BY <1>1, <2>1, <2>3, <3>1, Overlap
  <2>5. p <= e[q].right
    BY <2>1 DEF Under
  <2>6. F[e[q].right] <= n /\ n <= e[q].right
    BY <1>1, <1>2, <1>3, <2>2, <2>3, <2>4, <2>5, SMTT(40)
  <2> QED
    BY <2>1, <2>6 DEF AndsOver, Under
<1>5. ASSUME NEW q \in AndsOver(e, n)
      PROVE  q \in AndsOver(e, p)
  <2>1. /\ q \in TopsOf(e) /\ e[q].kind = "logical" /\ e[q].op = "AND" /\ Under(e, n, e[q].right)
    BY DEF AndsOver
  <2>2. q \in 1 .. Len(e) /\ e[q].right \in 1 .. q - 1 /\ e[q].right = q - 1 /\ F[q] <= e[q].left
        /\ e[q].left \in 1 .. q - 1 /\ F[e[q].right] = e[q].left + 1
    BY <2>1, Sides
  <2>3. e[q].right \in 1 .. Len(e)
    BY <2>2 DEF Tree
  <2>4. F[e[q].right] <= n /\ n <= e[q].right
    BY <2>1 DEF Under
  <2> HIDE DEF F
  <2>5. q # p
    <3>1. n = e[p].right => q # p
      BY <2>1
    <3>2. n = e[p].left => q # p
      BY <1>1, <1>3, <2>3, <2>4
    <3> QED
      BY <3>1, <3>2
  <2>6. ~ (q < p)
    <3> SUFFICES ASSUME q < p PROVE FALSE
      OBVIOUS
    <3>1. n = e[p].left
      BY <1>1, <1>2, <2>2, <2>4
    <3>2. F[p - 1] = n + 1 /\ n < q /\ q <= p - 1 /\ F[q] < n
      BY <1>1, <1>3, <2>2, <2>3, <2>4, <3>1
    <3>3. F[p - 1] <= F[q] \/ q < F[p - 1]
      BY <1>2, <2>2, <3>2, Nested DEF F, Tree
    <3> QED
      BY <1>2, <1>3, <2>2, <3>2, <3>3
  <2>7. Under(e, p, e[q].right)
    BY <1>1, <1>2, <1>3, <2>2, <2>3, <2>4, <2>5, <2>6 DEF Under, F
  <2> QED
    BY <2>1, <2>7 DEF AndsOver
<1> QED
  BY <1>4, <1>5

(* The innermost AND over its own right operand is that AND.               *)
LEMMA AndsOverRight ==
    ASSUME NEW e, Tree(e), NEW p \in TopsOf(e), e[p].kind = "logical", e[p].op = "AND"
    PROVE  AndsOver(e, e[p].right) # {} /\ Min(AndsOver(e, e[p].right)) = p
<1> DEFINE S == AndsOver(e, e[p].right)
<1>1. p \in 1 .. Len(e) /\ e[p].right \in 1 .. p - 1 /\ e[p].right = p - 1
  BY Sides
<1>2. e[p].right \in 1 .. Len(e)
  BY <1>1 DEF Tree
<1>3. p \in S
  BY <1>2 DEF AndsOver, Under, Tree, Shape
<1>4. \A q \in S : e[p].right < q /\ q \in 1 .. Len(e)
  BY <1>2, AndOver, RootIsTop
<1> HIDE DEF S
<1>5. \A q \in S : p <= q /\ (q <= p => q = p)
  BY <1>1, <1>4
<1>6. Min(S) = p
  BY <1>3, <1>5 DEF Min
<1> QED
  BY <1>3, <1>6 DEF S

LEMMA MinIn ==
    ASSUME NEW S \in SUBSET Nat, S # {}
    PROVE  Min(S) \in S
BY LeastNat DEF Min

-----------------------------------------------------------------------------
(* Selections: ascending sequences of rows.                                *)

Increasing(s) == \A i, j \in DOMAIN s : i < j => s[i] < s[j]

LEMMA AppendIncreasing ==
    ASSUME NEW N \in Nat, NEW s \in Seq(1 .. N), Increasing(s), NEW k \in 1 .. N,
           \A x \in Range(s) : x < k
    PROVE  /\ Append(s, k) \in Seq(1 .. N) /\ Increasing(Append(s, k))
           /\ Range(Append(s, k)) = Range(s) \cup {k}
<1> DEFINE t == Append(s, k)
<1>1. /\ t \in Seq(1 .. N) /\ Len(s) \in Nat /\ DOMAIN s = 1 .. Len(s) /\ DOMAIN t = 1 .. Len(s) + 1
      /\ \A i \in 1 .. Len(s) : t[i] = s[i]
      /\ t[Len(s) + 1] = k
  OBVIOUS
<1>2. \A i \in 1 .. Len(s) : s[i] < k
  BY <1>1 DEF Range
<1> HIDE DEF t
<1>3. ASSUME NEW i \in DOMAIN t, NEW j \in DOMAIN t, i < j PROVE t[i] < t[j]
  <2>1. i \in 1 .. Len(s) /\ j \in 1 .. Len(s) + 1
    BY <1>1, <1>3
  <2>2. CASE j = Len(s) + 1
    BY <1>1, <1>2, <2>1, <2>2
  <2>3. CASE j # Len(s) + 1
    <3>1. j \in 1 .. Len(s)
      BY <1>1, <2>1, <2>3
    <3> QED
      BY <1>1, <1>3, <2>1, <3>1 DEF Increasing
  <2> QED
    BY <2>2, <2>3
<1>4. Range(t) = Range(s) \cup {k}
  <2>1. Range(t) \subseteq Range(s) \cup {k}
    <3> SUFFICES ASSUME NEW i \in DOMAIN t PROVE t[i] \in Range(s) \cup {k}
      BY DEF Range
    <3>1. i \in 1 .. Len(s) \/ i = Len(s) + 1
      BY <1>1
    <3> QED
      BY <1>1, <3>1 DEF Range
  <2>2. Range(s) \subseteq Range(t)
    <3> SUFFICES ASSUME NEW i \in DOMAIN s PROVE s[i] \in Range(t)
      BY DEF Range
    <3>1. i \in DOMAIN t /\ t[i] = s[i]
      BY <1>1
    <3> QED
      BY <3>1 DEF Range
  <2>3. k \in Range(t)
    <3>1. Len(s) + 1 \in DOMAIN t
      BY <1>1
    <3> QED
      BY <1>1, <3>1 DEF Range
  <2> QED
    BY <2>1, <2>2, <2>3
<1> QED
  BY <1>1, <1>3, <1>4 DEF Increasing, t

(* Every set of rows has an ascending enumeration.                         *)
LEMMA AscendingFacts ==
    ASSUME NEW N \in Nat, NEW S \in SUBSET (1 .. N)
    PROVE  Ascending(S) \in Seq(1 .. N) /\ Increasing(Ascending(S)) /\ Range(Ascending(S)) = S
<1> DEFINE Listed(k) == \E s \in Seq(1 .. N) : Increasing(s) /\ Range(s) = {x \in S : x <= k}
           Open == {k \in 0 .. N : ~ Listed(k)}
<1>0. \A x \in S : x \in Int /\ 1 <= x /\ x <= N
  OBVIOUS
<1>1. Listed(0)
  <2>1. {x \in S : x <= 0} = {}
    <3>1. \A x \in S : ~ (x <= 0)
      BY <1>0
    <3> QED
      BY <3>1
  <2>2. << >> \in Seq(1 .. N) /\ Increasing(<< >>) /\ Range(<< >>) = {}
    BY DEF Increasing, Range
  <2> QED
    BY <2>1, <2>2
<1>2. ASSUME NEW k \in 1 .. N, Listed(k - 1)
      PROVE  Listed(k)
  <2>1. PICK s \in Seq(1 .. N) : Increasing(s) /\ Range(s) = {x \in S : x <= k - 1}
    BY <1>2
  <2>2. CASE k \notin S
    <3>1. {x \in S : x <= k - 1} = {x \in S : x <= k}
      <4>1. \A x \in S : x <= k - 1 <=> x <= k
        BY <1>0, <2>2
      <4> QED
        BY <4>1
    <3> QED
      BY <2>1, <3>1
  <2>3. CASE k \in S
    <3>1. {x \in S : x <= k} = {x \in S : x <= k - 1} \cup {k}
      <4>1. \A x \in S : x <= k <=> x <= k - 1 \/ x = k
        BY <1>0, <2>3
      <4> QED
        BY <2>3, <4>1
    <3>2. \A x \in Range(s) : x < k
      <4>1. \A x \in Range(s) : x \in S /\ x <= k - 1
        BY <2>1
      <4> SUFFICES ASSUME NEW x \in Range(s) PROVE x < k
        OBVIOUS
      <4>2. x \in S /\ x <= k - 1
        BY <4>1, Zenon
      <4>3. x \in Int /\ k \in Int
        BY <1>0, <4>2
      <4> QED
        BY <4>2, <4>3
    <3>3. Append(s, k) \in Seq(1 .. N) /\ Increasing(Append(s, k)) /\ Range(Append(s, k)) = Range(s) \cup {k}
      BY <2>1, <3>2, AppendIncreasing
    <3> QED
      BY <2>1, <3>1, <3>3
  <2> QED
    BY <2>2, <2>3
<1>3. Open = {}
  <2> SUFFICES ASSUME Open # {} PROVE FALSE
    OBVIOUS
  <2>0. Open \in SUBSET Nat
    OBVIOUS
  <2> HIDE DEF Listed
  <2>1. PICK k \in Open : \A l \in Open : k <= l
    BY <2>0, LeastNat
  <2>2. k \in 0 .. N /\ ~ Listed(k)
    OBVIOUS
  <2>3. k \in 1 .. N
    BY <1>1, <2>2
  <2>4. k - 1 \in 0 .. N /\ ~ (k <= k - 1)
    BY <2>3
  <2>5. Listed(k - 1)
    BY <2>1, <2>4
  <2> QED
    BY <1>2, <2>2, <2>3, <2>5
<1>4. PICK s \in Seq(1 .. N) : Increasing(s) /\ Range(s) = S
  <2>1. Listed(N)
    <3>1. N \in 0 .. N
      OBVIOUS
    <3> HIDE DEF Listed
    <3> QED
      BY <1>3, <3>1
  <2>2. {x \in S : x <= N} = S
    BY <1>0
  <2> QED
    BY <2>1, <2>2
<1>5. s \in SetToSeqs(S) /\ \A i, j \in DOMAIN s : i < j => s[i] < s[j]
  <2>1. Len(s) \in Nat /\ DOMAIN s = 1 .. Len(s) /\ \A i \in 1 .. Len(s) : s[i] \in S
    BY <1>4 DEF Range
  <2>2. \A i, j \in 1 .. Len(s) : i # j => s[i] # s[j]
    <3> SUFFICES ASSUME NEW i \in 1 .. Len(s), NEW j \in 1 .. Len(s), i # j PROVE s[i] # s[j]
      OBVIOUS
    <3>1. i < j \/ j < i
      BY <2>1
    <3>2. s[i] < s[j] \/ s[j] < s[i]
      BY <1>4, <2>1, <3>1 DEF Increasing
    <3>3. s[i] \in Int /\ s[j] \in Int
      OBVIOUS
    <3> QED
      BY <3>2, <3>3
  <2>3. s \in Bijection(1 .. Len(s), S)
    <3>1. s \in [1 .. Len(s) -> S]
      BY <2>1
    <3>2. \A x \in S : \E i \in 1 .. Len(s) : s[i] = x
      BY <1>4, <2>1 DEF Range
    <3> QED
      BY <2>2, <3>1, <3>2 DEF Bijection, Injection, Surjection, IsInjective
  <2>4. Cardinality(S) = Len(s)
    BY <2>1, <2>3, FS_CountingElements DEF ExistsBijection
  <2>5. s \in [1 .. Len(s) -> S]
    BY <2>1
  <2> QED
    BY <1>4, <2>2, <2>4, <2>5 DEF SetToSeqs, Increasing
<1> DEFINE a == Ascending(S)
<1>6. a \in SetToSeqs(S) /\ \A i, j \in DOMAIN a : i < j => a[i] < a[j]
  BY <1>5 DEF Ascending
<1> HIDE DEF a
<1>7. IsFiniteSet(S)
  <2>1. IsFiniteSet(1 .. N)
    BY FS_Interval
  <2> QED
    BY <2>1, FS_Subset
<1>8. Cardinality(S) \in Nat
  BY <1>7, FS_CardinalityType
<1>9. a \in [1 .. Cardinality(S) -> S] /\ \A i, j \in 1 .. Cardinality(S) : i # j => a[i] # a[j]
  BY <1>6 DEF SetToSeqs
<1>10. a \in Seq(1 .. N)
  <2>1. a \in [1 .. Cardinality(S) -> 1 .. N]
    BY <1>9
  <2> QED
    BY <1>8, <2>1
<1>11. Range(a) = S
  <2> DEFINE n == Cardinality(S)
  <2>1. IsFiniteSet(1 .. n) /\ Cardinality(1 .. n) = n
    BY <1>8, FS_Interval
  <2>2. a \in Injection(1 .. n, S)
    BY <1>9 DEF Injection, IsInjective
  <2>3. a \in Surjection(1 .. n, S)
    BY <1>7, <2>1, <2>2, FS_Injection
  <2>4. \A x \in S : \E i \in 1 .. n : a[i] = x
    BY <2>3, Zenon DEF Surjection
  <2> HIDE DEF n
  <2>5. DOMAIN a = 1 .. n /\ \A i \in 1 .. n : a[i] \in S
    BY <1>9 DEF n
  <2> QED
    BY <2>4, <2>5, Zenon DEF Range
<1> QED
  BY <1>6, <1>10, <1>11 DEF Increasing, a

(* The rows from a position on.                                            *)
From(x, i) == {x[k] : k \in i .. Len(x)}

LEMMA PrependIncreasing ==
    ASSUME NEW N \in Nat, NEW s \in Seq(1 .. N), Increasing(s), NEW a \in 1 .. N,
           \A z \in Range(s) : a < z
    PROVE  /\ <<a>> \o s \in Seq(1 .. N) /\ Increasing(<<a>> \o s)
           /\ Range(<<a>> \o s) = {a} \cup Range(s)
<1> DEFINE t == <<a>> \o s
<1>1. /\ t \in Seq(1 .. N) /\ Len(s) \in Nat /\ DOMAIN s = 1 .. Len(s) /\ DOMAIN t = 1 .. Len(s) + 1
      /\ t[1] = a
  OBVIOUS
<1>2. \A i \in 1 .. Len(s) + 1 : i # 1 => i - 1 \in 1 .. Len(s) /\ t[i] = s[i - 1]
  OBVIOUS
<1>3. \A i \in 1 .. Len(s) : a < s[i]
  BY <1>1 DEF Range
<1> HIDE DEF t
<1>4. ASSUME NEW i \in DOMAIN t, NEW j \in DOMAIN t, i < j PROVE t[i] < t[j]
  <2>1. i \in 1 .. Len(s) + 1 /\ j \in 1 .. Len(s) + 1 /\ j # 1
    BY <1>1, <1>4
  <2>2. j - 1 \in 1 .. Len(s) /\ t[j] = s[j - 1]
    BY <1>2, <2>1
  <2>3. CASE i = 1
    BY <1>1, <1>3, <2>2, <2>3
  <2>4. CASE i # 1
    <3>1. i - 1 \in 1 .. Len(s) /\ t[i] = s[i - 1] /\ i - 1 < j - 1
      BY <1>2, <1>4, <2>1, <2>4
    <3> QED
      BY <1>1, <2>2, <3>1 DEF Increasing
  <2> QED
    BY <2>3, <2>4
<1>5. Range(t) = {a} \cup Range(s)
  <2>1. Range(t) \subseteq {a} \cup Range(s)
    <3> SUFFICES ASSUME NEW i \in DOMAIN t PROVE t[i] \in {a} \cup Range(s)
      BY DEF Range
    <3> QED
      BY <1>1, <1>2 DEF Range
  <2>2. Range(s) \subseteq Range(t)
    <3> SUFFICES ASSUME NEW i \in DOMAIN s PROVE s[i] \in Range(t)
      BY DEF Range
    <3>1. i + 1 \in 1 .. Len(s) + 1 /\ i + 1 # 1 /\ (i + 1) - 1 = i
      BY <1>1
    <3>2. i + 1 \in DOMAIN t /\ t[i + 1] = s[i]
      BY <1>1, <1>2, <3>1
    <3> QED
      BY <3>2 DEF Range
  <2>3. a \in Range(t)
    <3>1. 1 \in DOMAIN t
      BY <1>1
    <3> QED
      BY <1>1, <3>1 DEF Range
  <2> QED
    BY <2>1, <2>2, <2>3
<1> QED
  BY <1>1, <1>4, <1>5 DEF Increasing, t

LEMMA SuffixIncreasing ==
    ASSUME NEW N \in Nat, NEW s \in Seq(1 .. N), Increasing(s), NEW i \in 1 .. Len(s) + 1
    PROVE  /\ SubSeq(s, i, Len(s)) \in Seq(1 .. N) /\ Increasing(SubSeq(s, i, Len(s)))
           /\ Range(SubSeq(s, i, Len(s))) = From(s, i)
<1> DEFINE t == SubSeq(s, i, Len(s))
           m == Len(s) - i + 1
<1>1. Len(s) \in Nat /\ DOMAIN s = 1 .. Len(s) /\ m \in Nat /\ \A k \in 1 .. Len(s) : s[k] \in 1 .. N
  OBVIOUS
<1>2. t = [k \in 1 .. m |-> s[i + k - 1]]
  OBVIOUS
<1>3. \A k \in 1 .. m : i + k - 1 \in i .. Len(s) /\ i + k - 1 \in 1 .. Len(s)
  BY <1>1
<1> HIDE DEF t, m
<1>4. t \in Seq(1 .. N)
  <2>1. t \in [1 .. m -> 1 .. N]
    BY <1>1, <1>2, <1>3
  <2> QED
    BY <1>1, <2>1
<1>5. DOMAIN t = 1 .. m /\ \A k \in 1 .. m : t[k] = s[i + k - 1]
  BY <1>2
<1>6. Increasing(t)
  <2> SUFFICES ASSUME NEW k \in 1 .. m, NEW l \in 1 .. m, k < l PROVE t[k] < t[l]
    BY <1>5 DEF Increasing
  <2>1. i + k - 1 \in DOMAIN s /\ i + l - 1 \in DOMAIN s
    BY <1>1, <1>3
  <2>2. k \in Int /\ l \in Int /\ i \in Int
    OBVIOUS
  <2>3. i + k - 1 < i + l - 1
    BY <2>2
  <2> QED
    BY <1>5, <2>1, <2>3 DEF Increasing
<1>7. Range(t) = From(s, i)
  <2>1. ASSUME NEW k \in DOMAIN t PROVE t[k] \in From(s, i)
    BY <1>3, <1>5, <2>1 DEF From
  <2>2. ASSUME NEW k \in i .. Len(s) PROVE s[k] \in Range(t)
    <3>1. k - i + 1 \in 1 .. m /\ i + (k - i + 1) - 1 = k
      BY <1>1 DEF m
    <3>2. t[k - i + 1] = s[k]
      BY <1>5, <3>1
    <3> QED
      BY <1>5, <3>1, <3>2 DEF Range
  <2> QED
    BY <2>1, <2>2 DEF Range, From
<1> QED
  BY <1>4, <1>6, <1>7 DEF t

(* The rows from a position on are this one and those after it, all later. *)
LEMMA FromFacts ==
    ASSUME NEW N \in Nat, NEW s \in Seq(1 .. N), Increasing(s), NEW i \in 1 .. Len(s)
    PROVE  /\ From(s, i) = {s[i]} \cup From(s, i + 1) /\ s[i] \in 1 .. N
           /\ \A z \in From(s, i + 1) : s[i] < z
           /\ \A z \in From(s, i) : s[i] <= z
           /\ From(s, i) \subseteq 1 .. N
<1>1. Len(s) \in Nat /\ DOMAIN s = 1 .. Len(s) /\ \A k \in 1 .. Len(s) : s[k] \in 1 .. N
  OBVIOUS
<1>2. \A k \in i .. Len(s) : k = i \/ k \in i + 1 .. Len(s)
  BY <1>1
<1>3. i \in i .. Len(s) /\ \A k \in i + 1 .. Len(s) : k \in i .. Len(s)
  BY <1>1
<1>4. From(s, i) = {s[i]} \cup From(s, i + 1)
  BY <1>2, <1>3 DEF From
<1>5. \A k \in i + 1 .. Len(s) : s[i] < s[k]
  <2> SUFFICES ASSUME NEW k \in i + 1 .. Len(s) PROVE s[i] < s[k]
    OBVIOUS
  <2>1. i \in DOMAIN s /\ k \in DOMAIN s /\ i < k
    BY <1>1
  <2> QED
    BY <2>1 DEF Increasing
<1>6. \A z \in From(s, i + 1) : s[i] < z /\ z \in 1 .. N
  <2>1. \A k \in i + 1 .. Len(s) : s[k] \in 1 .. N
    BY <1>1
  <2> QED
    BY <1>5, <2>1 DEF From
<1>7. s[i] \in 1 .. N
  BY <1>1
<1>8. \A z \in From(s, i) : s[i] <= z
  <2> SUFFICES ASSUME NEW z \in From(s, i) PROVE s[i] <= z
    OBVIOUS
  <2>1. z = s[i] \/ z \in From(s, i + 1)
    BY <1>4
  <2>2. z \in From(s, i + 1) => s[i] < z /\ z \in 1 .. N
    BY <1>6
  <2> QED
    BY <1>7, <2>1, <2>2
<1> QED
  BY <1>4, <1>6, <1>7, <1>8

(* The merge of two selections holds the rows of both.                     *)
LEMMA UnionFacts ==
    ASSUME NEW N \in Nat, NEW x \in Seq(1 .. N), Increasing(x), NEW y \in Seq(1 .. N), Increasing(y)
    PROVE  Union(x, y) \in Seq(1 .. N) /\ Increasing(Union(x, y)) /\ Range(Union(x, y)) = Range(x) \cup Range(y)
<1> DEFINE A == 1 .. Len(x) + 1
           B == 1 .. Len(y) + 1
           V == Seq(1 .. N)
           At(i, j, f) ==
               IF i > Len(x) THEN SubSeq(y, j, Len(y))
               ELSE IF j > Len(y) THEN SubSeq(x, i, Len(x))
               ELSE IF x[i] < y[j] THEN <<x[i]>> \o f[<<i + 1, j>>]
               ELSE IF y[j] < x[i] THEN <<y[j]>> \o f[<<i, j + 1>>]
               ELSE <<x[i]>> \o f[<<i + 1, j + 1>>]
           mu == [p \in A \X B |-> (Len(x) + 1 - p[1]) + (Len(y) + 1 - p[2]) + 1]
           step == [z \in (A \X B) \X [A \X B -> V] |-> At(z[1][1], z[1][2], z[2])]
           Is(f) == f = [p \in A \X B |-> At(p[1], p[2], f)]
<1>1. /\ Len(x) \in Nat /\ Len(y) \in Nat
      /\ \A i \in 1 .. Len(x) : x[i] \in 1 .. N
      /\ \A j \in 1 .. Len(y) : y[j] \in 1 .. N
  OBVIOUS
<1>2. /\ mu \in [A \X B -> 1 .. Len(x) + Len(y) + 1]
      /\ \A i \in A, j \in B : mu[<<i, j>>] = (Len(x) + 1 - i) + (Len(y) + 1 - j) + 1
  <2>1. \A p \in A \X B : (Len(x) + 1 - p[1]) + (Len(y) + 1 - p[2]) + 1 \in 1 .. Len(x) + Len(y) + 1
    BY <1>1, SMTT(30)
  <2>2. \A i \in A, j \in B : <<i, j>> \in A \X B /\ <<i, j>>[1] = i /\ <<i, j>>[2] = j
    OBVIOUS
  <2> HIDE DEF A, B
  <2> QED
    BY <2>1, <2>2
<1> HIDE DEF mu
(* The entries that an entry looks at come after it.                       *)
<1>3. ASSUME NEW i \in 1 .. Len(x), NEW j \in 1 .. Len(y)
      PROVE  /\ <<i + 1, j>> \in A \X B /\ mu[<<i + 1, j>>] < mu[<<i, j>>]
             /\ <<i, j + 1>> \in A \X B /\ mu[<<i, j + 1>>] < mu[<<i, j>>]
             /\ <<i + 1, j + 1>> \in A \X B /\ mu[<<i + 1, j + 1>>] < mu[<<i, j>>]
  <2>1. i \in A /\ i + 1 \in A /\ j \in B /\ j + 1 \in B
    BY <1>1
  <2>2. <<i + 1, j>> \in A \X B /\ <<i, j + 1>> \in A \X B /\ <<i + 1, j + 1>> \in A \X B
    BY <2>1
  <2>3. /\ mu[<<i, j>>] = (Len(x) + 1 - i) + (Len(y) + 1 - j) + 1
        /\ mu[<<i + 1, j>>] = (Len(x) + 1 - (i + 1)) + (Len(y) + 1 - j) + 1
        /\ mu[<<i, j + 1>>] = (Len(x) + 1 - i) + (Len(y) + 1 - (j + 1)) + 1
        /\ mu[<<i + 1, j + 1>>] = (Len(x) + 1 - (i + 1)) + (Len(y) + 1 - (j + 1)) + 1
    BY <1>2, <2>1
  <2>4. Len(x) \in Int /\ Len(y) \in Int /\ i \in Int /\ j \in Int
    BY <1>1
  <2> HIDE DEF A, B
  <2>5. mu[<<i + 1, j>>] < mu[<<i, j>>]
    BY <2>3, <2>4, SMTT(30)
  <2>6. mu[<<i, j + 1>>] < mu[<<i, j>>]
    BY <2>3, <2>4, SMTT(30)
  <2>7. mu[<<i + 1, j + 1>>] < mu[<<i, j>>]
    BY <2>3, <2>4, SMTT(30)
  <2> QED
    BY <2>2, <2>5, <2>6, <2>7
<1>4. \A i \in A, j \in B, f \in [A \X B -> V] : step[<< <<i, j>>, f >>] = At(i, j, f)
  <2> SUFFICES ASSUME NEW i \in A, NEW j \in B, NEW f \in [A \X B -> V]
               PROVE  step[<< <<i, j>>, f >>] = At(i, j, f)
    OBVIOUS
  <2> DEFINE z == << <<i, j>>, f >>
  <2> HIDE DEF A, B, V, At
  <2>1. z \in (A \X B) \X [A \X B -> V] /\ z[1][1] = i /\ z[1][2] = j /\ z[2] = f
    OBVIOUS
  <2> HIDE DEF z
  <2>2. step[z] = At(i, j, f)
    BY <2>1
  <2> QED
    BY <2>2 DEF z
<1>5. ASSUME NEW i \in A, NEW j \in B, NEW f \in [A \X B -> V]
      PROVE  At(i, j, f) \in V
  <2>1. CASE i > Len(x)
    <3>1. SubSeq(y, j, Len(y)) \in V
      BY SuffixIncreasing
    <3> QED
      BY <2>1, <3>1
  <2>2. CASE ~ (i > Len(x)) /\ j > Len(y)
    <3>1. SubSeq(x, i, Len(x)) \in V
      BY SuffixIncreasing
    <3> QED
      BY <2>2, <3>1
  <2>3. CASE ~ (i > Len(x)) /\ ~ (j > Len(y))
    <3>1. i \in 1 .. Len(x) /\ j \in 1 .. Len(y)
      BY <1>1, <2>3
    <3>2. f[<<i + 1, j>>] \in V /\ f[<<i, j + 1>>] \in V /\ f[<<i + 1, j + 1>>] \in V
      BY <1>3, <3>1
    <3>3. \A a \in 1 .. N, s \in V : <<a>> \o s \in V
      OBVIOUS
    <3> HIDE DEF V
    <3> QED
      BY <1>1, <2>3, <3>1, <3>2, <3>3
  <2> QED
    BY <2>1, <2>2, <2>3
<1>6. step \in [(A \X B) \X [A \X B -> V] -> V]
  <2>1. \A p \in A \X B, f \in [A \X B -> V] : At(p[1], p[2], f) \in V
    BY <1>5, Zenon
  <2> HIDE DEF At
  <2> QED
    BY <2>1
<1>7. Local(A \X B, V, mu, step)
  <2> SUFFICES ASSUME NEW p \in A \X B, NEW f \in [A \X B -> V], NEW g \in [A \X B -> V],
                      \A m \in A \X B : mu[m] < mu[p] => f[m] = g[m]
               PROVE  step[<<p, f>>] = step[<<p, g>>]
    BY DEF Local
  <2>1. PICK i \in A, j \in B : p = <<i, j>>
    OBVIOUS
  <2>2. CASE i > Len(x) \/ j > Len(y)
    <3>1. At(i, j, f) = At(i, j, g)
      BY <2>2
    <3> HIDE DEF At, step, A, B, V
    <3>8. step[<< <<i, j>>, f >>] = At(i, j, f)
      BY <1>4
    <3>9. step[<< <<i, j>>, g >>] = At(i, j, g)
      BY <1>4
    <3> QED
      BY <2>1, <3>1, <3>8, <3>9, Zenon
  <2>3. CASE ~ (i > Len(x)) /\ ~ (j > Len(y))
    <3>1. i \in 1 .. Len(x) /\ j \in 1 .. Len(y)
      BY <1>1, <2>3, SMTT(40)
    <3>2. /\ f[<<i + 1, j>>] = g[<<i + 1, j>>] /\ f[<<i, j + 1>>] = g[<<i, j + 1>>]
          /\ f[<<i + 1, j + 1>>] = g[<<i + 1, j + 1>>]
      BY <1>3, <2>1, <3>1
    <3>3. At(i, j, f) = At(i, j, g)
      BY <3>2
    <3> HIDE DEF At, step, A, B, V
    <3>8. step[<< <<i, j>>, f >>] = At(i, j, f)
      BY <1>4
    <3>9. step[<< <<i, j>>, g >>] = At(i, j, g)
      BY <1>4
    <3> QED
      BY <2>1, <3>3, <3>8, <3>9, Zenon
  <2> QED
    BY <2>2, <2>3
<1> HIDE DEF step
<1>8. PICK f \in [A \X B -> V] : Solves(A \X B, f, step)
  <2>1. Len(x) + Len(y) + 1 \in Nat /\ << >> \in V
    BY <1>1
  <2> HIDE DEF A, B, V
  <2> QED
    BY <1>2, <1>6, <1>7, <2>1, Recursion
<1>9. \E h : Is(h)
  <2>1. \A i \in A, j \in B : f[<<i, j>>] = At(i, j, f)
    BY <1>4, <1>8 DEF Solves
  <2> HIDE DEF At
  <2>2. \A p \in A \X B : f[p] = At(p[1], p[2], f)
    BY <2>1
  <2> QED
    BY <2>2
<1>10. \E h : Union(x, y) = h[<<1, 1>>] /\ Is(h)
  BY <1>9 DEF Union
<1>11. PICK h : Union(x, y) = h[<<1, 1>>] /\ Is(h)
  BY <1>10
<1>12. \A i \in A, j \in B : h[<<i, j>>] = At(i, j, h)
  <2> HIDE DEF At, A, B
  <2>1. \A i \in A, j \in B : <<i, j>> \in A \X B /\ <<i, j>>[1] = i /\ <<i, j>>[2] = j
    OBVIOUS
  <2>2. \A p \in A \X B : h[p] = At(p[1], p[2], h)
    BY <1>11
  <2> SUFFICES ASSUME NEW i \in A, NEW j \in B PROVE h[<<i, j>>] = At(i, j, h)
    OBVIOUS
  <2>3. h[<<i, j>>] = At(<<i, j>>[1], <<i, j>>[2], h)
    BY <2>1, <2>2, Zenon
  <2> QED
    BY <2>1, <2>3, Zenon
<1> DEFINE Good(i, j) == /\ h[<<i, j>>] \in V /\ Increasing(h[<<i, j>>])
                         /\ Range(h[<<i, j>>]) = From(x, i) \cup From(y, j)
           bad == {p \in A \X B : ~ Good(p[1], p[2])}
           costs == {mu[p] : p \in bad}
<1>13. bad = {}
  <2> SUFFICES ASSUME bad # {} PROVE FALSE
    OBVIOUS
  <2>1. costs \in SUBSET Nat /\ costs # {}
    <3>1. \A p \in A \X B : mu[p] \in Nat
      BY <1>2
    <3> HIDE DEF Good, A, B
    <3> QED
      BY <3>1
  <2>2. PICK c \in costs : \A d \in costs : c <= d
    BY <2>1, LeastNat
  <2>3. PICK p \in bad : mu[p] = c
    BY <2>2
  <2>4. PICK i \in A, j \in B : p = <<i, j>>
    BY <2>3
  <2>5. ASSUME NEW q \in A \X B, mu[q] < mu[<<i, j>>]
        PROVE  Good(q[1], q[2])
    <3>1. mu[q] \in Int /\ mu[<<i, j>>] \in Int
      BY <1>2, <2>4
    <3>2. mu[q] \in costs => mu[<<i, j>>] <= mu[q]
      BY <2>2, <2>3, <2>4
    <3>3. q \in bad => mu[q] \in costs
      OBVIOUS
    <3> HIDE DEF costs, Good
    <3> QED
      BY <2>5, <3>1, <3>2, <3>3, SMTT(40)
  <2>6. ~ Good(i, j)
    BY <2>3, <2>4
  <2>7. h[<<i, j>>] = At(i, j, h)
    BY <1>12
  <2>8. CASE i > Len(x)
    <3>1. From(x, i) = {}
      BY <1>1, <2>8 DEF From
    <3>2. h[<<i, j>>] = SubSeq(y, j, Len(y))
      BY <2>7, <2>8
    <3>3. SubSeq(y, j, Len(y)) \in V /\ Increasing(SubSeq(y, j, Len(y))) /\ Range(SubSeq(y, j, Len(y))) = From(y, j)
      BY SuffixIncreasing
    <3> QED
      BY <2>6, <3>1, <3>2, <3>3
  <2>9. CASE ~ (i > Len(x)) /\ j > Len(y)
    <3>1. From(y, j) = {}
      BY <1>1, <2>9 DEF From
    <3>2. h[<<i, j>>] = SubSeq(x, i, Len(x))
      BY <2>7, <2>9
    <3>3. SubSeq(x, i, Len(x)) \in V /\ Increasing(SubSeq(x, i, Len(x))) /\ Range(SubSeq(x, i, Len(x))) = From(x, i)
      BY SuffixIncreasing
    <3> QED
      BY <2>6, <3>1, <3>2, <3>3
  <2>10. CASE ~ (i > Len(x)) /\ ~ (j > Len(y))
    <3>1. i \in 1 .. Len(x) /\ j \in 1 .. Len(y)
      BY <1>1, <2>10, SMTT(40)
    <3>2. Good(i + 1, j) /\ Good(i, j + 1) /\ Good(i + 1, j + 1)
      <4>1. \A q \in A \X B : mu[q] < mu[<<i, j>>] => Good(q[1], q[2])
        BY <2>5
      <4>2. \A k \in A, l \in B : <<k, l>>[1] = k /\ <<k, l>>[2] = l
        OBVIOUS
      <4> HIDE DEF Good
      <4> QED
        BY <1>3, <3>1, <4>1
    <3>3. /\ From(x, i) = {x[i]} \cup From(x, i + 1) /\ x[i] \in 1 .. N
          /\ \A z \in From(x, i + 1) : x[i] < z
          /\ \A z \in From(x, i) : x[i] <= z
          /\ From(x, i) \subseteq 1 .. N
      BY <3>1, FromFacts
    <3>4. /\ From(y, j) = {y[j]} \cup From(y, j + 1) /\ y[j] \in 1 .. N
          /\ \A z \in From(y, j + 1) : y[j] < z
          /\ \A z \in From(y, j) : y[j] <= z
          /\ From(y, j) \subseteq 1 .. N
      BY <3>1, FromFacts
    <3>9. x[i] \in Int /\ y[j] \in Int
      <4> HIDE DEF Good, bad, costs, V, A, B, At
      <4> QED
        BY <3>3, <3>4, SMTT(30)
    <3>5. ASSUME NEW a \in 1 .. N, NEW s \in V, Increasing(s), \A z \in Range(s) : a < z,
                 h[<<i, j>>] = <<a>> \o s, {a} \cup Range(s) = From(x, i) \cup From(y, j)
          PROVE  FALSE
      <4>1. /\ <<a>> \o s \in V /\ Increasing(<<a>> \o s)
            /\ Range(<<a>> \o s) = {a} \cup Range(s)
        BY <3>5, PrependIncreasing
      <4> QED
        BY <2>6, <3>5, <4>1
    <3>6. h[<<i, j>>] = IF x[i] < y[j] THEN <<x[i]>> \o h[<<i + 1, j>>]
                        ELSE IF y[j] < x[i] THEN <<y[j]>> \o h[<<i, j + 1>>]
                        ELSE <<x[i]>> \o h[<<i + 1, j + 1>>]
      BY <2>7, <2>10
    <3> DEFINE p1 == h[<<i + 1, j>>]
               p2 == h[<<i, j + 1>>]
               p3 == h[<<i + 1, j + 1>>]
    <3>7. /\ p1 \in V /\ Increasing(p1) /\ Range(p1) = From(x, i + 1) \cup From(y, j)
          /\ p2 \in V /\ Increasing(p2) /\ Range(p2) = From(x, i) \cup From(y, j + 1)
          /\ p3 \in V /\ Increasing(p3) /\ Range(p3) = From(x, i + 1) \cup From(y, j + 1)
      BY <3>2
    <3>8. \A z \in From(x, i) \cup From(y, j) : z \in Int
      <4>1. \A z \in 1 .. N : z \in Int
        OBVIOUS
      <4> QED
        BY <3>3, <3>4, <4>1, Zenon
    <3> HIDE DEF p1, p2, p3, V, A, B, At, Good, bad, costs
    <3>10. CASE x[i] < y[j]
      <4>1. h[<<i, j>>] = <<x[i]>> \o p1
        BY <3>6, <3>10 DEF p1
      <4>2. \A z \in From(y, j) : x[i] < z
        BY <3>4, <3>8, <3>9, <3>10
      <4>3. \A z \in Range(p1) : x[i] < z
        BY <3>3, <3>7, <4>2
      <4>4. {x[i]} \cup Range(p1) = From(x, i) \cup From(y, j)
        BY <3>3, <3>7
      <4>5. PICK a \in 1 .. N, s \in V : a = x[i] /\ s = p1
        BY <3>3, <3>7
      <4>6. /\ Increasing(s) /\ h[<<i, j>>] = <<a>> \o s
            /\ {a} \cup Range(s) = From(x, i) \cup From(y, j)
        BY <3>7, <4>1, <4>4, <4>5
      <4>7. \A z \in Range(s) : a < z
        BY <4>3, <4>5
      <4> QED
        BY <3>5, <4>6, <4>7, ZenonT(30)
    <3>11. CASE y[j] < x[i]
      <4>1. h[<<i, j>>] = <<y[j]>> \o p2
        BY <3>6, <3>9, <3>11, SMTT(30) DEF p2
      <4>2. \A z \in From(x, i) : y[j] < z
        BY <3>3, <3>8, <3>9, <3>11
      <4>3. \A z \in Range(p2) : y[j] < z
        BY <3>4, <3>7, <4>2
      <4>4. {y[j]} \cup Range(p2) = From(x, i) \cup From(y, j)
        BY <3>4, <3>7
      <4>5. PICK a \in 1 .. N, s \in V : a = y[j] /\ s = p2
        BY <3>4, <3>7
      <4>6. /\ Increasing(s) /\ h[<<i, j>>] = <<a>> \o s
            /\ {a} \cup Range(s) = From(x, i) \cup From(y, j)
        BY <3>7, <4>1, <4>4, <4>5
      <4>7. \A z \in Range(s) : a < z
        BY <4>3, <4>5
      <4> QED
        BY <3>5, <4>6, <4>7, ZenonT(30)
    <3>12. CASE x[i] = y[j]
      <4>1. h[<<i, j>>] = <<x[i]>> \o p3
        BY <3>6, <3>9, <3>12, SMTT(30) DEF p3
      <4>2. \A z \in Range(p3) : x[i] < z
        BY <3>3, <3>4, <3>7, <3>12
      <4>3. {x[i]} \cup Range(p3) = From(x, i) \cup From(y, j)
        BY <3>3, <3>4, <3>7, <3>12
      <4>5. PICK a \in 1 .. N, s \in V : a = x[i] /\ s = p3
        BY <3>3, <3>7
      <4>6. /\ Increasing(s) /\ h[<<i, j>>] = <<a>> \o s
            /\ {a} \cup Range(s) = From(x, i) \cup From(y, j)
        BY <3>7, <4>1, <4>3, <4>5
      <4>7. \A z \in Range(s) : a < z
        BY <4>2, <4>5
      <4> QED
        BY <3>5, <4>6, <4>7, ZenonT(30)
    <3>13. x[i] < y[j] \/ y[j] < x[i] \/ x[i] = y[j]
      BY <3>9
    <3> QED
      BY <3>10, <3>11, <3>12, <3>13
  <2> QED
    BY <2>8, <2>9, <2>10
<1>14. Good(1, 1)
  <2>1. 1 \in A /\ 1 \in B
    BY <1>1
  <2>2. <<1, 1>> \in A \X B /\ <<1, 1>>[1] = 1 /\ <<1, 1>>[2] = 1
    BY <2>1
  <2> HIDE DEF Good, A, B
  <2> QED
    BY <1>13, <2>2
<1>15. From(x, 1) = Range(x) /\ From(y, 1) = Range(y)
  BY DEF From, Range
<1> QED
  BY <1>11, <1>14, <1>15

-----------------------------------------------------------------------------
(* The state.                                                              *)

(* Types: selections hold rows of a chunk, and a selection is finished for *)
(* every chunk before the current one.                                     *)
FilterTypeOK ==
    /\ expr \in Predicates /\ leaf = LeafOf(expr)
    /\ selections \in Selections
    /\ chunks \in [1 .. Len(selections) -> [Name -> [1 .. ChunkLength -> Cell]]]
    /\ current \in 1 .. Len(selections) + 1
    /\ node \in 1 .. Len(expr) + 1
    /\ DOMAIN out = 1 .. Len(expr)
    /\ sel \in [TopsOf(expr) -> Seq(1 .. ChunkLength)]
    /\ \A t \in TopsOf(expr) : Increasing(sel[t])
    /\ status \in {"running", "error"}
    /\ selected \in Seq(Seq(1 .. ChunkLength)) /\ Len(selected) = current - 1

(* The constants and the part of the state that no step changes.           *)
LEMMA InputFacts ==
    ASSUME FilterTypeOK
    PROVE  /\ Tree(expr) /\ expr \in Seq(Nodes(Name)) /\ Len(selections) \in Nat /\ ChunkLength \in Nat
           /\ \A c \in 1 .. Len(selections) : selections[c] \in Seq(1 .. ChunkLength)
<1>1. expr \in Seq(Nodes(Name)) /\ PostOrder(expr)
  BY PredicateAssumption DEF FilterTypeOK
<1>2. ChunkLength \in Nat /\ selections \in Seq(Seq(1 .. ChunkLength))
  BY SelectionAssumption DEF FilterTypeOK
<1> QED
  BY <1>1, <1>2, TreeFacts

LEMMA Structure ==
    ASSUME FilterTypeOK
    PROVE  /\ Tops = TopsOf(expr) /\ Leaves = LeavesOf(expr) /\ Leaves \subseteq Tops
           /\ Tops \subseteq 1 .. Root /\ Root \in Tops /\ Root \in Nat
           /\ \A l \in Leaves : expr[l].kind # "logical" /\ l \in NodesOf(l)
           /\ \A l \in Leaves : NodesOf(l) = {n \in 1 .. Root : Under(expr, n, l)}
           /\ \A t \in Tops \ Leaves : expr[t].kind = "logical"
           /\ \A n \in 1 .. Root : leaf[n] \in 0 .. Root
           /\ \A n \in 1 .. Root : leaf[n] = 0 <=> n \in Tops \ Leaves
           /\ \A n \in 1 .. Root : leaf[n] # 0 => leaf[n] \in Leaves /\ n \in NodesOf(leaf[n])
<1>1. Tree(expr) /\ leaf = LeafOf(expr)
  BY InputFacts DEF FilterTypeOK
<1>2. /\ leaf \in [1 .. Root -> 0 .. Root]
      /\ \A n \in 1 .. Root : leaf[n] = 0 <=> n \in TopsOf(expr) /\ expr[n].kind = "logical"
      /\ \A n \in 1 .. Root : leaf[n] # 0 => leaf[n] \in LeavesOf(expr) /\ Under(expr, n, leaf[n])
      /\ \A l \in LeavesOf(expr) : \A n \in 1 .. Root : Under(expr, n, l) => leaf[n] = l
      /\ \A n \in 1 .. Root : leaf[n] = n <=> n \in LeavesOf(expr)
  BY <1>1, LeafFacts DEF Root
<1>3. TopsOf(expr) \subseteq 1 .. Root /\ Root \in TopsOf(expr) /\ Root \in Nat
  BY <1>1, RootIsTop DEF Root, Tree
<1>4. Leaves = LeavesOf(expr)
  BY <1>2, <1>3 DEF Leaves, LeavesOf
<1>5. Tops = TopsOf(expr)
  BY <1>2, <1>3 DEF Tops, LeavesOf
<1>6. \A l \in Leaves : NodesOf(l) = {n \in 1 .. Root : Under(expr, n, l)}
  <2> SUFFICES ASSUME NEW l \in Leaves PROVE NodesOf(l) = {n \in 1 .. Root : Under(expr, n, l)}
    OBVIOUS
  <2>1. l \in LeavesOf(expr) /\ l # 0
    BY <1>3, <1>4 DEF LeavesOf
  <2>2. \A n \in 1 .. Root : leaf[n] = l <=> Under(expr, n, l)
    BY <1>2, <2>1
  <2> QED
    BY <1>2, <2>2 DEF NodesOf
<1>7. \A l \in Leaves : expr[l].kind # "logical" /\ l \in NodesOf(l) /\ l \in Tops
  BY <1>2, <1>3, <1>4, <1>5 DEF LeavesOf, NodesOf
<1>8. \A t \in Tops \ Leaves : expr[t].kind = "logical"
  BY <1>4, <1>5 DEF LeavesOf
<1>9. \A n \in 1 .. Root : leaf[n] = 0 <=> n \in Tops \ Leaves
  BY <1>2, <1>4, <1>5 DEF LeavesOf
<1>10. \A n \in 1 .. Root : leaf[n] # 0 => leaf[n] \in Leaves /\ n \in NodesOf(leaf[n])
  BY <1>2, <1>4 DEF NodesOf
<1> QED
  BY <1>2, <1>3, <1>4, <1>5, <1>6, <1>7, <1>8, <1>9, <1>10

(* The rows that a node at the top is given, seen from its operator.       *)
LEMMA InputCases ==
    ASSUME FilterTypeOK, NEW t \in 1 .. Root
    PROVE  InputOf(t) = IF AndsOver(expr, t) = {} THEN selections[current]
                        ELSE sel[expr[Min(AndsOver(expr, t))].left]
<1>1. Tops = TopsOf(expr) /\ Tops \ Leaves = {p \in TopsOf(expr) : expr[p].kind = "logical"}
  BY Structure DEF LeavesOf
<1>2. {p \in Tops \ Leaves : expr[p].op = "AND" /\ Under(expr, t, expr[p].right)} = AndsOver(expr, t)
  BY <1>1 DEF AndsOver
<1> QED
  BY <1>2 DEF InputOf

LEMMA InputAtTop ==
    ASSUME FilterTypeOK
    PROVE  InputOf(Root) = selections[current]
<1>1. Tree(expr) /\ Root \in 1 .. Root
  BY InputFacts, Structure
<1> QED
  BY <1>1, AndsOverRoot, InputCases DEF Root

LEMMA InputOfSides ==
    ASSUME FilterTypeOK, NEW p \in Tops \ Leaves
    PROVE  /\ expr[p].left \in Tops /\ expr[p].right \in Tops
           /\ expr[p].left < expr[p].right /\ expr[p].right = p - 1
           /\ expr[p].op \in {"AND", "OR"}
           /\ InputOf(expr[p].left) = InputOf(p)
           /\ InputOf(expr[p].right) = IF expr[p].op = "AND" THEN sel[expr[p].left] ELSE InputOf(p)
<1>1. Tree(expr) /\ p \in TopsOf(expr) /\ expr[p].kind = "logical" /\ Tops = TopsOf(expr)
  BY InputFacts, Structure
<1>2. /\ p \in 1 .. Root /\ expr[p].op \in {"AND", "OR"}
      /\ expr[p].left \in TopsOf(expr) /\ expr[p].right \in TopsOf(expr)
      /\ expr[p].left \in 1 .. p - 1 /\ expr[p].right \in 1 .. p - 1
      /\ expr[p].right = p - 1 /\ First(expr)[expr[p].right] = expr[p].left + 1
  BY <1>1, Sides DEF Root
<1>3. expr[p].left \in 1 .. Root /\ expr[p].right \in 1 .. Root
  BY <1>1, <1>2, Structure
<1>4. expr[p].left < expr[p].right
  <2>1. First(expr)[expr[p].right] \in 1 .. expr[p].right
    BY <1>1, <1>3 DEF Tree, Shape, Root
  <2> QED
    BY <1>2, <1>3, <2>1
<1>5. InputOf(expr[p].left) = InputOf(p)
  <2>1. AndsOver(expr, expr[p].left) = AndsOver(expr, p)
    BY <1>1, <1>4, <1>3, AndsOverSide
  <2> QED
    BY <1>2, <1>3, <2>1, InputCases
<1>6. CASE expr[p].op = "AND"
  <2>1. AndsOver(expr, expr[p].right) # {} /\ Min(AndsOver(expr, expr[p].right)) = p
    BY <1>1, <1>6, AndsOverRight
  <2>2. InputOf(expr[p].right) = sel[expr[p].left]
    BY <1>3, <2>1, InputCases
  <2> QED
    BY <1>1, <1>2, <1>4, <1>5, <1>6, <2>2
<1>7. CASE expr[p].op = "OR"
  <2>1. AndsOver(expr, expr[p].right) = AndsOver(expr, p)
    BY <1>1, <1>7, AndsOverSide
  <2>2. InputOf(expr[p].right) = InputOf(p)
    BY <1>2, <1>3, <2>1, InputCases
  <2> QED
    BY <1>1, <1>2, <1>4, <1>5, <1>7, <2>2
<1> QED
  BY <1>2, <1>6, <1>7

(* It is a selection, of this chunk or of a node before it.                *)
LEMMA InputType ==
    ASSUME FilterTypeOK, current <= Len(selections), NEW t \in 1 .. Root
    PROVE  /\ InputOf(t) \in Seq(1 .. ChunkLength)
           /\ \/ InputOf(t) = selections[current]
              \/ \E p \in Tops \ Leaves : /\ expr[p].op = "AND" /\ expr[p].left < First(expr)[t] /\ t < p
                                          /\ InputOf(t) = sel[expr[p].left] /\ expr[p].left \in Tops
<1>1. Tree(expr) /\ Tops = TopsOf(expr) /\ current \in 1 .. Len(selections)
  BY InputFacts, Structure DEF FilterTypeOK
<1>2. CASE AndsOver(expr, t) = {}
  BY <1>1, <1>2, InputCases, InputFacts
<1>3. CASE AndsOver(expr, t) # {}
  <2> DEFINE q == Min(AndsOver(expr, t))
  <2>1. AndsOver(expr, t) \in SUBSET Nat
    BY <1>1, Structure DEF AndsOver
  <2>2. q \in AndsOver(expr, t)
    BY <1>3, <2>1, MinIn
  <2> HIDE DEF q
  <2>3. /\ q \in Tops /\ expr[q].kind = "logical" /\ expr[q].op = "AND"
        /\ expr[q].left < First(expr)[t] /\ t < q
    BY <1>1, <2>2, AndOver DEF Root
  <2>4. q \in Tops \ Leaves
    BY <2>3, Structure
  <2>5. InputOf(t) = sel[expr[q].left]
    BY <1>3, InputCases DEF q
  <2>6. expr[q].left \in Tops
    BY <2>4, InputOfSides
  <2>7. sel[expr[q].left] \in Seq(1 .. ChunkLength)
    BY <1>1, <2>6 DEF FilterTypeOK
  <2> QED
    BY <2>3, <2>4, <2>5, <2>6, <2>7
<1> QED
  BY <1>2, <1>3

(* A step changes none of this until it answers a node before t.           *)
LEMMA InputStable ==
    ASSUME FilterTypeOK, FilterTypeOK', UNCHANGED input, current' = current, current <= Len(selections),
           NEW t \in 1 .. Root,
           \A s \in Tops : s < First(expr)[t] => sel'[s] = sel[s]
    PROVE  InputOf(t)' = InputOf(t)
<1>1. expr' = expr /\ selections' = selections /\ Tops' = Tops /\ Leaves' = Leaves /\ Root' = Root
  BY DEF input, Tops, Leaves, Root
<1>2. InputOf(t) = IF AndsOver(expr, t) = {} THEN selections[current]
                   ELSE sel[expr[Min(AndsOver(expr, t))].left]
  BY InputCases
<1>3. InputOf(t)' = IF AndsOver(expr, t) = {} THEN selections[current]
                    ELSE sel'[expr[Min(AndsOver(expr, t))].left]
  <2>1. {p \in Tops \ Leaves : expr[p].op = "AND" /\ Under(expr, t, expr[p].right)} = AndsOver(expr, t)
    BY Structure DEF AndsOver, LeavesOf
  <2> QED
    BY <1>1, <2>1 DEF InputOf
<1>4. CASE AndsOver(expr, t) = {}
  BY <1>2, <1>3, <1>4
<1>5. CASE AndsOver(expr, t) # {}
  <2> DEFINE q == Min(AndsOver(expr, t))
  <2>1. AndsOver(expr, t) \in SUBSET Nat /\ Tree(expr)
    BY Structure, InputFacts DEF AndsOver
  <2>2. q \in AndsOver(expr, t)
    BY <1>5, <2>1, MinIn
  <2> HIDE DEF q
  <2>3. q \in TopsOf(expr) /\ expr[q].kind = "logical" /\ expr[q].left < First(expr)[t]
    BY <2>1, <2>2, AndOver DEF Root
  <2>4. expr[q].left \in Tops
    BY <2>3, Structure, InputOfSides
  <2>5. sel'[expr[q].left] = sel[expr[q].left]
    BY <2>3, <2>4
  <2> QED
    BY <1>2, <1>3, <1>5, <2>5 DEF q
<1> QED
  BY <1>4, <1>5

-----------------------------------------------------------------------------
(* The predicate's value on a row.                                         *)

LEMMA RowType ==
    ASSUME FilterTypeOK, NEW c \in 1 .. Len(selections), NEW r \in 1 .. ChunkLength
    PROVE  RowOf(c, r) \in Rows
<1>1. \A x \in Name : chunks[c][x][r] \in Cell
  <2>1. chunks[c] \in [Name -> [1 .. ChunkLength -> Cell]]
    BY DEF FilterTypeOK
  <2> SUFFICES ASSUME NEW x \in Name PROVE chunks[c][x][r] \in Cell
    OBVIOUS
  <2>2. chunks[c][x] \in [1 .. ChunkLength -> Cell]
    BY <2>1
  <2> QED
    BY <2>2
<1>2. \A x \in Name : chunks[c][x][r].data \in Int
  BY <1>1, CellAssumption DEF INT
<1> QED
  BY <1>2 DEF RowOf, Rows

LEMMA ValueFacts ==
    ASSUME FilterTypeOK, NEW c \in 1 .. Len(selections), NEW r \in 1 .. ChunkLength
    PROVE  /\ Evaluate(expr, RowOf(c, r)) \in [1 .. Root -> Outcome]
           /\ \A n \in 1 .. Root : /\ ValueAt(n, c, r) \in Outcome
                                   /\ ValueAt(n, c, r) = NodeValue(expr[n], RowOf(c, r), Evaluate(expr, RowOf(c, r)))
<1>1. RowOf(c, r) \in Rows /\ expr \in Seq(Nodes(Name)) /\ \A n \in 1 .. Len(expr) : HasOperands(expr, n)
  BY RowType, InputFacts DEF Tree, Shape
<1>2. /\ Evaluate(expr, RowOf(c, r)) \in [1 .. Root -> Outcome]
      /\ \A n \in 1 .. Root : Evaluate(expr, RowOf(c, r))[n] = NodeValue(expr[n], RowOf(c, r), Evaluate(expr, RowOf(c, r)))
  BY <1>1, EvaluateFacts DEF Root
<1> QED
  BY <1>2 DEF ValueAt

(* The value of a node from those of its operands, by kind.                *)
LEMMA ValueCases ==
    ASSUME FilterTypeOK, NEW c \in 1 .. Len(selections), NEW r \in 1 .. ChunkLength, NEW n \in 1 .. Root
    PROVE  LET e == expr[n]
               v == ValueAt(n, c, r)
               l == ValueAt(e.left, c, r)
               m == ValueAt(e.right, c, r)
           IN  /\ e.kind = "column" => v = RowOf(c, r)[e.column]
               /\ e.kind = "constant" => v = e.constant
               /\ e.kind = "arith" => v = Strict(l, m, Arithmetic(e.op, l, m))
               /\ e.kind = "compare" => v = Strict(l, m, Truth(CompareInts(e.op, l, m)))
               /\ e.kind = "logical" => v = IF l = Error \/ m = Error THEN Error ELSE Logical(e.op, l, m)
               /\ e.kind = "negate" => v = Strict(l, l, Checked(- l))
               /\ e.kind = "is_null" => v = IF l = Error THEN Error ELSE Truth((l = NULL) # e.negated)
               /\ e.kind = "in" => v = Strict(l, l, Truth((l \in e.list) # e.negated))
<1>1. ValueAt(n, c, r) = NodeValue(expr[n], RowOf(c, r), Evaluate(expr, RowOf(c, r)))
  BY ValueFacts
<1> QED
  BY <1>1 DEF NodeValue, ValueAt

LEMMA LogicalType ==
    ASSUME NEW op, NEW l, NEW r
    PROVE  Logical(op, l, r) \in {0, 1, NULL}
BY DEF Logical, Truth

LEMMA ShortFacts ==
    ASSUME FilterTypeOK, NEW c \in 1 .. Len(selections), NEW r \in 1 .. ChunkLength
    PROVE  /\ ShortValues(c, r) \in [Tops -> Outcome]
           /\ \A n \in Tops : ShortValues(c, r)[n] = ShortValue(n, c, r, ShortValues(c, r))
<1> DEFINE step == [x \in Tops \X [Tops -> Outcome] |-> ShortValue(x[1], c, r, x[2])]
           mu == [n \in Tops |-> n]
           Is(f) == f = [n \in Tops |-> ShortValue(n, c, r, f)]
<1>1. Tops \subseteq 1 .. Root /\ Root \in Nat /\ Leaves \subseteq Tops
  BY Structure
<1>0. \A n \in Tops : n \in Nat
  BY <1>1
<1>2. ASSUME NEW n \in Tops, NEW f \in [Tops -> Outcome]
      PROVE  ShortValue(n, c, r, f) \in Outcome
  <2>1. ValueAt(n, c, r) \in Outcome
    BY <1>1, ValueFacts
  <2>2. n \notin Leaves => f[expr[n].left] \in Outcome /\ f[expr[n].right] \in Outcome
    BY InputOfSides
  <2>3. Logical(expr[n].op, f[expr[n].left], f[expr[n].right]) \in Outcome /\ Error \in Outcome
    BY LogicalType DEF Outcome
  <2> QED
    BY <2>1, <2>2, <2>3 DEF ShortValue
<1>3. ASSUME NEW n \in Tops, NEW f, NEW g,
             \A m \in Tops : m < n => f[m] = g[m]
      PROVE  ShortValue(n, c, r, f) = ShortValue(n, c, r, g)
  <2>1. CASE n \in Leaves
    BY <2>1 DEF ShortValue
  <2>2. CASE n \notin Leaves
    <3>1. /\ expr[n].left \in Tops /\ expr[n].right \in Tops
          /\ expr[n].left < expr[n].right /\ expr[n].right = n - 1
      BY <2>2, InputOfSides
    <3>2. expr[n].left < n /\ expr[n].right < n
      <4>1. n \in Int /\ expr[n].left \in Int
        BY <1>0, <3>1
      <4> QED
        BY <3>1, <4>1
    <3>3. f[expr[n].left] = g[expr[n].left] /\ f[expr[n].right] = g[expr[n].right]
      BY <1>3, <3>1, <3>2
    <3> QED
      BY <2>2, <3>3 DEF ShortValue
  <2> QED
    BY <2>1, <2>2
<1>4. step \in [Tops \X [Tops -> Outcome] -> Outcome] /\ \A n \in Tops, f \in [Tops -> Outcome] : step[<<n, f>>] = ShortValue(n, c, r, f)
  BY <1>2
<1> HIDE DEF step
<1>5. mu \in [Tops -> 1 .. Root] /\ \A n \in Tops : mu[n] = n
  BY <1>1
<1> HIDE DEF mu
<1>6. Local(Tops, Outcome, mu, step)
  <2> SUFFICES ASSUME NEW n \in Tops, NEW f \in [Tops -> Outcome], NEW g \in [Tops -> Outcome],
                      \A m \in Tops : mu[m] < mu[n] => f[m] = g[m]
               PROVE  step[<<n, f>>] = step[<<n, g>>]
    BY DEF Local
  <2>1. \A m \in Tops : m < n => f[m] = g[m]
    BY <1>5
  <2>2. ShortValue(n, c, r, f) = ShortValue(n, c, r, g)
    BY <1>3, <2>1
  <2> QED
    BY <1>4, <2>2
<1>7. NULL \in Outcome
  BY DEF Outcome
<1>8. PICK f \in [Tops -> Outcome] : Solves(Tops, f, step)
  BY <1>1, <1>4, <1>5, <1>6, <1>7, Recursion
<1>9. Is(f)
  BY <1>4, <1>8 DEF Solves
<1>10. Is(ShortValues(c, r))
  BY <1>9 DEF ShortValues
<1> DEFINE h == ShortValues(c, r)
<1> HIDE DEF h
<1>11. h = [n \in Tops |-> ShortValue(n, c, r, h)]
  BY <1>10 DEF h
<1> DEFINE differ == {n \in Tops : h[n] # f[n]}
<1>12. differ = {}
  <2> SUFFICES ASSUME differ # {} PROVE FALSE
    OBVIOUS
  <2>0. differ \in SUBSET Nat
    BY <1>0
  <2>1. PICK n \in differ : \A m \in differ : n <= m
    BY <2>0, LeastNat
  <2>2. \A m \in Tops : m < n => h[m] = f[m]
    <3> SUFFICES ASSUME NEW m \in Tops, m < n, h[m] # f[m] PROVE FALSE
      OBVIOUS
    <3>1. n <= m /\ m \in Int /\ n \in Int
      BY <1>0, <2>1
    <3> QED
      BY <3>1
  <2>3. ShortValue(n, c, r, h) = ShortValue(n, c, r, f)
    BY <1>3, <2>2
  <2> QED
    BY <1>9, <1>11, <2>1, <2>3
<1>13. h \in [Tops -> Outcome]
  <2>1. \A n \in Tops : h[n] = f[n]
    BY <1>12
  <2> QED
    BY <1>11, <2>1
<1> QED
  BY <1>11, <1>13 DEF h

LEMMA LogicalTrue ==
    ASSUME NEW op \in {"AND", "OR"}, NEW l, NEW r
    PROVE  /\ Logical(op, l, r) # Error
           /\ op = "AND" => (IsTrue(Logical(op, l, r)) <=> IsTrue(l) /\ IsTrue(r))
           /\ op = "OR" => (IsTrue(Logical(op, l, r)) <=> IsTrue(l) \/ IsTrue(r))
BY ValueAssumption DEF Logical, Truth, IsTrue

(* A step does not change what a row means.                                *)
LEMMA MeaningStable ==
    ASSUME UNCHANGED input, NEW c, NEW r
    PROVE  /\ RowOf(c, r)' = RowOf(c, r) /\ \A n : ValueAt(n, c, r)' = ValueAt(n, c, r)
           /\ ShortValues(c, r)' = ShortValues(c, r) /\ Root' = Root /\ Tops' = Tops /\ Leaves' = Leaves
<1>1. expr' = expr /\ leaf' = leaf /\ chunks' = chunks
  BY DEF input
<1>2. Root' = Root /\ Tops' = Tops /\ Leaves' = Leaves
  BY <1>1 DEF Root, Tops, Leaves
<1>3. RowOf(c, r)' = RowOf(c, r)
  BY <1>1 DEF RowOf
<1>4. \A n : ValueAt(n, c, r)' = ValueAt(n, c, r)
  BY <1>1, <1>3 DEF ValueAt
<1>5. ShortValues(c, r)' = ShortValues(c, r)
  <2>1. \A n, v : ShortValue(n, c, r, v)' = ShortValue(n, c, r, v)
    BY <1>1, <1>2, <1>4 DEF ShortValue
  <2>2. \A v : [n \in Tops' |-> ShortValue(n, c, r, v)'] = [n \in Tops |-> ShortValue(n, c, r, v)]
    BY <1>2, <2>1
  <2> QED
    BY <1>2, <2>2, Zenon DEF ShortValues
<1> QED
  BY <1>2, <1>3, <1>4, <1>5

(* Where the scalar evaluator has an answer the short-circuit has one too, *)
(* and it is as true.                                                      *)
LEMMA ShortAgrees ==
    ASSUME FilterTypeOK, NEW c \in 1 .. Len(selections), NEW r \in 1 .. ChunkLength, NEW t \in Tops,
           ValueAt(t, c, r) # Error
    PROVE  /\ ShortValues(c, r)[t] # Error
           /\ IsTrue(ShortValues(c, r)[t]) <=> IsTrue(ValueAt(t, c, r))
<1> DEFINE s == ShortValues(c, r)
           Agrees(n) == ValueAt(n, c, r) # Error => s[n] # Error /\ (IsTrue(s[n]) <=> IsTrue(ValueAt(n, c, r)))
           bad == {n \in Tops : ~ Agrees(n)}
<1>1. bad = {}
  <2> SUFFICES ASSUME bad # {} PROVE FALSE
    OBVIOUS
  <2>0. \A n \in Tops : n \in 1 .. Root /\ n \in Nat
    BY Structure
  <2>1. bad \in SUBSET Nat
    BY <2>0
  <2>2. PICK n \in bad : \A m \in bad : n <= m
    BY <2>1, LeastNat
  <2>3. ASSUME NEW m \in Tops, m < n
        PROVE  Agrees(m)
    <3>1. m \in bad => n <= m
      BY <2>2
    <3>2. n \in Nat /\ m \in Nat
      BY <2>0
    <3> HIDE DEF Agrees
    <3> QED
      BY <2>3, <3>1, <3>2
  <2>4. s[n] = ShortValue(n, c, r, s)
    BY ShortFacts
  <2>5. CASE n \in Leaves
    BY <2>4, <2>5 DEF ShortValue
  <2>6. CASE n \notin Leaves
    <3> DEFINE l == expr[n].left
               m == expr[n].right
    <3>1. /\ l \in Tops /\ m \in Tops /\ l < m /\ m = n - 1 /\ expr[n].op \in {"AND", "OR"}
          /\ expr[n].kind = "logical"
      BY <2>6, InputOfSides, Structure
    <3>2. l < n /\ m < n
      <4>1. n \in Nat /\ l \in Nat
        BY <2>0, <3>1
      <4> HIDE DEF l, m
      <4> QED
        BY <3>1, <4>1
    <3>3. Agrees(l) /\ Agrees(m)
      BY <2>3, <3>1, <3>2
    <3>4. ValueAt(n, c, r) = IF ValueAt(l, c, r) = Error \/ ValueAt(m, c, r) = Error THEN Error
                             ELSE Logical(expr[n].op, ValueAt(l, c, r), ValueAt(m, c, r))
      BY <2>0, <3>1, ValueCases
    <3>5. s[n] = IF s[l] = Error \/ (expr[n].op = "AND" /\ ~ IsTrue(s[l])) THEN s[l]
                 ELSE IF s[m] = Error THEN Error
                 ELSE Logical(expr[n].op, s[l], s[m])
      BY <2>4, <2>6 DEF ShortValue
    <3>6. ~ Agrees(n)
      OBVIOUS
    <3> HIDE DEF l, m, s
    <3>7. ValueAt(l, c, r) # Error /\ ValueAt(m, c, r) # Error /\ ValueAt(n, c, r) # Error
      BY <3>4, <3>6
    <3>8. /\ s[l] # Error /\ (IsTrue(s[l]) <=> IsTrue(ValueAt(l, c, r)))
          /\ s[m] # Error /\ (IsTrue(s[m]) <=> IsTrue(ValueAt(m, c, r)))
      BY <3>3, <3>7
    <3>9. ValueAt(n, c, r) = Logical(expr[n].op, ValueAt(l, c, r), ValueAt(m, c, r))
      BY <3>4, <3>7
    <3>10. CASE expr[n].op = "AND" /\ ~ IsTrue(s[l])
      <4>1. s[n] = s[l]
        BY <3>5, <3>10
      <4>2. ~ IsTrue(ValueAt(n, c, r))
        BY <3>1, <3>8, <3>9, <3>10, LogicalTrue
      <4> QED
        BY <3>6, <3>8, <3>10, <4>1, <4>2
    <3>11. CASE ~ (expr[n].op = "AND" /\ ~ IsTrue(s[l]))
      <4>1. s[n] = Logical(expr[n].op, s[l], s[m])
        BY <3>5, <3>8, <3>11
      <4>2. s[n] # Error /\ (IsTrue(s[n]) <=> IsTrue(ValueAt(n, c, r)))
        BY <3>1, <3>8, <3>9, <4>1, LogicalTrue
      <4> QED
        BY <3>6, <4>2
    <3> QED
      BY <3>10, <3>11
  <2> QED
    BY <2>5, <2>6
<1> QED
  BY <1>1

(* A node at the top is the root or an operand of AND or OR at the top.    *)
LEMMA TopParent ==
    ASSUME NEW e, Tree(e), NEW t \in TopsOf(e), t # Len(e)
    PROVE  \E p \in TopsOf(e) : /\ e[p].kind = "logical" /\ t < p /\ Under(e, t, p)
                                /\ t = e[p].left \/ t = e[p].right
<1>1. t \in 1 .. Len(e) /\ DOMAIN e = 1 .. Len(e) /\ Len(e) \in Nat
  BY DEF TopsOf, Tree
<1>2. PICK p \in t + 1 .. Len(e) : Under(e, t, p) /\ (e[p].kind # "case" => Child(e, t, p))
  BY <1>1, Parent
<1>3. e[p].kind = "logical" /\ p \in 1 .. Len(e) /\ t < p
  BY <1>1, <1>2 DEF TopsOf
<1>4. ASSUME NEW q \in p + 1 .. Len(e), Under(e, p, q)
      PROVE  e[q].kind = "logical"
  <2>0. p \in Int /\ t \in Int /\ Len(e) \in Int /\ 1 <= p /\ 1 <= t
    <3>1. p \in 1 .. Len(e) /\ t \in 1 .. Len(e) /\ Len(e) \in Nat
      BY <1>1, <1>3
    <3> QED
      BY <3>1
  <2>1. q \in 1 .. Len(e) /\ p < q
    BY <2>0
  <2>2. First(e)[p] \in 1 .. p /\ First(e)[q] \in 1 .. q
    BY <1>3, <2>1 DEF Tree, Shape
  <2>3. Under(e, p, p) /\ p <= q
    BY <2>0, <2>1, <2>2 DEF Under
  <2>4. First(e)[q] <= First(e)[p]
    BY <1>3, <1>4, <2>1, <2>3, Overlap
  <2>5. Under(e, t, q) /\ q \in t + 1 .. Len(e)
    <3>1. First(e)[p] <= t /\ t < p
      BY <1>2, <1>3 DEF Under
    <3> QED
      BY <2>0, <2>1, <2>2, <2>4, <3>1 DEF Under
  <2> QED
    BY <2>5 DEF TopsOf
<1>5. p \in TopsOf(e)
  BY <1>1, <1>3, <1>4 DEF TopsOf
<1> QED
  BY <1>2, <1>3, <1>5 DEF Child

(* A node at the top is answered: its selection has the rows it was given  *)
(* on which it is true, and it raises on none of them.                     *)
AnsweredAt(c, t) ==
    /\ Range(sel[t]) = {r \in Range(InputOf(t)) : IsTrue(ShortValues(c, r)[t])}
    /\ \A r \in Range(InputOf(t)) : ShortValues(c, r)[t] # Error

Answered == \A c \in 1 .. Len(selections) : c = current => \A t \in Tops : t < node => AnsweredAt(c, t)

(* An error in the node at hand is one of the predicate.                   *)
LEMMA ErrorRises ==
    ASSUME FilterTypeOK, Answered, current <= Len(selections), NEW l \in Tops, First(expr)[l] <= node,
           NEW r \in Range(InputOf(l)), ShortValues(current, r)[l] = Error
    PROVE  r \in Range(selections[current]) /\ ShortCircuit(current, r) = Error
<1> DEFINE s == ShortValues(current, r)
           raising == {t \in Tops : Under(expr, l, t) /\ r \in Range(InputOf(t)) /\ s[t] = Error}
<1>1. /\ Tree(expr) /\ Tops = TopsOf(expr) /\ \A t \in Tops : t \in 1 .. Root /\ t \in Nat
      /\ Root \in Nat
  BY InputFacts, Structure
<1>2. \A t \in Tops : First(expr)[t] \in 1 .. t
  BY <1>1 DEF Tree, Shape, Root
<1>3. Under(expr, l, l)
  BY <1>1, <1>2 DEF Under
<1>4. PICK t \in raising : \A u \in raising : u <= t
  <2>1. raising \in SUBSET Nat /\ l \in raising /\ \A u \in raising : u <= Root
    BY <1>1, <1>3
  <2> QED
    BY <1>1, <2>1, GreatestNat
<1>5. CASE t = Root
  <2>1. r \in Range(selections[current])
    BY <1>5, InputAtTop
  <2> QED
    BY <1>5, <2>1 DEF ShortCircuit
<1>6. CASE t # Root
  <2>1. PICK p \in Tops : /\ expr[p].kind = "logical" /\ t < p /\ Under(expr, t, p)
                          /\ t = expr[p].left \/ t = expr[p].right
    BY <1>1, <1>6, TopParent DEF Root
  <2>2. p \in Tops \ Leaves
    BY <2>1, Structure
  <2> DEFINE a == expr[p].left
             b == expr[p].right
  <2>3. /\ a \in Tops /\ b \in Tops /\ a < b /\ b = p - 1
        /\ expr[p].op \in {"AND", "OR"} /\ InputOf(a) = InputOf(p)
        /\ InputOf(b) = IF expr[p].op = "AND" THEN sel[a] ELSE InputOf(p)
    BY <2>2, InputOfSides
  <2>4. First(expr)[t] <= First(expr)[l] /\ First(expr)[p] <= First(expr)[t]
    <3>1. l \in 1 .. Len(expr) /\ t \in 1 .. Len(expr) /\ p \in 1 .. Len(expr)
      BY <1>1 DEF Root
    <3>2. Under(expr, t, t) /\ t <= p /\ l <= t
      BY <1>1, <1>2, <2>1 DEF Under
    <3> QED
      BY <1>1, <1>3, <2>1, <3>1, <3>2, Overlap
  <2>5. Under(expr, l, p)
    <3>1. l <= t /\ First(expr)[t] <= l
      BY DEF Under
    <3>2. l \in Int /\ t \in Int /\ p \in Int /\ First(expr)[p] \in Int /\ First(expr)[t] \in Int
      BY <1>1, <1>2
    <3> QED
      BY <2>1, <2>4, <3>1, <3>2 DEF Under
  <2>6. p \notin raising
    <3>1. p \in Nat /\ t \in Nat
      BY <1>1
    <3> QED
      BY <1>4, <2>1, <3>1
  <2>7. s[p] = IF s[a] = Error \/ (expr[p].op = "AND" /\ ~ IsTrue(s[a])) THEN s[a]
               ELSE IF s[b] = Error THEN Error
               ELSE Logical(expr[p].op, s[a], s[b])
    <3>1. r \in 1 .. ChunkLength /\ current \in 1 .. Len(selections)
      <4>1. InputOf(l) \in Seq(1 .. ChunkLength)
        BY <1>1, InputType
      <4> QED
        BY <4>1, InputFacts, SMTT(40) DEF Range, FilterTypeOK
    <3>2. s[p] = ShortValue(p, current, r, s)
      BY <3>1, ShortFacts
    <3> QED
      BY <2>2, <3>2 DEF ShortValue
  <2>8. r \in Range(InputOf(t)) /\ s[t] = Error
    OBVIOUS
  <2> HIDE DEF s
  <2>9. r \in Range(InputOf(p)) /\ s[p] = Error
    <3>1. CASE t = a
      BY <2>3, <2>7, <2>8, <3>1
    <3>2. CASE t = b /\ expr[p].op = "OR"
      BY <2>3, <2>7, <2>8, <3>2
    <3>3. CASE t = b /\ expr[p].op = "AND"
      <4>1. a < node
        <5>1. First(expr)[b] = a + 1
          BY <1>1, <2>1, Sides
        <5>2. a \in Int /\ First(expr)[l] \in Int
          BY <1>1, <1>2, <2>3
        <5>3. node \in Int
          BY DEF FilterTypeOK
        <5> QED
          BY <2>4, <3>3, <5>1, <5>2, <5>3
      <4>2. AnsweredAt(current, a)
        <5>1. current \in 1 .. Len(selections)
          BY InputFacts DEF FilterTypeOK
        <5> QED
          BY <2>3, <4>1, <5>1 DEF Answered
      <4>3. r \in Range(InputOf(a)) /\ IsTrue(s[a]) /\ s[a] # Error
        BY <2>3, <2>8, <3>3, <4>2 DEF AnsweredAt, s
      <4> QED
        BY <2>3, <2>7, <2>8, <3>3, <4>3
    <3> QED
      BY <2>1, <2>3, <3>1, <3>2, <3>3
  <2> QED
    BY <2>5, <2>6, <2>9
<1> QED
  BY <1>5, <1>6

-----------------------------------------------------------------------------
(* Compiled leaves.                                                        *)

(* An operand that raises makes its node raise.                            *)
LEMMA ErrorStrict ==
    ASSUME FilterTypeOK, NEW c \in 1 .. Len(selections), NEW r \in 1 .. ChunkLength,
           NEW p \in 1 .. Root, NEW m, Child(expr, m, p), ValueAt(m, c, r) = Error
    PROVE  ValueAt(p, c, r) = Error
<1>1. CASE expr[p].kind = "arith"
  BY <1>1, ValueCases DEF Child, Strict, Unary, Binary
<1>2. CASE expr[p].kind = "compare"
  BY <1>2, ValueCases DEF Child, Strict, Unary, Binary
<1>3. CASE expr[p].kind = "logical"
  BY <1>3, ValueCases DEF Child, Unary, Binary
<1>4. CASE expr[p].kind = "negate"
  BY <1>4, ValueCases DEF Child, Strict, Unary, Binary
<1>5. CASE expr[p].kind = "is_null"
  BY <1>5, ValueCases DEF Child, Unary, Binary
<1>6. CASE expr[p].kind = "in"
  BY <1>6, ValueCases DEF Child, Strict, Unary, Binary
<1> QED
  BY <1>1, <1>2, <1>3, <1>4, <1>5, <1>6 DEF Child, Unary, Binary

(* Without a CASE, an error anywhere in a leaf is the leaf's.              *)
LEMMA ErrorInLeaf ==
    ASSUME FilterTypeOK, NEW c \in 1 .. Len(selections), NEW r \in 1 .. ChunkLength,
           NEW l \in Leaves, \A n \in NodesOf(l) : expr[n].kind # "case",
           NEW n \in NodesOf(l), ValueAt(n, c, r) = Error
    PROVE  ValueAt(l, c, r) = Error
<1> DEFINE raising == {m \in NodesOf(l) : ValueAt(m, c, r) = Error}
<1>1. /\ Tree(expr) /\ l \in 1 .. Root /\ Root \in Nat /\ Root = Len(expr)
      /\ \A m \in 1 .. Root : m \in NodesOf(l) <=> Under(expr, m, l)
      /\ NodesOf(l) \subseteq 1 .. Root
  BY InputFacts, Structure DEF Root
<1>2. PICK m \in raising : \A u \in raising : u <= m
  <2>1. raising \in SUBSET Nat /\ raising # {} /\ \A u \in raising : u <= Root
    BY <1>1
  <2> QED
    BY <1>1, <2>1, GreatestNat
<1>3. m \in 1 .. Root /\ m <= l /\ Under(expr, m, l)
  BY <1>1 DEF Under
<1>4. CASE m = l
  BY <1>4
<1>5. CASE m # l
  <2>1. m # Root /\ l \in m + 1 .. Root
    BY <1>1, <1>3, <1>5
  <2>2. PICK p \in m + 1 .. Root :
            /\ Under(expr, m, p) /\ \A q \in m + 1 .. Root : Under(expr, m, q) => p <= q
            /\ expr[p].kind # "case" => Child(expr, m, p)
    BY <1>1, <1>3, <2>1, Parent
  <2>3. p \in 1 .. Root /\ p <= l /\ m < p
    BY <1>1, <1>3, <2>1, <2>2
  <2>4. p \in NodesOf(l)
    BY <1>1, <1>3, <2>2, <2>3, Overlap
  <2>5. ValueAt(p, c, r) = Error
    BY <2>2, <2>3, <2>4, ErrorStrict
  <2>6. p <= m
    BY <1>2, <2>4, <2>5
  <2> QED
    BY <1>3, <2>3, <2>6
<1> QED
  BY <1>4, <1>5

(* A column holds the values of a node on a selection of a chunk.          *)
HoldsAt(c, column, n, hits) ==
    \A i \in 1 .. Len(hits), r \in 1 .. ChunkLength : hits[i] = r =>
        /\ ValueAt(n, c, r) # Error
        /\ Null(column, i) <=> ValueAt(n, c, r) = NULL
        /\ ValueAt(n, c, r) # NULL => column.data[i] = ValueAt(n, c, r)

(* The nodes of the compiled leaf at hand that have run hold their values. *)
Columns ==
    \A c \in 1 .. Len(selections) : (c = current /\ node <= Root /\ leaf[node] # 0 /\ Compiles(leaf[node]))
        => \A n \in NodesOf(leaf[node]) : n < node => HoldsAt(c, out[n], n, Sel)

(* The leaf of a node that runs.                                           *)
LEMMA RunningLeaf ==
    ASSUME FilterTypeOK, NEW kind, Running(kind)
    PROVE  /\ node \in 1 .. Root /\ current \in 1 .. Len(selections) /\ expr[node].kind = kind
           /\ leaf[node] # 0 /\ leaf[node] \in Leaves /\ node \in NodesOf(leaf[node])
           /\ Compiles(leaf[node]) /\ leaf[node] \in 1 .. Root
           /\ First(expr)[leaf[node]] <= node /\ node <= leaf[node]
           /\ Sel \in Seq(1 .. ChunkLength) /\ Count \in Nat
           /\ \A i \in 1 .. Count : Sel[i] \in 1 .. ChunkLength
<1>1. /\ node \in 1 .. Root /\ current \in 1 .. Len(selections) /\ expr[node].kind = kind
      /\ Compiles(leaf[node]) /\ (kind = "logical" => node \notin Tops)
  BY InputFacts, Structure DEF Running, Busy, Here, FilterTypeOK, Root
<1>2. leaf[node] # 0
  BY <1>1, Structure
<1>3. leaf[node] \in Leaves /\ node \in NodesOf(leaf[node]) /\ leaf[node] \in 1 .. Root
  BY <1>1, <1>2, Structure
<1>4. First(expr)[leaf[node]] <= node /\ node <= leaf[node]
  BY <1>3, Structure DEF Under
<1>5. Sel \in Seq(1 .. ChunkLength)
  BY <1>1, <1>3, InputFacts, InputType DEF Sel
<1>6. Count \in Nat /\ \A i \in 1 .. Count : Sel[i] \in 1 .. ChunkLength
  <2>1. ASSUME NEW S, NEW s \in Seq(S) PROVE Len(s) \in Nat /\ \A i \in 1 .. Len(s) : s[i] \in S
    OBVIOUS
  <2> QED
    BY <1>5, <2>1, Zenon DEF Count
<1> QED
  BY <1>1, <1>2, <1>3, <1>4, <1>5, <1>6

(* Its operands have run.                                                  *)
LEMMA RunningOperand ==
    ASSUME FilterTypeOK, Columns, NEW kind, Running(kind), NEW m, Child(expr, m, node)
    PROVE  HoldsAt(current, out[m], m, Sel)
<1>1. /\ node \in 1 .. Root /\ current \in 1 .. Len(selections)
      /\ leaf[node] # 0 /\ leaf[node] \in Leaves /\ node \in NodesOf(leaf[node])
      /\ Compiles(leaf[node]) /\ leaf[node] \in 1 .. Root
      /\ First(expr)[leaf[node]] <= node /\ node <= leaf[node]
  BY RunningLeaf
<1>2. Tree(expr) /\ Root = Len(expr)
  BY InputFacts DEF Root
<1>3. m \in 1 .. Root /\ m < node /\ Under(expr, m, node)
  BY <1>1, <1>2, Operands
<1>4. Under(expr, m, leaf[node])
  <2>1. First(expr)[node] \in 1 .. node /\ First(expr)[leaf[node]] \in 1 .. leaf[node]
    BY <1>1, <1>2 DEF Tree, Shape
  <2>2. Under(expr, node, node) /\ Under(expr, node, leaf[node])
    BY <1>1, <2>1 DEF Under
  <2>3. First(expr)[leaf[node]] <= First(expr)[node]
    BY <1>1, <1>2, <2>2, Overlap
  <2> QED
    BY <1>1, <1>3, <2>1, <2>3 DEF Under
<1>5. m \in NodesOf(leaf[node])
  BY <1>1, <1>3, <1>4, Structure
<1> QED
  BY <1>1, <1>3, <1>5, InputFacts DEF Columns

-----------------------------------------------------------------------------
(* Masks.                                                                  *)

LEMMA MaskFacts ==
    ASSUME NEW a, NEW b, NEW nulls \in SUBSET (1 .. Count), NEW i \in 1 .. Count
    PROVE  /\ ~ Skipped(<< >>, i)
           /\ Skipped(Propagated(a, b), i) <=> Null(a, i) \/ Null(b, i)
           /\ Skipped(Mark(<< >>, nulls), i) <=> i \in nulls
           /\ Skipped(Mark(Propagated(a, b), nulls), i) <=> i \in nulls \/ Null(a, i) \/ Null(b, i)
<1>1. ASSUME NEW f, DOMAIN f = 1 .. Count PROVE f # << >>
  <2>1. i \in DOMAIN f /\ i \notin DOMAIN << >>
    BY <1>1
  <2> QED
    BY <2>1, Zenon
<1>2. ~ Skipped(<< >>, i)
  BY DEF Skipped
<1>3. Skipped(Propagated(a, b), i) <=> Null(a, i) \/ Null(b, i)
  <2>1. CASE a.all_valid /\ b.all_valid
    BY <1>2, <2>1 DEF Propagated, Null
  <2>2. CASE ~ (a.all_valid /\ b.all_valid)
    <3> DEFINE f == [j \in 1 .. Count |-> Truth(~ Null(a, j) /\ ~ Null(b, j))]
    <3>1. Propagated(a, b) = f
      BY <2>2 DEF Propagated
    <3>2. f # << >>
      BY <1>1
    <3>3. f[i] = 0 <=> Null(a, i) \/ Null(b, i)
      BY DEF Truth
    <3> HIDE DEF f
    <3> QED
      BY <3>1, <3>2, <3>3 DEF Skipped
  <2> QED
    BY <2>1, <2>2
<1>4. ASSUME NEW v
      PROVE  Skipped(Mark(v, nulls), i) <=> i \in nulls \/ Skipped(v, i)
  <2>1. CASE nulls = {}
    BY <2>1 DEF Mark
  <2>2. CASE nulls # {}
    <3> DEFINE f == [j \in 1 .. Count |-> IF j \in nulls THEN 0 ELSE IF v = << >> THEN 1 ELSE v[j]]
    <3>1. Mark(v, nulls) = f
      BY <2>2 DEF Mark
    <3>2. f # << >>
      BY <1>1
    <3>3. f[i] = IF i \in nulls THEN 0 ELSE IF v = << >> THEN 1 ELSE v[i]
      OBVIOUS
    <3> HIDE DEF f
    <3> QED
      BY <3>1, <3>2, <3>3 DEF Skipped
  <2> QED
    BY <2>1, <2>2
<1> QED
  BY <1>2, <1>3, <1>4

-----------------------------------------------------------------------------
(* The invariant.                                                          *)

(* A finished chunk.                                                       *)
FinishedAt(c) ==
    /\ Increasing(selected[c])
    /\ Range(selected[c]) = {r \in Range(selections[c]) : IsTrue(ShortCircuit(c, r))}
    /\ \A r \in Range(selections[c]) : ShortCircuit(c, r) # Error

Failed ==
    status = "error" =>
        \E c \in 1 .. Len(selections) : c = current /\ \E r \in Range(selections[c]) : ShortCircuit(c, r) = Error

(* Every node behind the next one has been answered or holds its values.   *)
FilterInv ==
    /\ FilterTypeOK /\ Answered /\ Columns /\ Failed
    /\ \A c \in 1 .. Len(selected) : FinishedAt(c)

(* After a node at the top a new leaf begins.                              *)
LEMMA FreshLeaf ==
    ASSUME FilterTypeOK, NEW n \in Tops, n + 1 <= Root, leaf[n + 1] # 0, NEW m \in NodesOf(leaf[n + 1])
    PROVE  ~ (m < n + 1)
<1> DEFINE l == leaf[n + 1]
<1>1. n \in 1 .. Root /\ Root \in Nat
  BY Structure
<1>2. n + 1 \in 1 .. Root
  BY <1>1
<1>3. l \in Leaves /\ n + 1 \in NodesOf(l) /\ l \in 1 .. Root /\ l # 0
  BY <1>2, Structure
<1> HIDE DEF l
<1>4. m \in 1 .. Root /\ First(expr)[l] <= m /\ n + 1 <= l
  BY <1>2, <1>3, Structure DEF Under, l
<1>5. First(expr)[l] \in Int
  BY <1>3, InputFacts DEF Tree, Shape, Root
<1>6. m < n + 1 => Under(expr, n, l)
  BY <1>1, <1>3, <1>4, <1>5 DEF Under
<1>7. m < n + 1 => n \in NodesOf(l)
  BY <1>1, <1>3, <1>6, Structure
<1>8. m < n + 1 => leaf[n] = l
  BY <1>7 DEF NodesOf
<1>9. leaf[n] \in {0, n}
  BY DEF Tops
<1> QED
  BY <1>1, <1>3, <1>4, <1>8, <1>9

(* A node at the top is answered, and every node before it had been.       *)
LEMMA AnswerPreserves ==
    ASSUME FilterInv, current <= Len(selections), UNCHANGED <<input, current, status, selected>>,
           NEW n \in Tops, node <= n, \A t \in Tops : t < n => t < node,
           DOMAIN out' = DOMAIN out, node' = n + 1,
           NEW hits \in Seq(1 .. ChunkLength), Increasing(hits), sel' = [sel EXCEPT ![n] = hits],
           Range(hits) = {r \in Range(InputOf(n)) : IsTrue(ShortValues(current, r)[n])},
           \A r \in Range(InputOf(n)) : ShortValues(current, r)[n] # Error
    PROVE  FilterInv'
<1>1. /\ expr' = expr /\ leaf' = leaf /\ selections' = selections /\ chunks' = chunks
      /\ Root' = Root /\ Tops' = Tops /\ Leaves' = Leaves
  BY DEF input, Root, Tops, Leaves
<1>2. /\ Tops = TopsOf(expr) /\ n \in 1 .. Root /\ Root \in Nat /\ Root = Len(expr) /\ FilterTypeOK
      /\ Tops \subseteq 1 .. Root /\ current \in 1 .. Len(selections) /\ node \in Int
  BY Structure, InputFacts, SMTT(40) DEF FilterInv, FilterTypeOK, Root
<1>3. /\ sel'[n] = hits /\ \A t \in Tops : t # n => sel'[t] = sel[t]
      /\ sel' \in [TopsOf(expr) -> Seq(1 .. ChunkLength)]
  BY <1>2 DEF FilterTypeOK
<1>4. FilterTypeOK'
  <2>1. node' \in 1 .. Len(expr) + 1
    BY <1>2
  <2>2. \A t \in TopsOf(expr) : Increasing(sel'[t])
    BY <1>2, <1>3 DEF FilterTypeOK
  <2> QED
    BY <1>1, <1>2, <1>3, <2>1, <2>2 DEF FilterTypeOK
<1>5. \A t \in Tops : t <= n => InputOf(t)' = InputOf(t)
  <2> SUFFICES ASSUME NEW t \in Tops, t <= n PROVE InputOf(t)' = InputOf(t)
    OBVIOUS
  <2>1. First(expr)[t] \in 1 .. t /\ t \in 1 .. Root
    BY <1>2, InputFacts DEF Tree, Shape
  <2>2. \A s \in Tops : s < First(expr)[t] => sel'[s] = sel[s]
    BY <1>2, <1>3, <2>1
  <2> QED
    BY <1>2, <1>4, <2>1, <2>2, InputStable
<1>6. Answered'
  <2> SUFFICES ASSUME NEW c \in 1 .. Len(selections), c = current, NEW t \in Tops, t < node'
               PROVE  AnsweredAt(c, t)'
    BY <1>1 DEF Answered
  <2>1. t <= n /\ InputOf(t)' = InputOf(t)
    BY <1>2, <1>5
  <2>2. \A r : ShortValues(c, r)' = ShortValues(c, r)
    BY MeaningStable
  <2>3. CASE t = n
    BY <1>3, <2>1, <2>2, <2>3 DEF AnsweredAt
  <2>4. CASE t # n
    <3>1. AnsweredAt(c, t)
      BY <1>2, <2>1, <2>4 DEF FilterInv, Answered
    <3> QED
      BY <1>3, <2>1, <2>2, <2>4, <3>1 DEF AnsweredAt
  <2> QED
    BY <2>3, <2>4
<1>7. Columns'
  <2> SUFFICES ASSUME n + 1 <= Root, leaf[n + 1] # 0, NEW m \in NodesOf(leaf[n + 1])', m < n + 1
               PROVE  FALSE
    BY <1>1 DEF Columns
  <2>1. m \in NodesOf(leaf[n + 1])
    BY <1>1 DEF NodesOf
  <2> QED
    BY <1>2, <2>1, FreshLeaf
<1>8. Failed'
  <2>1. \A c, r : ShortCircuit(c, r)' = ShortCircuit(c, r)
    BY MeaningStable DEF ShortCircuit
  <2> QED
    BY <1>1, <2>1 DEF FilterInv, Failed
<1>9. \A c \in 1 .. Len(selected) : FinishedAt(c)'
  <2>1. \A c, r : ShortCircuit(c, r)' = ShortCircuit(c, r)
    BY MeaningStable DEF ShortCircuit
  <2> QED
    BY <1>1, <2>1 DEF FilterInv, FinishedAt
<1> QED
  BY <1>4, <1>6, <1>7, <1>8, <1>9 DEF FilterInv

(* A kernel that leaves the values of its node in its column.              *)
LEMMA KeepPreserves ==
    ASSUME FilterInv, NEW kind, Running(kind), NEW column, Keep(column), HoldsAt(current, column, node, Sel)
    PROVE  FilterInv'
<1> DEFINE l == leaf[node]
<1>1. /\ node \in 1 .. Root /\ current \in 1 .. Len(selections)
      /\ l # 0 /\ l \in Leaves /\ node \in NodesOf(l)
      /\ Compiles(l) /\ l \in 1 .. Root
      /\ First(expr)[l] <= node /\ node <= l
      /\ Sel \in Seq(1 .. ChunkLength) /\ Count \in Nat
      /\ \A i \in 1 .. Count : Sel[i] \in 1 .. ChunkLength
  BY RunningLeaf DEF FilterInv
<1>2. FilterTypeOK /\ Root \in Nat /\ Tops = TopsOf(expr) /\ Root = Len(expr) /\ Tops \subseteq 1 .. Root
  BY Structure DEF FilterInv, Root
<1>3. /\ out' = [out EXCEPT ![node] = column] /\ node' = node + 1
      /\ UNCHANGED <<input, current, status, selected>>
      /\ sel' = IF node \in Leaves THEN [sel EXCEPT ![node] = Ascending(Passing(column))] ELSE sel
  BY DEF Keep
<1>4. /\ expr' = expr /\ leaf' = leaf /\ selections' = selections /\ chunks' = chunks
      /\ Root' = Root /\ Tops' = Tops /\ Leaves' = Leaves
  BY <1>3 DEF input, Root, Tops, Leaves
<1>5. /\ DOMAIN out' = DOMAIN out /\ out'[node] = column
      /\ \A m \in 1 .. Root : m # node => out'[m] = out[m]
  BY <1>1, <1>2, <1>3 DEF FilterTypeOK
<1>6. CASE node \in Leaves
  <2>1. node \in Tops /\ l = node
    BY <1>6, Structure DEF FilterInv, Leaves
  <2>2. Sel = InputOf(node)
    BY <2>1 DEF Sel
  <2>3. Passing(column) \in SUBSET (1 .. ChunkLength)
    BY <1>1 DEF Passing
  <2> DEFINE hits == Ascending(Passing(column))
  <2>4. hits \in Seq(1 .. ChunkLength) /\ Increasing(hits) /\ Range(hits) = Passing(column)
    BY <1>2, <2>3, InputFacts, AscendingFacts
  <2>5. ASSUME NEW r \in 1 .. ChunkLength
        PROVE  ShortValues(current, r)[node] = ValueAt(node, current, r)
    BY <1>1, <1>2, <1>6, <2>1, ShortFacts DEF ShortValue
  <2>6. \A r \in Range(Sel) : \E i \in 1 .. Count : Sel[i] = r /\ r \in 1 .. ChunkLength
    BY <1>1 DEF Range, Count
  <2>7. \A i \in 1 .. Count : Sel[i] \in Range(Sel)
    BY <1>1 DEF Range, Count
  <2>8. ASSUME NEW i \in 1 .. Count
        PROVE  /\ ValueAt(node, current, Sel[i]) # Error
               /\ ~ Null(column, i) /\ column.data[i] # 0 <=> IsTrue(ValueAt(node, current, Sel[i]))
    <3>1. /\ ValueAt(node, current, Sel[i]) # Error
          /\ Null(column, i) <=> ValueAt(node, current, Sel[i]) = NULL
          /\ ValueAt(node, current, Sel[i]) # NULL => column.data[i] = ValueAt(node, current, Sel[i])
      BY <1>1 DEF HoldsAt, Count
    <3> QED
      BY <3>1 DEF IsTrue
  <2>9. Passing(column) = {r \in Range(Sel) : IsTrue(ValueAt(node, current, r))}
    <3>1. ASSUME NEW r \in Passing(column)
          PROVE  r \in Range(Sel) /\ IsTrue(ValueAt(node, current, r))
      <4>1. PICK i \in 1 .. Count : r = Sel[i] /\ ~ Null(column, i) /\ column.data[i] # 0
        BY DEF Passing
      <4> QED
        BY <2>7, <2>8, <4>1
    <3>2. ASSUME NEW r \in Range(Sel), IsTrue(ValueAt(node, current, r))
          PROVE  r \in Passing(column)
      <4>1. PICK i \in 1 .. Count : Sel[i] = r
        BY <2>6
      <4> QED
        BY <2>8, <3>2, <4>1 DEF Passing
    <3> QED
      BY <3>1, <3>2
  <2>10. Range(hits) = {r \in Range(InputOf(node)) : IsTrue(ShortValues(current, r)[node])}
    <3>1. \A r \in Range(Sel) : ShortValues(current, r)[node] = ValueAt(node, current, r)
      BY <2>5, <2>6
    <3> QED
      BY <2>2, <2>4, <2>9, <3>1
  <2>11. \A r \in Range(InputOf(node)) : ShortValues(current, r)[node] # Error
    BY <2>2, <2>5, <2>6, <2>8
  <2>12. sel' = [sel EXCEPT ![node] = hits]
    BY <1>3, <1>6
  <2> HIDE DEF hits
  <2>13. PICK n \in Tops : n = node
    BY <2>1
  <2>14. PICK reply \in Seq(1 .. ChunkLength) : reply = hits
    BY <2>4
  <2>15. node <= n /\ \A t \in Tops : t < n => t < node
    BY <1>1, <2>13
  <2>16. /\ node' = n + 1 /\ Increasing(reply) /\ sel' = [sel EXCEPT ![n] = reply]
         /\ Range(reply) = {r \in Range(InputOf(n)) : IsTrue(ShortValues(current, r)[n])}
         /\ \A r \in Range(InputOf(n)) : ShortValues(current, r)[n] # Error
    BY <1>3, <2>4, <2>10, <2>11, <2>12, <2>13, <2>14
  <2>17. current <= Len(selections)
    BY <1>1
  <2> QED
    BY <1>3, <1>5, <2>15, <2>16, <2>17, AnswerPreserves
<1>7. CASE node \notin Leaves
  <2>1. sel' = sel /\ node # l
    BY <1>1, <1>3, <1>7
  <2>2. node \notin Tops
    BY <1>1, <2>1 DEF Tops
  <2>3. node + 1 \in 1 .. Root /\ node + 1 <= l
    BY <1>1, <1>2, <2>1
  <2>4. leaf[node + 1] = l
    <3>1. node + 1 \in NodesOf(l)
      <4>1. First(expr)[l] \in Int
        BY <1>1, <1>2, InputFacts DEF Tree, Shape
      <4>2. Under(expr, node + 1, l)
        BY <1>1, <2>3, <4>1 DEF Under
      <4> QED
        BY <1>1, <1>2, <2>3, <4>2, Structure
    <3> QED
      BY <3>1 DEF NodesOf
  <2>5. FilterTypeOK'
    <3>1. node' \in 1 .. Len(expr) + 1
      BY <1>2, <1>3, <2>3
    <3> QED
      BY <1>2, <1>3, <1>4, <1>5, <2>1, <3>1 DEF FilterTypeOK
  <2>6. \A t \in 1 .. Root : InputOf(t)' = InputOf(t)
    BY <1>1, <1>2, <1>3, <2>1, <2>5, InputStable
  <2>7. Answered'
    <3> SUFFICES ASSUME NEW c \in 1 .. Len(selections), c = current, NEW t \in Tops, t < node'
                 PROVE  AnsweredAt(c, t)'
      BY <1>3, <1>4 DEF Answered
    <3>1. t < node /\ t \in 1 .. Root
      BY <1>1, <1>2, <1>3, <2>2
    <3>2. AnsweredAt(c, t) /\ \A r : ShortValues(c, r)' = ShortValues(c, r)
      BY <1>3, <3>1, MeaningStable DEF FilterInv, Answered
    <3>3. InputOf(t)' = InputOf(t)
      BY <2>6, <3>1
    <3> QED
      BY <2>1, <3>2, <3>3 DEF AnsweredAt
  <2>8. Columns'
    <3> SUFFICES ASSUME NEW c \in 1 .. Len(selections), c = current, NEW m \in NodesOf(l), m < node + 1
                 PROVE  HoldsAt(c, out[m], m, Sel)'
      BY <1>3, <1>4, <2>4 DEF Columns, NodesOf
    <3>1. Sel' = Sel
      BY <1>1, <1>3, <1>4, <2>4, <2>6 DEF Sel
    <3>2. \A r : ValueAt(m, c, r)' = ValueAt(m, c, r)
      BY <1>3, MeaningStable
    <3>3. m \in 1 .. Root
      BY <1>1, <1>2, Structure
    <3>4. CASE m = node
      BY <1>5, <3>1, <3>2, <3>4 DEF HoldsAt
    <3>5. CASE m # node
      <4>1. HoldsAt(c, out[m], m, Sel)
        BY <1>1, <3>3, <3>5 DEF FilterInv, Columns
      <4>2. out'[m] = out[m]
        BY <1>5, <3>3, <3>5
      <4> QED
        BY <3>1, <3>2, <4>1, <4>2 DEF HoldsAt
    <3> QED
      BY <3>4, <3>5
  <2>9. \A c, r : ShortCircuit(c, r)' = ShortCircuit(c, r)
    BY <1>3, MeaningStable DEF ShortCircuit
  <2>10. Failed' /\ \A c \in 1 .. Len(selected) : FinishedAt(c)'
    BY <1>3, <1>4, <2>9 DEF FilterInv, Failed, FinishedAt
  <2> QED
    BY <1>3, <2>5, <2>7, <2>8, <2>10 DEF FilterInv
<1> QED
  BY <1>6, <1>7

-----------------------------------------------------------------------------
(* The kernels: each leaves the value of its node on every selected row.   *)

LEMMA WritePreserves ==
    ASSUME FilterInv, NEW kind, Running(kind), NEW data, NEW validity, Write(data, validity),
           \A i \in 1 .. Count :
              /\ ValueAt(node, current, Sel[i]) # Error
              /\ Skipped(validity, i) <=> ValueAt(node, current, Sel[i]) = NULL
              /\ ValueAt(node, current, Sel[i]) # NULL => data[i] = ValueAt(node, current, Sel[i])
    PROVE  FilterInv'
<1> DEFINE column == [data |-> data, validity |-> validity, all_valid |-> validity = << >>]
<1>1. Keep(column)
  BY DEF Write
<1>2. \A i : (Null(column, i) <=> Skipped(validity, i)) /\ column.data = data
  BY DEF Null, Skipped
<1> HIDE DEF column
<1>3. HoldsAt(current, column, node, Sel)
  BY <1>2 DEF HoldsAt, Count
<1>4. PICK kept : kept = column
  OBVIOUS
<1> QED
  BY <1>1, <1>3, <1>4, KeepPreserves

(* What a kernel reads of an operand.                                      *)
LEMMA OperandFacts ==
    ASSUME FilterInv, NEW kind, Running(kind), NEW m, Child(expr, m, node), NEW i \in 1 .. Count
    PROVE  /\ ValueAt(m, current, Sel[i]) \in Int \cup {NULL}
           /\ ValueAt(m, current, Sel[i]) # Error
           /\ Null(out[m], i) <=> ValueAt(m, current, Sel[i]) = NULL
           /\ ValueAt(m, current, Sel[i]) # NULL => out[m].data[i] = ValueAt(m, current, Sel[i])
<1>1. /\ FilterTypeOK /\ Tree(expr) /\ node \in 1 .. Root /\ current \in 1 .. Len(selections)
      /\ Sel[i] \in 1 .. ChunkLength
  BY RunningLeaf, InputFacts DEF FilterInv
<1>2. m \in 1 .. Root
  BY <1>1, Operands DEF Root
<1>3. ValueAt(m, current, Sel[i]) \in Outcome
  BY <1>1, <1>2, ValueFacts
<1>4. HoldsAt(current, out[m], m, Sel)
  BY RunningOperand DEF FilterInv
<1>5. /\ ValueAt(m, current, Sel[i]) # Error
      /\ Null(out[m], i) <=> ValueAt(m, current, Sel[i]) = NULL
      /\ ValueAt(m, current, Sel[i]) # NULL => out[m].data[i] = ValueAt(m, current, Sel[i])
  BY <1>1, <1>4 DEF HoldsAt, Count
<1> QED
  BY <1>3, <1>5 DEF Outcome

LEMMA ColumnStep ==
    ASSUME FilterInv, RunColumn
    PROVE  FilterInv'
<1> DEFINE source == chunks[current][Here.column]
           data == [i \in 1 .. Count |-> source[Sel[i]].data]
           nulls == {i \in 1 .. Count : ~ source[Sel[i]].valid}
           validity == Mark(<< >>, nulls)
<1>1. Running("column") /\ Write(data, validity)
  BY DEF RunColumn
<1>2. /\ node \in 1 .. Root /\ current \in 1 .. Len(selections) /\ expr[node].kind = "column" /\ FilterTypeOK
      /\ \A i \in 1 .. Count : Sel[i] \in 1 .. ChunkLength
  BY <1>1, RunningLeaf DEF FilterInv
<1>3. Here.column \in Name
  BY <1>2, InputFacts, NodeFacts DEF Here, Tree, Root
<1>4. ASSUME NEW i \in 1 .. Count
      PROVE  /\ ValueAt(node, current, Sel[i]) # Error
             /\ Skipped(validity, i) <=> ValueAt(node, current, Sel[i]) = NULL
             /\ ValueAt(node, current, Sel[i]) # NULL => data[i] = ValueAt(node, current, Sel[i])
  <2>1. ValueAt(node, current, Sel[i]) = RowOf(current, Sel[i])[Here.column]
    BY <1>2, ValueCases DEF Here
  <2>2. RowOf(current, Sel[i])[Here.column] = IF source[Sel[i]].valid THEN source[Sel[i]].data ELSE NULL
    BY <1>3 DEF RowOf
  <2>3. RowOf(current, Sel[i]) \in Rows
    BY <1>2, RowType
  <2>4. source[Sel[i]].data \in Int
    <3>1. chunks[current] \in [Name -> [1 .. ChunkLength -> Cell]]
      BY <1>2 DEF FilterTypeOK
    <3>2. source \in [1 .. ChunkLength -> Cell]
      BY <1>3, <3>1
    <3>3. source[Sel[i]] \in Cell
      BY <1>2, <3>2
    <3> QED
      BY <3>3, CellAssumption DEF INT
  <2>5. nulls \in SUBSET (1 .. Count)
    OBVIOUS
  <2>6. Skipped(validity, i) <=> i \in nulls
    BY <2>5, MaskFacts
  <2>7. data[i] = source[Sel[i]].data /\ (i \in nulls <=> ~ source[Sel[i]].valid)
    OBVIOUS
  <2> HIDE DEF source, data, nulls, validity
  <2> QED
    BY <2>1, <2>2, <2>4, <2>6, <2>7, ValueAssumption
<1> HIDE DEF data, validity
<1>5. PICK d, v : d = data /\ v = validity
  OBVIOUS
<1> QED
  BY <1>1, <1>4, <1>5, WritePreserves

LEMMA ConstantStep ==
    ASSUME FilterInv, RunConstant
    PROVE  FilterInv'
<1> DEFINE data == [i \in 1 .. Count |-> Here.constant]
<1>1. Running("constant") /\ Write(data, << >>)
  BY DEF RunConstant
<1>2. /\ node \in 1 .. Root /\ current \in 1 .. Len(selections) /\ expr[node].kind = "constant" /\ FilterTypeOK
      /\ \A i \in 1 .. Count : Sel[i] \in 1 .. ChunkLength
  BY <1>1, RunningLeaf DEF FilterInv
<1>3. Here.constant \in Int
  BY <1>2, InputFacts, NodeFacts DEF Here, Tree, Root
<1>4. ASSUME NEW i \in 1 .. Count
      PROVE  /\ ValueAt(node, current, Sel[i]) # Error
             /\ Skipped(<< >>, i) <=> ValueAt(node, current, Sel[i]) = NULL
             /\ ValueAt(node, current, Sel[i]) # NULL => data[i] = ValueAt(node, current, Sel[i])
  <2>1. ValueAt(node, current, Sel[i]) = Here.constant
    BY <1>2, ValueCases DEF Here
  <2>2. ~ Skipped(<< >>, i)
    BY DEF Skipped
  <2> QED
    BY <1>3, <2>1, <2>2, ValueAssumption
<1> HIDE DEF data
<1>5. PICK d : d = data
  OBVIOUS
<1> QED
  BY <1>1, <1>4, <1>5, WritePreserves

(* The operands of a kernel with two, or one.                              *)
LEMMA KernelOperands ==
    ASSUME NEW kind, Running(kind)
    PROVE  /\ kind \in Binary => Child(expr, Here.left, node) /\ Child(expr, Here.right, node)
           /\ kind \in Unary => Child(expr, Here.left, node)
           /\ Here = expr[node] /\ Column1 = out[Here.left] /\ Column2 = out[Here.right]
BY DEF Running, Here, Child, Column1, Column2

LEMMA ArithStep ==
    ASSUME FilterInv, RunArith
    PROVE  FilterInv'
<1> DEFINE nulls == Propagated(Column1, Column2)
           value(i) == ArithValue(nulls, i)
           none == {i \in 1 .. Count : value(i) = NULL}
           data == [i \in 1 .. Count |-> IF value(i) = NULL THEN 0 ELSE value(i)]
           validity == Mark(nulls, none)
<1>1. Running("arith") /\ Write(data, validity) /\ \A i \in 1 .. Count : value(i) # Error
  BY DEF RunArith
<1>2. /\ node \in 1 .. Root /\ current \in 1 .. Len(selections) /\ expr[node].kind = "arith" /\ FilterTypeOK
      /\ \A i \in 1 .. Count : Sel[i] \in 1 .. ChunkLength
  BY <1>1, RunningLeaf DEF FilterInv
<1>3. /\ Child(expr, Here.left, node) /\ Child(expr, Here.right, node)
      /\ Here = expr[node] /\ Column1 = out[Here.left] /\ Column2 = out[Here.right]
  BY <1>1, KernelOperands DEF Binary
<1>4. ASSUME NEW i \in 1 .. Count
      PROVE  /\ ValueAt(node, current, Sel[i]) # Error
             /\ Skipped(validity, i) <=> ValueAt(node, current, Sel[i]) = NULL
             /\ ValueAt(node, current, Sel[i]) # NULL => data[i] = ValueAt(node, current, Sel[i])
  <2> DEFINE l == ValueAt(Here.left, current, Sel[i])
             m == ValueAt(Here.right, current, Sel[i])
             v == ValueAt(node, current, Sel[i])
  <2>1. v = Strict(l, m, Arithmetic(Here.op, l, m))
    BY <1>2, <1>3, ValueCases
  <2>2. l # Error /\ (Null(Column1, i) <=> l = NULL) /\ (l # NULL => Column1.data[i] = l)
    BY <1>1, <1>3, OperandFacts
  <2>3. m # Error /\ (Null(Column2, i) <=> m = NULL) /\ (m # NULL => Column2.data[i] = m)
    BY <1>1, <1>3, OperandFacts
  <2>4. none \in SUBSET (1 .. Count)
    OBVIOUS
  <2>5. /\ value(i) = IF Skipped(nulls, i) THEN 0 ELSE Arithmetic(Here.op, Column1.data[i], Column2.data[i])
        /\ value(i) # Error /\ (i \in none <=> value(i) = NULL)
        /\ data[i] = IF value(i) = NULL THEN 0 ELSE value(i)
    BY <1>1 DEF ArithValue
  <2> HIDE DEF l, m, v, none, data, value
  <2>6. /\ Skipped(nulls, i) <=> Null(Column1, i) \/ Null(Column2, i)
        /\ Skipped(validity, i) <=> i \in none \/ Null(Column1, i) \/ Null(Column2, i)
    BY <2>4, MaskFacts
  <2> HIDE DEF validity, nulls
  <2>7. CASE l = NULL \/ m = NULL
    <3>1. v = NULL
      BY <2>1, <2>2, <2>3, <2>7 DEF Strict
    <3>2. Skipped(validity, i)
      BY <2>2, <2>3, <2>6, <2>7
    <3> QED
      BY <3>1, <3>2, ValueAssumption DEF v
  <2>8. CASE l # NULL /\ m # NULL
    <3>1. v = Arithmetic(Here.op, l, m) /\ value(i) = v
      BY <2>1, <2>2, <2>3, <2>5, <2>6, <2>8 DEF Strict
    <3>2. Skipped(validity, i) <=> v = NULL
      BY <2>2, <2>3, <2>5, <2>6, <2>8, <3>1
    <3> QED
      BY <2>5, <3>1, <3>2 DEF v
  <2> QED
    BY <2>7, <2>8
<1> HIDE DEF data, validity, value
<1>5. PICK d, w : d = data /\ w = validity
  OBVIOUS
<1> QED
  BY <1>1, <1>4, <1>5, WritePreserves

LEMMA CompareStep ==
    ASSUME FilterInv, RunCompare
    PROVE  FilterInv'
<1> DEFINE data == [i \in 1 .. Count |-> Truth(CompareInts(Here.op, Column1.data[i], Column2.data[i]))]
           validity == Propagated(Column1, Column2)
<1>1. Running("compare") /\ Write(data, validity)
  BY DEF RunCompare
<1>2. /\ node \in 1 .. Root /\ current \in 1 .. Len(selections) /\ expr[node].kind = "compare" /\ FilterTypeOK
      /\ \A i \in 1 .. Count : Sel[i] \in 1 .. ChunkLength
  BY <1>1, RunningLeaf DEF FilterInv
<1>3. /\ Child(expr, Here.left, node) /\ Child(expr, Here.right, node)
      /\ Here = expr[node] /\ Column1 = out[Here.left] /\ Column2 = out[Here.right]
  BY <1>1, KernelOperands DEF Binary
<1>4. ASSUME NEW i \in 1 .. Count
      PROVE  /\ ValueAt(node, current, Sel[i]) # Error
             /\ Skipped(validity, i) <=> ValueAt(node, current, Sel[i]) = NULL
             /\ ValueAt(node, current, Sel[i]) # NULL => data[i] = ValueAt(node, current, Sel[i])
  <2> DEFINE l == ValueAt(Here.left, current, Sel[i])
             m == ValueAt(Here.right, current, Sel[i])
             v == ValueAt(node, current, Sel[i])
             truth(x, y) == Truth(CompareInts(Here.op, x, y))
  <2>1. v = Strict(l, m, truth(l, m))
    BY <1>2, <1>3, ValueCases
  <2>2. l # Error /\ (Null(Column1, i) <=> l = NULL) /\ (l # NULL => Column1.data[i] = l)
    BY <1>1, <1>3, OperandFacts
  <2>3. m # Error /\ (Null(Column2, i) <=> m = NULL) /\ (m # NULL => Column2.data[i] = m)
    BY <1>1, <1>3, OperandFacts
  <2>4. Skipped(validity, i) <=> Null(Column1, i) \/ Null(Column2, i)
    BY MaskFacts
  <2>5. data[i] = truth(Column1.data[i], Column2.data[i])
    OBVIOUS
  <2>6. truth(l, m) \in {0, 1}
    BY DEF Truth
  <2> HIDE DEF l, m, v, data, validity, truth
  <2>7. v \in {0, 1, NULL} /\ (v = NULL <=> l = NULL \/ m = NULL) /\ (v # NULL => v = truth(l, m))
    BY <2>1, <2>2, <2>3, <2>6, ValueAssumption DEF Strict
  <2>8. v # NULL => data[i] = v
    BY <2>2, <2>3, <2>5, <2>7
  <2> QED
    BY <2>2, <2>3, <2>4, <2>7, <2>8, ValueAssumption DEF v
<1> HIDE DEF data, validity
<1>5. PICK d, w : d = data /\ w = validity
  OBVIOUS
<1> QED
  BY <1>1, <1>4, <1>5, WritePreserves

LEMMA LogicalStep ==
    ASSUME FilterInv, RunLogical
    PROVE  FilterInv'
<1> DEFINE operand(column, i) == IF Null(column, i) THEN NULL ELSE column.data[i]
           value(i) == Logical(Here.op, operand(Column1, i), operand(Column2, i))
           nulls == {i \in 1 .. Count : value(i) = NULL}
           data == [i \in 1 .. Count |-> IF value(i) = NULL THEN 0 ELSE value(i)]
           validity == Mark(<< >>, nulls)
<1>1. Running("logical") /\ Write(data, validity)
  BY DEF RunLogical
<1>2. /\ node \in 1 .. Root /\ current \in 1 .. Len(selections) /\ expr[node].kind = "logical" /\ FilterTypeOK
      /\ \A i \in 1 .. Count : Sel[i] \in 1 .. ChunkLength
  BY <1>1, RunningLeaf DEF FilterInv
<1>3. /\ Child(expr, Here.left, node) /\ Child(expr, Here.right, node)
      /\ Here = expr[node] /\ Column1 = out[Here.left] /\ Column2 = out[Here.right]
  BY <1>1, KernelOperands DEF Binary
<1>4. ASSUME NEW i \in 1 .. Count
      PROVE  /\ ValueAt(node, current, Sel[i]) # Error
             /\ Skipped(validity, i) <=> ValueAt(node, current, Sel[i]) = NULL
             /\ ValueAt(node, current, Sel[i]) # NULL => data[i] = ValueAt(node, current, Sel[i])
  <2> DEFINE l == ValueAt(Here.left, current, Sel[i])
             m == ValueAt(Here.right, current, Sel[i])
             v == ValueAt(node, current, Sel[i])
  <2>1. v = IF l = Error \/ m = Error THEN Error ELSE Logical(Here.op, l, m)
    BY <1>2, <1>3, ValueCases
  <2>2. l # Error /\ operand(Column1, i) = l
    BY <1>1, <1>3, OperandFacts
  <2>3. m # Error /\ operand(Column2, i) = m
    BY <1>1, <1>3, OperandFacts
  <2>4. nulls \in SUBSET (1 .. Count)
    OBVIOUS
  <2>5. (i \in nulls <=> value(i) = NULL) /\ data[i] = IF value(i) = NULL THEN 0 ELSE value(i)
    OBVIOUS
  <2> HIDE DEF l, m, nulls
  <2>6. value(i) = v
    BY <2>1, <2>2, <2>3
  <2>7. v \in {0, 1, NULL}
    BY <2>1, <2>2, <2>3, LogicalType
  <2> HIDE DEF value, data
  <2>8. Skipped(validity, i) <=> i \in nulls
    BY <2>4, MaskFacts
  <2> HIDE DEF validity, v
  <2> QED
    BY <2>5, <2>6, <2>7, <2>8, ValueAssumption DEF v
<1> HIDE DEF data, validity
<1>5. PICK d, w : d = data /\ w = validity
  OBVIOUS
<1> QED
  BY <1>1, <1>4, <1>5, WritePreserves

LEMMA NegateStep ==
    ASSUME FilterInv, RunNegate
    PROVE  FilterInv'
<1> DEFINE nulls == Propagated(Column1, Column1)
           value(i) == IF Skipped(nulls, i) THEN 0 ELSE Checked(- Column1.data[i])
           data == [i \in 1 .. Count |-> value(i)]
<1>1. Running("negate") /\ Write(data, nulls) /\ \A i \in 1 .. Count : value(i) # Error
  BY DEF RunNegate
<1>2. /\ node \in 1 .. Root /\ current \in 1 .. Len(selections) /\ expr[node].kind = "negate" /\ FilterTypeOK
      /\ \A i \in 1 .. Count : Sel[i] \in 1 .. ChunkLength
  BY <1>1, RunningLeaf DEF FilterInv
<1>3. Child(expr, Here.left, node) /\ Here = expr[node] /\ Column1 = out[Here.left]
  BY <1>1, KernelOperands DEF Unary
<1>4. ASSUME NEW i \in 1 .. Count
      PROVE  /\ ValueAt(node, current, Sel[i]) # Error
             /\ Skipped(nulls, i) <=> ValueAt(node, current, Sel[i]) = NULL
             /\ ValueAt(node, current, Sel[i]) # NULL => data[i] = ValueAt(node, current, Sel[i])
  <2> DEFINE l == ValueAt(Here.left, current, Sel[i])
             v == ValueAt(node, current, Sel[i])
  <2>1. v = Strict(l, l, Checked(- l))
    BY <1>2, <1>3, ValueCases
  <2>2. l \in Int \cup {NULL} /\ l # Error /\ (Null(Column1, i) <=> l = NULL) /\ (l # NULL => Column1.data[i] = l)
    BY <1>1, <1>3, OperandFacts
  <2>3. Skipped(nulls, i) <=> Null(Column1, i)
    BY MaskFacts
  <2>4. data[i] = value(i) /\ value(i) # Error
    BY <1>1
  <2>5. l # NULL => value(i) = Checked(- l)
    BY <2>2, <2>3
  <2> HIDE DEF l, v, data, nulls, value
  <2>6. v = IF l = NULL THEN NULL ELSE Checked(- l)
    BY <2>1, <2>2 DEF Strict
  <2>7. l # NULL => Checked(- l) # NULL
    BY <2>2, ValueAssumption DEF Checked
  <2> QED
    BY <2>2, <2>3, <2>4, <2>5, <2>6, <2>7, ValueAssumption DEF v
<1> HIDE DEF data, nulls, value
<1>5. PICK d, w : d = data /\ w = nulls
  OBVIOUS
<1> QED
  BY <1>1, <1>4, <1>5, WritePreserves

LEMMA IsNullStep ==
    ASSUME FilterInv, RunIsNull
    PROVE  FilterInv'
<1> DEFINE data == [i \in 1 .. Count |-> Truth(Null(Column1, i) # Here.negated)]
<1>1. Running("is_null") /\ Write(data, << >>)
  BY DEF RunIsNull
<1>2. /\ node \in 1 .. Root /\ current \in 1 .. Len(selections) /\ expr[node].kind = "is_null" /\ FilterTypeOK
      /\ \A i \in 1 .. Count : Sel[i] \in 1 .. ChunkLength
  BY <1>1, RunningLeaf DEF FilterInv
<1>3. Child(expr, Here.left, node) /\ Here = expr[node] /\ Column1 = out[Here.left]
  BY <1>1, KernelOperands DEF Unary
<1>4. ASSUME NEW i \in 1 .. Count
      PROVE  /\ ValueAt(node, current, Sel[i]) # Error
             /\ Skipped(<< >>, i) <=> ValueAt(node, current, Sel[i]) = NULL
             /\ ValueAt(node, current, Sel[i]) # NULL => data[i] = ValueAt(node, current, Sel[i])
  <2> DEFINE l == ValueAt(Here.left, current, Sel[i])
             v == ValueAt(node, current, Sel[i])
  <2>1. v = IF l = Error THEN Error ELSE Truth((l = NULL) # Here.negated)
    BY <1>2, <1>3, ValueCases
  <2>2. l # Error /\ (Null(Column1, i) <=> l = NULL)
    BY <1>1, <1>3, OperandFacts
  <2>3. Null(Column1, i) \in BOOLEAN /\ (l = NULL) \in BOOLEAN
    BY DEF Null
  <2>4. Null(Column1, i) = (l = NULL)
    BY <2>2, <2>3
  <2>5. v = Truth(Null(Column1, i) # Here.negated)
    BY <2>1, <2>2, <2>4
  <2>6. data[i] = v /\ v \in {0, 1}
    BY <2>5 DEF Truth
  <2>7. ~ Skipped(<< >>, i)
    BY DEF Skipped
  <2> QED
    BY <2>6, <2>7, ValueAssumption
<1> HIDE DEF data
<1>5. PICK d : d = data
  OBVIOUS
<1> QED
  BY <1>1, <1>4, <1>5, WritePreserves

LEMMA InSetStep ==
    ASSUME FilterInv, RunInSet
    PROVE  FilterInv'
<1> DEFINE nulls == Propagated(Column1, Column1)
           truth(x) == Truth((x \in Here.list) # Here.negated)
           data == [i \in 1 .. Count |-> IF Skipped(nulls, i) THEN 0 ELSE truth(Column1.data[i])]
<1>1. Running("in") /\ Write(data, nulls)
  BY DEF RunInSet
<1>2. /\ node \in 1 .. Root /\ current \in 1 .. Len(selections) /\ expr[node].kind = "in" /\ FilterTypeOK
      /\ \A i \in 1 .. Count : Sel[i] \in 1 .. ChunkLength
  BY <1>1, RunningLeaf DEF FilterInv
<1>3. Child(expr, Here.left, node) /\ Here = expr[node] /\ Column1 = out[Here.left]
  BY <1>1, KernelOperands DEF Unary
<1>4. ASSUME NEW i \in 1 .. Count
      PROVE  /\ ValueAt(node, current, Sel[i]) # Error
             /\ Skipped(nulls, i) <=> ValueAt(node, current, Sel[i]) = NULL
             /\ ValueAt(node, current, Sel[i]) # NULL => data[i] = ValueAt(node, current, Sel[i])
  <2> DEFINE l == ValueAt(Here.left, current, Sel[i])
             v == ValueAt(node, current, Sel[i])
  <2>1. v = Strict(l, l, truth(l))
    BY <1>2, <1>3, ValueCases
  <2>2. l # Error /\ (Null(Column1, i) <=> l = NULL) /\ (l # NULL => Column1.data[i] = l)
    BY <1>1, <1>3, OperandFacts
  <2>3. Skipped(nulls, i) <=> Null(Column1, i)
    BY MaskFacts
  <2>4. data[i] = IF Skipped(nulls, i) THEN 0 ELSE truth(Column1.data[i])
    OBVIOUS
  <2>5. truth(l) \in {0, 1}
    BY DEF Truth
  <2> HIDE DEF l, v, data, nulls, truth
  <2>6. v = IF l = NULL THEN NULL ELSE truth(l)
    BY <2>1, <2>2 DEF Strict
  <2> QED
    BY <2>2, <2>3, <2>4, <2>5, <2>6, ValueAssumption DEF v
<1> HIDE DEF data, nulls
<1>5. PICK d, w : d = data /\ w = nulls
  OBVIOUS
<1> QED
  BY <1>1, <1>4, <1>5, WritePreserves

-----------------------------------------------------------------------------
(* The other steps.                                                        *)

(* A step that answers nothing.                                            *)
LEMMA KeepsPlace ==
    ASSUME FilterInv, UNCHANGED <<input, current, node, out, sel, selected>>, status' \in {"running", "error"}
    PROVE  /\ FilterTypeOK' /\ Answered' /\ Columns'
           /\ \A c \in 1 .. Len(selected) : FinishedAt(c)'
           /\ expr' = expr /\ leaf' = leaf /\ selections' = selections
           /\ \A c, s : ShortCircuit(c, s)' = ShortCircuit(c, s)
<1>1. /\ expr' = expr /\ leaf' = leaf /\ selections' = selections /\ chunks' = chunks
      /\ Root' = Root /\ Tops' = Tops /\ Leaves' = Leaves
  BY DEF input, Root, Tops, Leaves
<1>2. /\ FilterTypeOK /\ Tops \subseteq 1 .. Root /\ Root \in Nat /\ Len(selections) \in Nat
      /\ \A n \in 1 .. Root : leaf[n] # 0 => leaf[n] \in Leaves
      /\ Leaves \subseteq Tops
  BY Structure, InputFacts DEF FilterInv
<1>3. FilterTypeOK'
  BY <1>1, <1>2 DEF FilterTypeOK
<1>4. \A c, s : ShortValues(c, s)' = ShortValues(c, s) /\ \A n : ValueAt(n, c, s)' = ValueAt(n, c, s)
  BY MeaningStable
<1>5. current \in 1 .. Len(selections) => \A t \in 1 .. Root : InputOf(t)' = InputOf(t)
  BY <1>2, <1>3, InputStable
<1>6. Answered'
  <2> SUFFICES ASSUME NEW c \in 1 .. Len(selections), c = current, NEW t \in Tops, t < node
               PROVE  AnsweredAt(c, t)'
    BY <1>1 DEF Answered
  <2>1. AnsweredAt(c, t) /\ InputOf(t)' = InputOf(t)
    BY <1>2, <1>5 DEF FilterInv, Answered
  <2> QED
    BY <1>4, <2>1 DEF AnsweredAt
<1>7. Columns'
  <2> SUFFICES ASSUME NEW c \in 1 .. Len(selections), c = current, node <= Root, leaf[node] # 0,
                      Compiles(leaf[node])', NEW n \in NodesOf(leaf[node]), n < node
               PROVE  HoldsAt(c, out[n], n, Sel)'
    BY <1>1 DEF Columns, NodesOf
  <2>1. Compiles(leaf[node])
    BY <1>1 DEF Compiles, Scans, NodesOf
  <2>2. HoldsAt(c, out[n], n, Sel)
    BY <2>1 DEF FilterInv, Columns
  <2>3. Sel' = Sel
    <3>1. node \in 1 .. Root
      BY <1>2 DEF FilterTypeOK
    <3>2. leaf[node] \in 1 .. Root
      BY <1>2, <3>1
    <3>3. PICK k \in 1 .. Root : k = leaf[node]
      BY <3>2
    <3> QED
      BY <1>1, <1>5, <3>3 DEF Sel
  <2> QED
    BY <1>4, <2>2, <2>3 DEF HoldsAt
<1>8. \A c, s : ShortCircuit(c, s)' = ShortCircuit(c, s)
  BY <1>1, <1>4 DEF ShortCircuit
<1>9. \A c \in 1 .. Len(selected) : FinishedAt(c)'
  BY <1>1, <1>8 DEF FilterInv, FinishedAt
<1> QED
  BY <1>1, <1>3, <1>6, <1>7, <1>8, <1>9

(* A leaf that raises on a row that it was given fails the query for good. *)
LEMMA RaisePreserves ==
    ASSUME FilterInv, current \in 1 .. Len(selections), NEW l \in Leaves, First(expr)[l] <= node,
           NEW r \in Range(InputOf(l)), ValueAt(l, current, r) = Error,
           status' = "error", UNCHANGED <<input, current, node, out, sel, selected>>
    PROVE  FilterInv'
<1>1. /\ FilterTypeOK /\ l \in Tops /\ l \in 1 .. Root /\ Len(selections) \in Nat
  BY Structure, InputFacts DEF FilterInv
<1>2. InputOf(l) \in Seq(1 .. ChunkLength)
  BY <1>1, InputType
<1>3. r \in 1 .. ChunkLength
  <2>1. ASSUME NEW S, NEW s \in Seq(S) PROVE \A i \in DOMAIN s : s[i] \in S
    OBVIOUS
  <2>2. \A i \in DOMAIN InputOf(l) : InputOf(l)[i] \in 1 .. ChunkLength
    BY <1>2, <2>1
  <2> QED
    BY <2>2 DEF Range
<1>4. ShortValues(current, r)[l] = Error
  BY <1>1, <1>3, ShortFacts DEF ShortValue
<1>5. r \in Range(selections[current]) /\ ShortCircuit(current, r) = Error
  BY <1>1, <1>4, ErrorRises DEF FilterInv
<1>6. PICK c \in 1 .. Len(selections) : c = current
  OBVIOUS
<1>7. selections' = selections /\ ShortCircuit(c, r)' = ShortCircuit(c, r)
  BY KeepsPlace
<1>8. Failed'
  BY <1>5, <1>6, <1>7 DEF Failed
<1> QED
  BY <1>8, KeepsPlace DEF FilterInv

LEMMA KernelRaisesStep ==
    ASSUME FilterInv, KernelRaises
    PROVE  FilterInv'
<1>1. PICK kind \in {"arith", "negate"}, i \in 1 .. Count :
          /\ Running(kind)
          /\ kind = "arith" => ArithValue(Propagated(Column1, Column2), i) = Error
          /\ kind = "negate" => ~ Null(Column1, i) /\ Checked(- Column1.data[i]) = Error
  BY DEF KernelRaises
<1>2. /\ FilterTypeOK /\ node \in 1 .. Root /\ current \in 1 .. Len(selections) /\ expr[node].kind = kind
      /\ leaf[node] \in Leaves /\ node \in NodesOf(leaf[node]) /\ Compiles(leaf[node])
      /\ First(expr)[leaf[node]] <= node /\ Sel[i] \in 1 .. ChunkLength
  BY <1>1, RunningLeaf DEF FilterInv
<1>3. ValueAt(node, current, Sel[i]) = Error
  <2>1. /\ Child(expr, Here.left, node) /\ (kind = "arith" => Child(expr, Here.right, node))
        /\ Here = expr[node] /\ Column1 = out[Here.left] /\ Column2 = out[Here.right]
    BY <1>1, KernelOperands DEF Binary, Unary
  <2> DEFINE l == ValueAt(Here.left, current, Sel[i])
             m == ValueAt(Here.right, current, Sel[i])
  <2>2. l # Error /\ (Null(Column1, i) <=> l = NULL) /\ (l # NULL => Column1.data[i] = l)
    BY <1>1, <2>1, OperandFacts
  <2>3. CASE kind = "arith"
    <3>1. m # Error /\ (Null(Column2, i) <=> m = NULL) /\ (m # NULL => Column2.data[i] = m)
      BY <1>1, <2>1, <2>3, OperandFacts
    <3>2. Skipped(Propagated(Column1, Column2), i) <=> Null(Column1, i) \/ Null(Column2, i)
      BY MaskFacts
    <3>3. ValueAt(node, current, Sel[i]) = Strict(l, m, Arithmetic(Here.op, l, m))
      BY <1>2, <2>1, <2>3, ValueCases
    <3> HIDE DEF l, m
    <3>4. /\ ~ Skipped(Propagated(Column1, Column2), i)
          /\ Arithmetic(Here.op, Column1.data[i], Column2.data[i]) = Error
      BY <1>1, <2>3, ValueAssumption DEF ArithValue
    <3> QED
      BY <2>2, <3>1, <3>2, <3>3, <3>4 DEF Strict
  <2>4. CASE kind = "negate"
    <3>1. ValueAt(node, current, Sel[i]) = Strict(l, l, Checked(- l))
      BY <1>2, <2>1, <2>4, ValueCases
    <3> HIDE DEF l
    <3> QED
      BY <1>1, <2>2, <2>4, <3>1 DEF Strict
  <2> QED
    BY <2>3, <2>4
<1>4. PICK l \in Leaves, r \in 1 .. ChunkLength : l = leaf[node] /\ r = Sel[i]
  BY <1>2
<1>5. \A n \in NodesOf(l) : expr[n].kind # "case"
  BY <1>2, <1>4 DEF Compiles
<1>6. ValueAt(l, current, r) = Error
  BY <1>2, <1>3, <1>4, <1>5, ErrorInLeaf
<1>7. r \in Range(InputOf(l))
  <2>1. Sel \in Seq(1 .. ChunkLength) /\ Sel = InputOf(l)
    BY <1>1, <1>4, RunningLeaf DEF FilterInv, Sel
  <2> QED
    BY <1>4, <2>1 DEF Range, Count
<1> QED
  BY <1>2, <1>4, <1>6, <1>7, RaisePreserves DEF KernelRaises

(* A leaf evaluated in one step.                                           *)
LEMMA StartFacts ==
    ASSUME FilterTypeOK, NEW l \in Leaves, Starting(l)
    PROVE  /\ node \in 1 .. Root /\ current \in 1 .. Len(selections) /\ l \in Tops /\ l \in 1 .. Root
           /\ node <= l /\ First(expr)[l] <= node
           /\ \A t \in Tops : t < l => t < node
           /\ Sel = InputOf(l) /\ Sel \in Seq(1 .. ChunkLength) /\ Count = Len(Sel)
           /\ \A i \in 1 .. Count : Sel[i] \in 1 .. ChunkLength /\ Sel[i] \in Range(Sel)
           /\ \A r \in Range(Sel) : \E i \in 1 .. Count : Sel[i] = r
<1>1. /\ node \in 1 .. Root /\ current \in 1 .. Len(selections) /\ node \in NodesOf(l)
      /\ l \in Tops /\ l \in 1 .. Root /\ Root \in Nat /\ Tops \subseteq 1 .. Root
  BY InputFacts, Structure DEF Starting, Busy, FilterTypeOK, Root
<1>2. node <= l /\ First(expr)[l] <= node /\ First(expr)[l] \in Int
  <2>1. Under(expr, node, l)
    BY <1>1, Structure
  <2> QED
    BY <1>1, <2>1, InputFacts DEF Under, Tree, Shape, Root
<1>3. ASSUME NEW t \in Tops, t < l
      PROVE  t < node
  <2>1. ~ (t < node) => Under(expr, t, l)
    BY <1>1, <1>2, <1>3 DEF Under
  <2>2. Under(expr, t, l) => leaf[t] = l
    <3>1. Under(expr, t, l) => t \in NodesOf(l)
      BY <1>1, Structure
    <3> QED
      BY <3>1 DEF NodesOf
  <2>3. leaf[t] \in {0, t}
    BY DEF Tops
  <2> QED
    BY <1>1, <1>3, <2>1, <2>2, <2>3
<1>4. Sel = InputOf(l)
  BY <1>1 DEF Sel, NodesOf
<1>5. Sel \in Seq(1 .. ChunkLength)
  BY <1>1, <1>4, InputFacts, InputType
<1>6. Count = Len(Sel)
  BY DEF Count
<1>7. /\ \A i \in 1 .. Count : Sel[i] \in 1 .. ChunkLength /\ Sel[i] \in Range(Sel)
      /\ \A r \in Range(Sel) : \E i \in 1 .. Count : Sel[i] = r
  <2>1. ASSUME NEW S, NEW s \in Seq(S) PROVE DOMAIN s = 1 .. Len(s) /\ \A i \in 1 .. Len(s) : s[i] \in S
    OBVIOUS
  <2>2. DOMAIN Sel = 1 .. Count /\ \A i \in 1 .. Count : Sel[i] \in 1 .. ChunkLength
    BY <1>5, <1>6, <2>1
  <2> QED
    BY <2>2 DEF Range
<1> QED
  BY <1>1, <1>2, <1>3, <1>4, <1>5, <1>6, <1>7

LEMMA LeafAnswered ==
    ASSUME FilterInv, NEW l \in Leaves, Starting(l), NEW S \in SUBSET Range(Sel), Answer(l, Ascending(S)),
           S = {r \in Range(Sel) : IsTrue(ValueAt(l, current, r))},
           \A r \in Range(Sel) : ValueAt(l, current, r) # Error
    PROVE  FilterInv'
<1>1. /\ node \in 1 .. Root /\ current \in 1 .. Len(selections) /\ l \in Tops
      /\ node <= l /\ \A t \in Tops : t < l => t < node
      /\ Sel = InputOf(l)
      /\ \A i \in 1 .. Count : Sel[i] \in 1 .. ChunkLength
      /\ \A r \in Range(Sel) : \E i \in 1 .. Count : Sel[i] = r
  BY StartFacts DEF FilterInv
<1>2. \A r \in Range(Sel) : r \in 1 .. ChunkLength
  BY <1>1
<1>3. \A r \in Range(Sel) : ShortValues(current, r)[l] = ValueAt(l, current, r)
  BY <1>1, <1>2, ShortFacts DEF ShortValue, FilterInv
<1>4. ChunkLength \in Nat /\ S \in SUBSET (1 .. ChunkLength)
  BY <1>2, InputFacts DEF FilterInv
<1>5. PICK hits \in Seq(1 .. ChunkLength) : hits = Ascending(S) /\ Increasing(hits) /\ Range(hits) = S
  BY <1>4, AscendingFacts
<1>6. Range(hits) = {r \in Range(InputOf(l)) : IsTrue(ShortValues(current, r)[l])}
  BY <1>1, <1>3, <1>5
<1>7. \A r \in Range(InputOf(l)) : ShortValues(current, r)[l] # Error
  BY <1>1, <1>3
<1>8. /\ UNCHANGED <<input, current, status, selected>> /\ DOMAIN out' = DOMAIN out /\ node' = l + 1
      /\ sel' = [sel EXCEPT ![l] = hits] /\ current <= Len(selections)
  BY <1>1, <1>5 DEF Answer
<1> QED
  BY <1>1, <1>5, <1>6, <1>7, <1>8, AnswerPreserves

(* A leaf answered with the rows of its input that satisfy P.              *)
LEMMA ScanStep ==
    ASSUME FilterInv, ScanColumn
    PROVE  FilterInv'
<1> DEFINE Column1Of(l) == chunks[current][expr[expr[l].left].column]
           Passes(l, r) == Column1Of(l)[r].valid
                           /\ CompareInts(expr[l].op, Column1Of(l)[r].data, expr[expr[l].right].constant)
           Kept(l) == {Sel[i] : i \in {j \in 1 .. Count : Passes(l, Sel[j])}}
<1>1. PICK l \in Leaves : Starting(l) /\ Scans(l) /\ Answer(l, Ascending(Kept(l)))
  BY DEF ScanColumn
<1>2. /\ FilterTypeOK /\ current \in 1 .. Len(selections) /\ l \in 1 .. Root /\ Tree(expr) /\ Root = Len(expr)
      /\ \A i \in 1 .. Count : Sel[i] \in 1 .. ChunkLength /\ Sel[i] \in Range(Sel)
      /\ \A r \in Range(Sel) : \E i \in 1 .. Count : Sel[i] = r
  BY <1>1, StartFacts, InputFacts DEF FilterInv, Root
<1> DEFINE a == expr[l].left
           b == expr[l].right
<1>3. /\ expr[l].kind = "compare" /\ expr[a].kind = "column" /\ expr[b].kind = "constant"
      /\ a \in 1 .. Root /\ b \in 1 .. Root
  <2>1. expr[l].kind = "compare" /\ expr[a].kind = "column" /\ expr[b].kind = "constant"
    BY <1>1 DEF Scans
  <2>2. Child(expr, a, l) /\ Child(expr, b, l)
    BY <2>1 DEF Child, Binary
  <2> QED
    BY <1>2, <2>1, <2>2, Operands
<1>4. expr[a].column \in Name /\ expr[b].constant \in Int
  BY <1>2, <1>3, NodeFacts DEF Tree
<1>5. ASSUME NEW r \in 1 .. ChunkLength
      PROVE  ValueAt(l, current, r) # Error /\ (IsTrue(ValueAt(l, current, r)) <=> Passes(l, r))
  <2> DEFINE column == Column1Of(l)
             k == expr[b].constant
  <2>1. column[r].data \in Int
    <3>1. chunks[current] \in [Name -> [1 .. ChunkLength -> Cell]]
      BY <1>2 DEF FilterTypeOK
    <3>2. column \in [1 .. ChunkLength -> Cell]
      BY <1>4, <3>1
    <3>3. column[r] \in Cell
      BY <3>2
    <3> QED
      BY <3>3, CellAssumption DEF INT
  <2>2. ValueAt(a, current, r) = IF column[r].valid THEN column[r].data ELSE NULL
    BY <1>2, <1>3, <1>4, ValueCases DEF RowOf
  <2>3. ValueAt(b, current, r) = k
    BY <1>2, <1>3, ValueCases
  <2>4. ValueAt(l, current, r) = Strict(ValueAt(a, current, r), ValueAt(b, current, r),
                                        Truth(CompareInts(expr[l].op, ValueAt(a, current, r), ValueAt(b, current, r))))
    BY <1>2, <1>3, ValueCases
  <2>5. Passes(l, r) <=> column[r].valid /\ CompareInts(expr[l].op, column[r].data, k)
    OBVIOUS
  <2>6. k \in Int
    BY <1>4
  <2> HIDE DEF a, b, k, column, Passes
  <2>7. CASE column[r].valid
    <3>1. ValueAt(l, current, r) = Truth(CompareInts(expr[l].op, column[r].data, k))
      BY <2>1, <2>2, <2>3, <2>4, <2>6, <2>7, ValueAssumption DEF Strict
    <3> QED
      BY <2>5, <2>7, <3>1, ValueAssumption DEF Truth, IsTrue
  <2>8. CASE ~ column[r].valid
    <3>1. ValueAt(l, current, r) = NULL
      BY <2>2, <2>3, <2>4, <2>6, <2>8, ValueAssumption DEF Strict
    <3> QED
      BY <2>5, <2>8, <3>1, ValueAssumption DEF IsTrue
  <2> QED
    BY <2>7, <2>8
<1> HIDE DEF Passes
<1>6. Kept(l) \in SUBSET Range(Sel)
  BY <1>2
<1>7. Kept(l) = {r \in Range(Sel) : IsTrue(ValueAt(l, current, r))}
  <2>1. ASSUME NEW r \in Kept(l)
        PROVE  r \in Range(Sel) /\ IsTrue(ValueAt(l, current, r))
    <3>1. PICK i \in 1 .. Count : r = Sel[i] /\ Passes(l, Sel[i])
      OBVIOUS
    <3> QED
      BY <1>2, <1>5, <3>1
  <2>2. ASSUME NEW r \in Range(Sel), IsTrue(ValueAt(l, current, r))
        PROVE  r \in Kept(l)
    <3>1. PICK i \in 1 .. Count : Sel[i] = r
      BY <1>2
    <3>2. Passes(l, Sel[i])
      BY <1>2, <1>5, <2>2, <3>1
    <3> QED
      BY <3>1, <3>2
  <2> QED
    BY <2>1, <2>2
<1>8. \A r \in Range(Sel) : ValueAt(l, current, r) # Error
  BY <1>2, <1>5
<1>9. PICK S \in SUBSET Range(Sel) : S = Kept(l)
  BY <1>6
<1> HIDE DEF Kept
<1> QED
  BY <1>1, <1>7, <1>8, <1>9, LeafAnswered

LEMMA RowwiseStep ==
    ASSUME FilterInv, Rowwise
    PROVE  FilterInv'
<1> DEFINE Kept(l) == {Sel[i] : i \in {j \in 1 .. Count : IsTrue(ValueAt(l, current, Sel[j]))}}
<1>1. PICK l \in Leaves : /\ Starting(l) /\ Answer(l, Ascending(Kept(l)))
                          /\ \A i \in 1 .. Count : ValueAt(l, current, Sel[i]) # Error
  BY DEF Rowwise
<1>2. /\ \A i \in 1 .. Count : Sel[i] \in Range(Sel)
      /\ \A r \in Range(Sel) : \E i \in 1 .. Count : Sel[i] = r
  BY <1>1, StartFacts DEF FilterInv
<1>3. Kept(l) \in SUBSET Range(Sel)
  BY <1>2
<1>4. Kept(l) = {r \in Range(Sel) : IsTrue(ValueAt(l, current, r))}
  <2>1. ASSUME NEW r \in Kept(l)
        PROVE  r \in Range(Sel) /\ IsTrue(ValueAt(l, current, r))
    BY <1>2
  <2>2. ASSUME NEW r \in Range(Sel), IsTrue(ValueAt(l, current, r))
        PROVE  r \in Kept(l)
    BY <1>2, <2>2
  <2> QED
    BY <2>1, <2>2
<1>5. \A r \in Range(Sel) : ValueAt(l, current, r) # Error
  BY <1>1, <1>2
<1>6. PICK S \in SUBSET Range(Sel) : S = Kept(l)
  BY <1>3
<1> HIDE DEF Kept
<1> QED
  BY <1>1, <1>4, <1>5, <1>6, LeafAnswered

LEMMA RowwiseRaisesStep ==
    ASSUME FilterInv, RowwiseRaises
    PROVE  FilterInv'
<1>1. PICK l \in Leaves, i \in 1 .. Count : Starting(l) /\ ValueAt(l, current, Sel[i]) = Error
  BY DEF RowwiseRaises
<1>2. /\ current \in 1 .. Len(selections) /\ First(expr)[l] <= node /\ Sel = InputOf(l)
      /\ Sel[i] \in Range(Sel)
  BY <1>1, StartFacts DEF FilterInv
<1>3. PICK r \in Range(InputOf(l)) : r = Sel[i]
  BY <1>2
<1> QED
  BY <1>1, <1>2, <1>3, RaisePreserves DEF RowwiseRaises

(* AND and OR at the top, whose operands have been answered.               *)
LEMMA TopFacts ==
    ASSUME FilterInv, Busy, node \in Tops \ Leaves
    PROVE  /\ FilterTypeOK /\ current \in 1 .. Len(selections) /\ node \in 1 .. Root
           /\ Here = expr[node] /\ Here.left \in Tops /\ Here.right \in Tops
           /\ AnsweredAt(current, Here.left) /\ AnsweredAt(current, Here.right)
           /\ sel[Here.left] \in Seq(1 .. ChunkLength) /\ Increasing(sel[Here.left])
           /\ sel[Here.right] \in Seq(1 .. ChunkLength) /\ Increasing(sel[Here.right])
           /\ InputOf(Here.left) = InputOf(node)
           /\ InputOf(Here.right) = IF Here.op = "AND" THEN sel[Here.left] ELSE InputOf(node)
           /\ \A r \in Range(InputOf(node)) : r \in 1 .. ChunkLength
           /\ \A r \in 1 .. ChunkLength :
                LET s == ShortValues(current, r) IN
                s[node] = IF s[Here.left] = Error \/ (Here.op = "AND" /\ ~ IsTrue(s[Here.left])) THEN s[Here.left]
                          ELSE IF s[Here.right] = Error THEN Error
                          ELSE Logical(Here.op, s[Here.left], s[Here.right])
<1>1. /\ FilterTypeOK /\ current \in 1 .. Len(selections) /\ node \in 1 .. Root
      /\ Here = expr[node] /\ Tops \subseteq 1 .. Root /\ Tops = TopsOf(expr)
  BY Structure, InputFacts DEF FilterInv, Busy, Here, FilterTypeOK
<1>2. PICK p \in Tops \ Leaves : p = node
  OBVIOUS
<1>3. /\ expr[p].left \in Tops /\ expr[p].right \in Tops
      /\ expr[p].left < expr[p].right /\ expr[p].right = p - 1
      /\ InputOf(expr[p].left) = InputOf(p)
      /\ InputOf(expr[p].right) = IF expr[p].op = "AND" THEN sel[expr[p].left] ELSE InputOf(p)
  BY <1>1, InputOfSides
<1>4. expr[p].left < node /\ expr[p].right < node
  <2>1. expr[p].left \in Int /\ p \in Int
    BY <1>1, <1>2, <1>3
  <2> QED
    BY <1>2, <1>3, <2>1
<1>5. AnsweredAt(current, expr[p].left) /\ AnsweredAt(current, expr[p].right)
  BY <1>1, <1>3, <1>4 DEF FilterInv, Answered
<1>6. \A r \in Range(InputOf(node)) : r \in 1 .. ChunkLength
  <2>1. InputOf(p) \in Seq(1 .. ChunkLength)
    BY <1>1, <1>2, InputType
  <2>2. ASSUME NEW S, NEW s \in Seq(S) PROVE \A i \in DOMAIN s : s[i] \in S
    OBVIOUS
  <2>3. \A i \in DOMAIN InputOf(p) : InputOf(p)[i] \in 1 .. ChunkLength
    BY <2>1, <2>2
  <2> QED
    BY <1>2, <2>3 DEF Range
<1>7. ASSUME NEW r \in 1 .. ChunkLength
      PROVE  LET s == ShortValues(current, r) IN
             s[p] = IF s[expr[p].left] = Error \/ (expr[p].op = "AND" /\ ~ IsTrue(s[expr[p].left])) THEN s[expr[p].left]
                    ELSE IF s[expr[p].right] = Error THEN Error
                    ELSE Logical(expr[p].op, s[expr[p].left], s[expr[p].right])
  BY <1>1, ShortFacts DEF ShortValue
<1>8. /\ \A t \in Tops : sel[t] \in Seq(1 .. ChunkLength) /\ Increasing(sel[t])
  BY <1>1 DEF FilterTypeOK
<1> QED
  BY <1>1, <1>2, <1>3, <1>5, <1>6, <1>7, <1>8

LEMMA CascadeStep ==
    ASSUME FilterInv, Cascade
    PROVE  FilterInv'
<1>1. Busy /\ node \in Tops \ Leaves /\ Here.op = "AND" /\ Answer(node, sel[Here.right])
  BY DEF Cascade
<1> DEFINE a == Here.left
           b == Here.right
           s(r) == ShortValues(current, r)
<1>2. /\ FilterTypeOK /\ current \in 1 .. Len(selections) /\ node \in 1 .. Root
      /\ AnsweredAt(current, a) /\ AnsweredAt(current, b)
      /\ sel[b] \in Seq(1 .. ChunkLength) /\ Increasing(sel[b])
      /\ InputOf(a) = InputOf(node) /\ InputOf(b) = sel[a]
      /\ \A r \in Range(InputOf(node)) : r \in 1 .. ChunkLength
  BY <1>1, TopFacts
<1>3. Here.op \in {"AND", "OR"} /\ Tops \subseteq 1 .. Root
  BY <1>1, Structure DEF FilterInv
<1>4. ASSUME NEW r \in Range(InputOf(node))
      PROVE  s(r)[node] = IF s(r)[a] = Error \/ ~ IsTrue(s(r)[a]) THEN s(r)[a]
                          ELSE IF s(r)[b] = Error THEN Error
                          ELSE Logical("AND", s(r)[a], s(r)[b])
  BY <1>1, <1>2, TopFacts
<1> HIDE DEF a, b
<1>5. /\ Range(sel[a]) = {r \in Range(InputOf(node)) : IsTrue(s(r)[a])}
      /\ \A r \in Range(InputOf(node)) : s(r)[a] # Error
      /\ Range(sel[b]) = {r \in Range(sel[a]) : IsTrue(s(r)[b])}
      /\ \A r \in Range(sel[a]) : s(r)[b] # Error
  BY <1>2 DEF AnsweredAt
<1> HIDE DEF s
<1>6. ASSUME NEW r \in Range(InputOf(node))
      PROVE  s(r)[node] # Error /\ (IsTrue(s(r)[node]) <=> r \in Range(sel[b]))
  <2>1. CASE IsTrue(s(r)[a])
    <3>1. s(r)[node] = Logical("AND", s(r)[a], s(r)[b]) /\ s(r)[b] # Error
      BY <1>4, <1>5, <2>1
    <3>2. s(r)[node] # Error /\ (IsTrue(s(r)[node]) <=> IsTrue(s(r)[a]) /\ IsTrue(s(r)[b]))
      BY <3>1, LogicalTrue
    <3> QED
      BY <1>5, <2>1, <3>2
  <2>2. CASE ~ IsTrue(s(r)[a])
    BY <1>4, <1>5, <2>2
  <2> QED
    BY <2>1, <2>2
<1>7. Range(sel[b]) = {r \in Range(InputOf(node)) : IsTrue(s(r)[node])}
  <2>1. Range(sel[b]) \subseteq Range(InputOf(node))
    BY <1>5
  <2> QED
    BY <1>6, <2>1
<1>8. PICK n \in Tops, hits \in Seq(1 .. ChunkLength) : n = node /\ hits = sel[b]
  BY <1>1, <1>2
<1>9. Increasing(hits) /\ node <= n /\ \A t \in Tops : t < n => t < node
  BY <1>2, <1>8
<1>10. /\ Range(hits) = {r \in Range(InputOf(n)) : IsTrue(ShortValues(current, r)[n])}
       /\ \A r \in Range(InputOf(n)) : ShortValues(current, r)[n] # Error
  BY <1>6, <1>7, <1>8 DEF s
<1>11. /\ UNCHANGED <<input, current, status, selected>> /\ DOMAIN out' = DOMAIN out /\ node' = n + 1
       /\ sel' = [sel EXCEPT ![n] = hits] /\ current <= Len(selections)
  BY <1>1, <1>2, <1>8 DEF Answer, b
<1> QED
  BY <1>9, <1>10, <1>11, AnswerPreserves

LEMMA MergeStep ==
    ASSUME FilterInv, Merge
    PROVE  FilterInv'
<1>1. Busy /\ node \in Tops \ Leaves /\ Here.op = "OR" /\ Answer(node, Union(sel[Here.left], sel[Here.right]))
  BY DEF Merge
<1> DEFINE a == Here.left
           b == Here.right
           s(r) == ShortValues(current, r)
<1>2. /\ FilterTypeOK /\ current \in 1 .. Len(selections) /\ node \in 1 .. Root
      /\ AnsweredAt(current, a) /\ AnsweredAt(current, b)
      /\ sel[a] \in Seq(1 .. ChunkLength) /\ Increasing(sel[a])
      /\ sel[b] \in Seq(1 .. ChunkLength) /\ Increasing(sel[b])
      /\ InputOf(a) = InputOf(node) /\ InputOf(b) = InputOf(node)
      /\ \A r \in Range(InputOf(node)) : r \in 1 .. ChunkLength
  BY <1>1, TopFacts
<1>3. ChunkLength \in Nat
  BY <1>2, InputFacts
<1>4. ASSUME NEW r \in Range(InputOf(node))
      PROVE  s(r)[node] = IF s(r)[a] = Error THEN s(r)[a]
                          ELSE IF s(r)[b] = Error THEN Error
                          ELSE Logical("OR", s(r)[a], s(r)[b])
  BY <1>1, <1>2, TopFacts
<1> HIDE DEF a, b
<1>5. /\ Range(sel[a]) = {r \in Range(InputOf(node)) : IsTrue(s(r)[a])}
      /\ \A r \in Range(InputOf(node)) : s(r)[a] # Error
      /\ Range(sel[b]) = {r \in Range(InputOf(node)) : IsTrue(s(r)[b])}
      /\ \A r \in Range(InputOf(node)) : s(r)[b] # Error
  BY <1>2 DEF AnsweredAt
<1> HIDE DEF s
<1>6. ASSUME NEW r \in Range(InputOf(node))
      PROVE  s(r)[node] # Error /\ (IsTrue(s(r)[node]) <=> IsTrue(s(r)[a]) \/ IsTrue(s(r)[b]))
  <2>1. s(r)[node] = Logical("OR", s(r)[a], s(r)[b])
    BY <1>4, <1>5
  <2> QED
    BY <2>1, LogicalTrue
<1>7. PICK hits \in Seq(1 .. ChunkLength) : /\ hits = Union(sel[a], sel[b]) /\ Increasing(hits)
                                            /\ Range(hits) = Range(sel[a]) \cup Range(sel[b])
  BY <1>2, <1>3, UnionFacts
<1>8. Range(hits) = {r \in Range(InputOf(node)) : IsTrue(s(r)[node])}
  BY <1>5, <1>6, <1>7
<1>9. PICK n \in Tops : n = node
  BY <1>1
<1>10. Increasing(hits) /\ node <= n /\ \A t \in Tops : t < n => t < node
  BY <1>2, <1>7, <1>9
<1>11. /\ Range(hits) = {r \in Range(InputOf(n)) : IsTrue(ShortValues(current, r)[n])}
       /\ \A r \in Range(InputOf(n)) : ShortValues(current, r)[n] # Error
  BY <1>6, <1>8, <1>9 DEF s
<1>12. /\ UNCHANGED <<input, current, status, selected>> /\ DOMAIN out' = DOMAIN out /\ node' = n + 1
       /\ sel' = [sel EXCEPT ![n] = hits] /\ current <= Len(selections)
  BY <1>1, <1>2, <1>7, <1>9 DEF Answer, a, b
<1> QED
  BY <1>10, <1>11, <1>12, AnswerPreserves

(* The chunk is finished: its rows are those of the root.                  *)
LEMMA ChunkDoneStep ==
    ASSUME FilterInv, ChunkDone
    PROVE  FilterInv'
<1>1. /\ FilterTypeOK /\ current \in 1 .. Len(selections) /\ Len(selections) \in Nat
      /\ Root \in Tops /\ Root \in Nat /\ Root = Len(expr) /\ Tops = TopsOf(expr) /\ Tops \subseteq 1 .. Root
      /\ DOMAIN leaf = 1 .. Root
  BY InputFacts, Structure, LeafFacts DEF FilterInv, ChunkDone, FilterTypeOK, Root
<1>2. /\ expr' = expr /\ leaf' = leaf /\ selections' = selections /\ chunks' = chunks
      /\ Root' = Root /\ Tops' = Tops /\ Leaves' = Leaves
      /\ status = "running" /\ UNCHANGED <<out, sel, status>> /\ current' = current + 1 /\ node' = 1
      /\ selected' = Append(selected, sel[Root])
  BY DEF ChunkDone, input, Root, Tops, Leaves
<1>3. /\ sel[Root] \in Seq(1 .. ChunkLength) /\ Increasing(sel[Root])
      /\ selected \in Seq(Seq(1 .. ChunkLength)) /\ Len(selected) = current - 1
  BY <1>1 DEF FilterTypeOK
<1>4. /\ selected' \in Seq(Seq(1 .. ChunkLength)) /\ Len(selected') = current
      /\ selected'[current] = sel[Root]
      /\ \A c \in 1 .. Len(selected) : selected'[c] = selected[c]
  <2>1. ASSUME NEW S, NEW t \in Seq(S), NEW x \in S
        PROVE  /\ Append(t, x) \in Seq(S) /\ Len(Append(t, x)) = Len(t) + 1
               /\ Append(t, x)[Len(t) + 1] = x
               /\ \A i \in 1 .. Len(t) : Append(t, x)[i] = t[i]
    OBVIOUS
  <2>2. /\ selected' \in Seq(Seq(1 .. ChunkLength)) /\ Len(selected') = Len(selected) + 1
        /\ selected'[Len(selected) + 1] = sel[Root]
        /\ \A c \in 1 .. Len(selected) : selected'[c] = selected[c]
    BY <1>2, <1>3, <2>1
  <2>3. Len(selected) + 1 = current
    BY <1>1, <1>3
  <2> QED
    BY <2>2, <2>3
<1>5. FilterTypeOK'
  <2>1. node' \in 1 .. Len(expr) + 1
    BY <1>1, <1>2
  <2>2. current' \in 1 .. Len(selections) + 1 /\ Len(selected') = current' - 1
    BY <1>1, <1>2, <1>4
  <2> QED
    BY <1>1, <1>2, <1>4, <2>1, <2>2 DEF FilterTypeOK
<1>6. Answered'
  BY <1>1, <1>2 DEF Answered
<1>7. Columns'
  <2> SUFFICES ASSUME NEW n \in NodesOf(leaf[1])', n < 1 PROVE FALSE
    BY <1>2 DEF Columns
  <2>1. n \in 1 .. Root
    BY <1>1, <1>2 DEF NodesOf
  <2> QED
    BY <1>1, <2>1
<1>8. Failed'
  BY <1>2 DEF Failed
<1>9. \A c, r : ShortCircuit(c, r)' = ShortCircuit(c, r)
  BY <1>2, MeaningStable DEF ShortCircuit, ChunkDone
<1>10. ASSUME NEW c \in 1 .. current
       PROVE  FinishedAt(c)'
  <2>1. CASE c \in 1 .. Len(selected)
    <3>1. FinishedAt(c)
      BY <2>1 DEF FilterInv
    <3> QED
      BY <1>2, <1>4, <1>9, <2>1, <3>1 DEF FinishedAt
  <2>2. CASE c = current
    <3>1. AnsweredAt(c, Root)
      <4>1. Root < node
        BY <1>1 DEF ChunkDone, FilterTypeOK
      <4> QED
        BY <1>1, <2>2, <4>1 DEF FilterInv, Answered
    <3>2. InputOf(Root) = selections[c]
      BY <1>1, <2>2, InputAtTop
    <3>3. selected'[c] = sel[Root]
      BY <1>4, <2>2
    <3>4. /\ Range(sel[Root]) = {r \in Range(selections[c]) : IsTrue(ShortCircuit(c, r))}
          /\ \A r \in Range(selections[c]) : ShortCircuit(c, r) # Error
      BY <3>1, <3>2 DEF AnsweredAt, ShortCircuit
    <3> QED
      BY <1>2, <1>3, <1>9, <3>3, <3>4 DEF FinishedAt
  <2>3. c \in 1 .. Len(selected) \/ c = current
    BY <1>1, <1>3
  <2> QED
    BY <2>1, <2>2, <2>3
<1>11. \A c \in 1 .. Len(selected') : FinishedAt(c)'
  BY <1>4, <1>10
<1> QED
  BY <1>5, <1>6, <1>7, <1>8, <1>11 DEF FilterInv

-----------------------------------------------------------------------------
(* The theorems.                                                           *)

LEMMA InitStep ==
    ASSUME FilterInit
    PROVE  FilterInv
<1>1. expr \in Seq(Nodes(Name)) /\ PostOrder(expr) /\ leaf = LeafOf(expr)
  BY PredicateAssumption DEF FilterInit
<1>2. Tree(expr)
  BY <1>1, TreeFacts
<1>3. /\ leaf \in [1 .. Len(expr) -> 0 .. Len(expr)] /\ Len(expr) \in TopsOf(expr)
      /\ TopsOf(expr) \subseteq 1 .. Len(expr) /\ Len(expr) \in Nat /\ Len(expr) # 0
      /\ \A n \in 1 .. Len(expr) : leaf[n] = 0 <=> n \in TopsOf(expr) /\ expr[n].kind = "logical"
      /\ \A n \in 1 .. Len(expr) : leaf[n] = n <=> n \in LeavesOf(expr)
  BY <1>1, <1>2, LeafFacts, RootIsTop DEF Tree
<1>4. Tops = TopsOf(expr)
  BY <1>3 DEF Tops, LeavesOf
<1>5. /\ sel \in [TopsOf(expr) -> Seq(1 .. ChunkLength)]
      /\ \A t \in TopsOf(expr) : Increasing(sel[t])
  <2>1. << >> \in Seq(1 .. ChunkLength) /\ Increasing(<< >>)
    BY DEF Increasing
  <2>2. sel = [n \in TopsOf(expr) |-> << >>]
    BY <1>4 DEF FilterInit
  <2> QED
    BY <2>1, <2>2
<1>6. selected = << >> /\ Len(selected) = 0 /\ selected \in Seq(Seq(1 .. ChunkLength)) /\ current = 1
  BY DEF FilterInit
<1>7. Len(selections) \in Nat
  BY SelectionAssumption DEF FilterInit
<1>8. FilterTypeOK
  <2>1. node \in 1 .. Len(expr) + 1 /\ current \in 1 .. Len(selections) + 1 /\ Len(selected) = current - 1
    BY <1>3, <1>6, <1>7 DEF FilterInit
  <2> QED
    BY <1>1, <1>5, <1>6, <2>1 DEF FilterTypeOK, FilterInit
<1>9. Answered
  BY <1>3, <1>4 DEF Answered, FilterInit
<1>10. Columns
  <2> SUFFICES ASSUME NEW n \in NodesOf(leaf[1]), n < 1 PROVE FALSE
    BY DEF Columns, FilterInit
  <2>1. n \in 1 .. Len(expr)
    BY <1>3 DEF NodesOf
  <2> QED
    BY <1>3, <2>1
<1>11. Failed
  BY DEF Failed, FilterInit
<1> QED
  BY <1>6, <1>8, <1>9, <1>10, <1>11 DEF FilterInv

(* A stuttering step.                                                      *)
LEMMA Stutter ==
    ASSUME FilterInv, UNCHANGED filterVars
    PROVE  FilterInv'
<1>1. /\ UNCHANGED <<input, current, node, out, sel, selected>> /\ status' = status
      /\ status \in {"running", "error"}
  BY DEF filterVars, FilterInv, FilterTypeOK
<1>2. /\ selections' = selections /\ \A c, s : ShortCircuit(c, s)' = ShortCircuit(c, s)
  BY <1>1, KeepsPlace
<1>3. Failed'
  BY <1>1, <1>2 DEF FilterInv, Failed
<1> QED
  BY <1>1, <1>3, KeepsPlace DEF FilterInv

LEMMA NextStep ==
    ASSUME FilterInv, [FilterNext]_filterVars
    PROVE  FilterInv'
<1>1. CASE RunColumn
  BY <1>1, ColumnStep
<1>2. CASE RunConstant
  BY <1>2, ConstantStep
<1>3. CASE RunArith
  BY <1>3, ArithStep
<1>4. CASE RunCompare
  BY <1>4, CompareStep
<1>5. CASE RunLogical
  BY <1>5, LogicalStep
<1>6. CASE RunNegate
  BY <1>6, NegateStep
<1>7. CASE RunIsNull
  BY <1>7, IsNullStep
<1>8. CASE RunInSet
  BY <1>8, InSetStep
<1>9. CASE KernelRaises
  BY <1>9, KernelRaisesStep
<1>10. CASE ScanColumn
  BY <1>10, ScanStep
<1>11. CASE Rowwise
  BY <1>11, RowwiseStep
<1>12. CASE RowwiseRaises
  BY <1>12, RowwiseRaisesStep
<1>13. CASE Cascade
  BY <1>13, CascadeStep
<1>14. CASE Merge
  BY <1>14, MergeStep
<1>15. CASE ChunkDone
  BY <1>15, ChunkDoneStep
<1>16. CASE UNCHANGED filterVars
  BY <1>16, Stutter
<1> QED
  BY <1>1, <1>2, <1>3, <1>4, <1>5, <1>6, <1>7, <1>8, <1>9, <1>10, <1>11, <1>12, <1>13, <1>14, <1>15, <1>16
     DEF FilterNext, Finished

(* Behind the next node, every node at the top has selected the rows of    *)
(* its input on which it is true, every node of the leaf at hand holds its *)
(* value on each of them, and a query that failed did so on a row where    *)
(* the short-circuited predicate raises.                                   *)
THEOREM FilterInvariance == FilterSpec => []FilterInv
<1>1. FilterInit => FilterInv
  BY InitStep
<1>2. FilterInv /\ [FilterNext]_filterVars => FilterInv'
  BY NextStep
<1> QED
  BY <1>1, <1>2, PTL DEF FilterSpec

(* Finished chunks keep the rows on which evaluate finds the predicate     *)
(* true, in order, whatever the kernels, the cascade and the merge did.    *)
THEOREM SameRowsTheorem == FilterSpec => []SameRows
<1>1. FilterInv => SameRows
  <2> SUFFICES ASSUME FilterInv, NEW c \in 1 .. Len(selected)
               PROVE  LET hits == selected[c] IN
                      /\ \A i \in 1 .. Len(hits) - 1 : hits[i] < hits[i + 1]
                      /\ \A i \in 1 .. Len(hits) : hits[i] \in {selections[c][j] : j \in 1 .. Len(selections[c])}
                      /\ \A j \in 1 .. Len(selections[c]) :
                           LET r == selections[c][j] IN
                           ValueAt(Root, c, r) # Error =>
                               (IsTrue(ValueAt(Root, c, r)) <=> \E i \in 1 .. Len(hits) : hits[i] = r)
    BY DEF SameRows
  <2> DEFINE hits == selected[c]
             given == selections[c]
  <2>1. /\ FilterTypeOK /\ FinishedAt(c) /\ c \in 1 .. Len(selections) /\ Root \in Tops
        /\ hits \in Seq(1 .. ChunkLength) /\ given \in Seq(1 .. ChunkLength)
    <3>1. FilterTypeOK /\ FinishedAt(c)
      BY DEF FilterInv
    <3>2. Len(selections) \in Nat /\ Root \in Tops /\ \A d \in 1 .. Len(selections) : selections[d] \in Seq(1 .. ChunkLength)
      BY <3>1, InputFacts, Structure
    <3>3. c \in 1 .. Len(selections)
      BY <3>1, <3>2 DEF FilterTypeOK
    <3>4. hits \in Seq(1 .. ChunkLength)
      BY <3>1 DEF FilterTypeOK
    <3> QED
      BY <3>1, <3>2, <3>3, <3>4
  <2>2. ASSUME NEW S, NEW s \in Seq(S)
        PROVE  DOMAIN s = 1 .. Len(s) /\ Len(s) \in Nat /\ \A i \in 1 .. Len(s) : s[i] \in S
    OBVIOUS
  <2>3. /\ DOMAIN hits = 1 .. Len(hits) /\ Len(hits) \in Nat /\ DOMAIN given = 1 .. Len(given)
        /\ \A j \in 1 .. Len(given) : given[j] \in 1 .. ChunkLength
    BY <2>1, <2>2
  <2>4. /\ Increasing(hits)
        /\ Range(hits) = {r \in Range(given) : IsTrue(ShortCircuit(c, r))}
    BY <2>1 DEF FinishedAt
  <2> HIDE DEF hits, given
  <2>5. Range(hits) = {hits[i] : i \in 1 .. Len(hits)} /\ Range(given) = {given[j] : j \in 1 .. Len(given)}
    BY <2>3 DEF Range
  <2>6. \A i \in 1 .. Len(hits) - 1 : hits[i] < hits[i + 1]
    BY <2>3, <2>4 DEF Increasing
  <2>7. \A i \in 1 .. Len(hits) : hits[i] \in {given[j] : j \in 1 .. Len(given)}
    BY <2>4, <2>5
  <2>8. ASSUME NEW j \in 1 .. Len(given), ValueAt(Root, c, given[j]) # Error
        PROVE  IsTrue(ValueAt(Root, c, given[j])) <=> \E i \in 1 .. Len(hits) : hits[i] = given[j]
    <3>1. PICK r \in 1 .. ChunkLength : r = given[j]
      BY <2>3
    <3>2. IsTrue(ShortCircuit(c, r)) <=> IsTrue(ValueAt(Root, c, r))
      BY <2>1, <2>8, <3>1, ShortAgrees DEF ShortCircuit
    <3>3. r \in Range(given)
      BY <2>5, <3>1
    <3>4. r \in Range(hits) <=> IsTrue(ValueAt(Root, c, r))
      BY <2>4, <3>2, <3>3
    <3> QED
      BY <2>5, <3>1, <3>4
  <2> QED
    BY <2>6, <2>7, <2>8 DEF hits, given
<1> QED
  BY <1>1, FilterInvariance, PTL

(* The filter raises exactly where the predicate, read with AND stopping   *)
(* at a left operand that is not true, raises on a row that it was given.  *)
THEOREM SameErrorsTheorem == FilterSpec => []SameErrors
<1>1. FilterInv => SameErrors
  <2> SUFFICES ASSUME FilterInv PROVE SameErrors
    OBVIOUS
  <2>1. FilterTypeOK /\ Failed /\ \A c \in 1 .. Len(selected) : FinishedAt(c)
    BY DEF FilterInv
  <2>2. ASSUME NEW c \in 1 .. Len(selections)
        PROVE  Range(selections[c]) = {selections[c][i] : i \in 1 .. Len(selections[c])}
    <3>1. selections[c] \in Seq(1 .. ChunkLength)
      BY <2>1, InputFacts
    <3>2. ASSUME NEW S, NEW s \in Seq(S) PROVE DOMAIN s = 1 .. Len(s)
      OBVIOUS
    <3>3. DOMAIN selections[c] = 1 .. Len(selections[c])
      BY <3>1, <3>2
    <3> QED
      BY <3>3 DEF Range
  <2>3. status = "error" =>
            \E i \in 1 .. Len(selections[current]) : ShortCircuit(current, selections[current][i]) = Error
    <3> SUFFICES ASSUME status = "error"
                 PROVE  \E i \in 1 .. Len(selections[current]) : ShortCircuit(current, selections[current][i]) = Error
      OBVIOUS
    <3>1. PICK c \in 1 .. Len(selections) : c = current /\ \E r \in Range(selections[c]) : ShortCircuit(c, r) = Error
      BY <2>1 DEF Failed
    <3>2. PICK r \in Range(selections[c]) : ShortCircuit(c, r) = Error
      BY <3>1
    <3>3. PICK i \in 1 .. Len(selections[c]) : r = selections[c][i]
      BY <2>2
    <3> QED
      BY <3>1, <3>2, <3>3
  <2>4. ASSUME NEW c \in 1 .. Len(selected), NEW i \in 1 .. Len(selections[c])
        PROVE  ShortCircuit(c, selections[c][i]) # Error
    <3>1. c \in 1 .. Len(selections)
      <4>1. Len(selections) \in Nat /\ Len(selected) = current - 1 /\ current \in 1 .. Len(selections) + 1
        BY <2>1, InputFacts DEF FilterTypeOK
      <4> QED
        BY <4>1
    <3>2. selections[c][i] \in Range(selections[c])
      BY <2>2, <3>1
    <3> QED
      BY <2>1, <3>2 DEF FinishedAt
  <2> QED
    BY <2>3, <2>4 DEF SameErrors
<1> QED
  BY <1>1, FilterInvariance, PTL
=============================================================================
