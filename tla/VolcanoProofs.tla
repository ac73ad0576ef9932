---------------------------- MODULE VolcanoProofs ----------------------------
(***************************************************************************)
(* Proofs about Volcano for all tables, WHERE clauses, limits and chunk    *)
(* sizes: every scan owns its whole table, the select list fails the query *)
(* exactly when a row of the answer fails, and the engine implements       *)
(* QueryStream.                                                            *)
(***************************************************************************)
EXTENDS Volcano, FiniteSetTheorems, TLAPS

-----------------------------------------------------------------------------
(* What the scan relies on when it skips a chunk; VecPipelineProofs states *)
(* it of the other engine.                                                 *)

(* A comparison that excludes a zone is false on every row of its chunk,   *)
(* NaN rows included.                                                      *)
LEMMA SkipSound ==
    ASSUME NEW n \in Nat, NEW k \in Nat, NEW val, NEW z \in Zone,
           NEW op \in Op, NEW lit \in Value,
           \A r \in 0 .. n - 1 : val[r] \in Value,
           k * ChunkSize \in 0 .. n - 1,
           IsZone(z, val, k, n),
           CanSkipChunk(op, lit, z),
           NEW r \in ChunkRows(k, n)
    PROVE  ~ Compare(op, val[r], lit)
<1> DEFINE Seen == {val[i] : i \in ChunkRows(k, n)} \ {NaN}
<1>1. r \in 0 .. n - 1 /\ val[r] \in Value
  BY DEF ChunkRows
<1>2. Seen \subseteq Int
  BY NumAssumption DEF Value, ChunkRows
<1>3. lit = NaN \/ lit \in Int
  BY NumAssumption DEF Value
<1>4. CASE val[r] = NaN
  <2>1. op # "!="
    BY DEF CanSkipChunk, Op
  <2> QED
    BY <1>4, <2>1 DEF Compare, Less, Same, Op
<1>5. CASE val[r] # NaN /\ val[k * ChunkSize] = NaN
  <2>1. z.min_val = NaN /\ z.max_val = NaN
    BY <1>5 DEF IsZone
  <2> QED
    BY <2>1 DEF CanSkipChunk, Less, Same
<1>6. CASE val[r] # NaN /\ val[k * ChunkSize] # NaN
  <2>1. /\ z.min_val \in Seen /\ \A v \in Seen : z.min_val <= v
        /\ z.max_val \in Seen /\ \A v \in Seen : v <= z.max_val
    BY <1>6 DEF IsZone
  <2>2. val[r] \in Seen
    BY <1>6
  <2>3. /\ z.min_val \in Int /\ z.max_val \in Int /\ val[r] \in Int
        /\ z.min_val <= val[r] /\ val[r] <= z.max_val
    BY <1>2, <2>1, <2>2
  <2> QED
    BY <1>3, <2>3, NaNAssumption DEF CanSkipChunk, Compare, Less, Same, Op
<1> QED
  BY <1>4, <1>5, <1>6

-----------------------------------------------------------------------------
(* The answer as the join sees it: it compares the texts of two keys.      *)

(* The table that side s of the plan reads.                                *)
TableOf(s) == IF s = "from" THEN data["t"] ELSE data[join_table]

Texts == {Text[n] : n \in Num}

Joined ==
    IF HasJoin
    THEN {q \in (DOMAIN data["t"]) \X (DOMAIN data[join_table]) :
            Text[data["t"][q[1]][JoinCol]] = Text[data[join_table][q[2]][JoinCol]]}
    ELSE {<<f, NoTable>> : f \in DOMAIN data["t"]}

Wanted == {q \in Joined : Passes(q[1], q[2])}

(* A comparison joined by AND fails on the FROM row alone.                 *)
Hopeless(f) ==
    \E clause \in where : \A p \in clause : p.slot = 0 /\ ~ Compare(p.op, data["t"][f][p.col], p.lit)

(* The probe row and the build row of a pair, and the order of the answer. *)
ProbeOf(q) == IF swapped THEN q[2] ELSE q[1]
BuildOf(q) == IF swapped THEN q[1] ELSE q[2]

Before(x, y) == \/ ProbeOf(x) < ProbeOf(y)
                \/ ProbeOf(x) = ProbeOf(y) /\ HasJoin /\ BuildOf(x) < BuildOf(y)

-----------------------------------------------------------------------------
(* The inductive invariant.                                                *)

Planning == {"plan_from", "plan_join", "lower_from", "lower_join"}
Upward   == {"filter", "project", "return", "error"}

(* What Init chose and no step changes.                                    *)
Inputs ==
    /\ data \in [DOMAIN data -> Seq([Col -> Value])]
    /\ \A n \in DOMAIN data : \A r \in 1 .. Len(data[n]) : data[n][r][JoinCol] \in Num
    /\ "t" \in DOMAIN data /\ (HasJoin => join_table \in DOMAIN data)
    /\ Len(data["t"]) <= MaxFrom
    /\ HasJoin /\ ~ SelfJoin => Len(data[join_table]) <= MaxJoin
    /\ zone_maps \in [Col -> [ChunkIds(Len(data["t"])) -> Zone]]
    /\ \A c \in Col : \A id \in ChunkIds(Len(data["t"])) :
          IsZone(zone_maps[c][id], ColumnOf(data["t"], c), id, Len(data["t"]))
    /\ where \in Wheres /\ limit \in Limits
    /\ ~ HasJoin => \A clause \in where : \A p \in clause : p.slot = 0

TypeInv ==
    /\ pc \in Planning \cup Upward \cup {"lowered", "build", "next", "pull", "done"}
    /\ scan_rows \in [Side -> Seq([Col -> Value])]
    /\ cursor \in [Side -> Nat]
    /\ \A s \in Side : cursor[s] <= Len(scan_rows[s])
    /\ buffer \in [Side -> Nat \cup {NoTable}]
    /\ hash_table \in [Texts -> Seq(Nat)]
    /\ swapped \in BOOLEAN /\ has_probe_row \in BOOLEAN
    /\ bucket_idx \in Nat /\ count \in Nat

(* Who has which table while the planner hands them out.                   *)
Handed ==
    /\ pc \in {"plan_from", "lower_from"} => tables = data
    /\ pc = "plan_join" =>
          /\ HasJoin
          /\ scan_rows["from"] = data["t"] /\ from_count = Len(data["t"])
          /\ IF SelfJoin THEN kept = data["t"] ELSE tables[join_table] = data[join_table]
    /\ pc = "lower_from" /\ SelfJoin => scan_uses["t"] = 2
    /\ pc = "lower_from" => scan_uses \in [DOMAIN data -> Int]
    /\ pc = "lower_join" =>
          HasJoin /\ scan_rows["from"] = data["t"] /\ tables[join_table] = data[join_table]

(* Nothing has been read while the planner runs; then the larger table     *)
(* probes, and only a join has a probe row, the one that its scan returned *)
(* last.                                                                   *)
Placed ==
    /\ pc \in Planning \cup {"lowered"} => \A s \in Side : cursor[s] = 0
    /\ pc \in Planning \cup {"lowered"} => ~ has_probe_row /\ bucket_idx = 0
    /\ pc \in Planning \cup {"lowered"} => ~ swapped /\ \A t \in Texts : hash_table[t] = << >>
    /\ pc \notin Planning \cup {"lowered"} =>
          swapped = (HasJoin /\ Len(data["t"]) < Len(data[join_table]))
    /\ pc = "build" => HasJoin /\ ~ has_probe_row /\ cursor[Probe] = 0
    /\ pc \notin Planning \cup {"lowered", "build"} /\ HasJoin => AtEnd(Build)
    /\ has_probe_row => /\ HasJoin
                        /\ buffer[Probe] = cursor[Probe] /\ cursor[Probe] # 0
                        /\ bucket_idx <= Len(Bucket)

(* The bucket of a text has, in order, the build rows read so far whose    *)
(* key has this text, except for some that cannot pass WHERE.              *)
Hashed ==
    HasJoin /\ pc \notin Planning \cup {"lowered"} => \A t \in Texts :
        /\ \A i \in 1 .. Len(hash_table[t]) :
              /\ hash_table[t][i] \in 1 .. cursor[Build]
              /\ Text[TableOf(Build)[hash_table[t][i]][JoinCol]] = t
        /\ \A i, j \in 1 .. Len(hash_table[t]) : i < j => hash_table[t][i] < hash_table[t][j]
        /\ \A b \in 1 .. cursor[Build] :
              Text[TableOf(Build)[b][JoinCol]] = t =>
                 \/ Build = "from" /\ Hopeless(b)
                 \/ \E i \in 1 .. Len(hash_table[t]) : hash_table[t][i] = b

(* The pairs of the answer that the engine has gone past.                  *)
Behind(q) ==
    /\ ProbeOf(q) <= cursor[Probe]
    /\ has_probe_row /\ ProbeOf(q) = cursor[Probe] =>
          \E i \in 1 .. bucket_idx : Bucket[i] = BuildOf(q)

Gone == {q \in Wanted : Behind(q)}

(* The row between scan or join and the driver is the last one produced.   *)
Current ==
    pc \in Upward =>
        /\ row \in Joined /\ ProbeOf(row) = cursor[Probe]
        /\ HasJoin => has_probe_row /\ bucket_idx # 0 /\ BuildOf(row) = Bucket[bucket_idx]
        /\ pc # "filter" => row \in Wanted
        /\ pc = "return" => row[1] \notin failing
        /\ pc = "error" => row[1] \in failing

(* What the engine has gone past is delivered, but for the row in hand.    *)
Flow ==
    /\ pc \in Planning \cup {"lowered", "build"} => rows = << >>
    /\ pc \in {"next", "pull"} => Delivered = Gone
    /\ pc \in Upward => Delivered = Gone \ {row}
    /\ pc = "done" => Delivered = Gone /\ (Gone = Wanted \/ (limit # NoLimit /\ count = limit))
    /\ \A q \in Delivered : q[1] \notin failing

Counts ==
    /\ rows \in Seq(Joined) /\ count = Len(rows)
    /\ IsFiniteSet(Ranks(Delivered)) /\ Cardinality(Ranks(Delivered)) = count
    /\ limit # NoLimit => count <= limit
    /\ limit # NoLimit /\ pc \in Upward \cup {"pull"} => count < limit

IInv == Inputs /\ TypeInv /\ Handed /\ ScansWhole /\ Placed /\ Hashed /\ Current /\ Flow /\ Counts

Running == pc \notin Planning \cup {"lowered"}

-----------------------------------------------------------------------------
(* The query and its pairs.                                                *)

USE DEF query, planner, scans, join

LEMMA TablesType ==
    ASSUME NEW n \in Nat, NEW table \in TablesUpTo(n)
    PROVE  /\ table \in Seq([Col -> Value]) /\ Len(table) <= n
           /\ \A r \in 1 .. Len(table) : table[r][JoinCol] \in Num
<1>1. PICK k \in 0 .. n : table \in [1 .. k -> {r \in [Col -> Value] : r[JoinCol] \in Num}]
  BY DEF TablesUpTo
<1>2. k \in Nat /\ table \in Seq([Col -> Value]) /\ Len(table) = k
  BY <1>1
<1> QED
  BY <1>1, <1>2

LEMMA InitInputs == Init => Inputs
<1> SUFFICES ASSUME Init PROVE Inputs
  OBVIOUS
<1> USE SizeAssumption, NoneAssumption
<1>1. /\ "t" \in DOMAIN data
      /\ DOMAIN data = {"t"} \/ DOMAIN data = Table
      /\ data["t"] \in TablesUpTo(MaxFrom)
      /\ "u" \in DOMAIN data => data["u"] \in TablesUpTo(MaxJoin)
      /\ data = [n \in DOMAIN data |-> data[n]]
  BY DEF Init, Table
<1>2. join_table \in (IF "u" \in DOMAIN data THEN {"u"} ELSE {"t", NoTable})
  BY DEF Init
<1>3. \A n \in DOMAIN data : /\ data[n] \in Seq([Col -> Value])
                             /\ \A r \in 1 .. Len(data[n]) : data[n][r][JoinCol] \in Num
  BY <1>1, TablesType DEF Table
<1>4. HasJoin => join_table \in DOMAIN data
  BY <1>1, <1>2 DEF HasJoin
<1>5. Len(data["t"]) <= MaxFrom /\ (HasJoin /\ ~ SelfJoin => Len(data[join_table]) <= MaxJoin)
  BY <1>1, <1>2, TablesType DEF HasJoin, SelfJoin
<1> QED
  BY <1>1, <1>3, <1>4, <1>5 DEF Init, Inputs

LEMMA InitInv == Init => IInv
<1> SUFFICES ASSUME Init PROVE IInv
  OBVIOUS
<1> USE DEF Init
<1>1. Inputs
  BY InitInputs
<1>2. pc \in Planning /\ scan_rows = [s \in Side |-> << >>] /\ rows = << >> /\ count = 0
  BY DEF Planning
<1>3. TypeInv
  <2>1. hash_table \in [Texts -> Seq(Nat)]
    BY DEF Texts
  <2>2. /\ scan_rows \in [Side -> Seq([Col -> Value])] /\ cursor \in [Side -> Nat]
        /\ \A s \in Side : cursor[s] <= Len(scan_rows[s])
    BY <1>2
  <2>3. buffer \in [Side -> Nat \cup {NoTable}]
    OBVIOUS
  <2>4. swapped \in BOOLEAN /\ has_probe_row \in BOOLEAN
    OBVIOUS
  <2>5. bucket_idx \in Nat /\ count \in Nat
    OBVIOUS
  <2>6. pc \in Planning \cup Upward \cup {"lowered", "build", "next", "pull", "done"}
    BY <1>2
  <2> HIDE DEF Init
  <2> QED
    BY <2>1, <2>2, <2>3, <2>4, <2>5, <2>6 DEF TypeInv
<1>4. Handed
  BY <1>1 DEF Handed, Inputs, SelfJoin
<1>5. ScansWhole
  BY <1>2 DEF ScansWhole, Planning
<1>6. Placed /\ Hashed /\ Current
  BY <1>2 DEF Placed, Hashed, Current, Planning, Upward, Side, Texts
<1>7. Delivered = {} /\ Ranks(Delivered) = {}
  BY <1>2 DEF Delivered, Ranks
<1>8. IsFiniteSet(Ranks(Delivered)) /\ Cardinality(Ranks(Delivered)) = 0
  BY <1>7, FS_EmptySet
<1>9. Flow
  BY <1>2, <1>7 DEF Flow, Planning, Upward
<1>10. limit # NoLimit => limit \in Nat
  BY LimitAssumption
<1>11. Counts
  BY <1>2, <1>8, <1>10 DEF Counts, Planning, Upward
<1> QED
  BY <1>1, <1>3, <1>4, <1>5, <1>6, <1>9, <1>11 DEF IInv

(* No action changes the query.                                            *)
LEMMA QueryFixed ==
    ASSUME [Next]_vars
    PROVE  UNCHANGED query
BY DEF Next, vars, PlanFrom, PlanJoin, LowerFrom, LowerJoin, LowerScan, SkipChunk, ScanRow,
       ScanEnd, BuildRow, BuildDone, FetchProbe, Emit, BucketDone, Filter, Project, Return, Ask, Ended

LEMMA DerivedFixed ==
    ASSUME UNCHANGED query
    PROVE  /\ HasJoin' = HasJoin /\ SelfJoin' = SelfJoin /\ Joined' = Joined /\ Wanted' = Wanted
           /\ Qualifying' = Qualifying /\ Inputs' = Inputs
           /\ \A s : TableOf(s)' = TableOf(s)
           /\ \A f : Hopeless(f)' = Hopeless(f)
           /\ \A q : Rank(q)' = Rank(q)
<1>1. HasJoin' = HasJoin /\ SelfJoin' = SelfJoin
  BY DEF HasJoin, SelfJoin
<1>2. Joined' = Joined
  BY <1>1 DEF Joined
<1>3. \A f, j : Passes(f, j)' = Passes(f, j)
  BY DEF Passes
<1>4. Wanted' = Wanted /\ Qualifying' = Qualifying
  BY <1>1, <1>2, <1>3 DEF Wanted, Qualifying, Passes
<1>5. Inputs' = Inputs
  BY <1>1 DEF Inputs, ColumnOf
<1>6. \A s : TableOf(s)' = TableOf(s)
  BY DEF TableOf
<1>7. \A f : Hopeless(f)' = Hopeless(f)
  BY DEF Hopeless
<1>8. \A q : Rank(q)' = Rank(q)
  BY <1>1 DEF Rank
<1> QED
  BY <1>1, <1>2, <1>4, <1>5, <1>6, <1>7, <1>8

(* A pair is its probe row and its build row.                              *)
LEMMA Pairs ==
    ASSUME Inputs, swapped \in BOOLEAN, swapped => HasJoin
    PROVE  /\ \A x \in Joined : ProbeOf(x) \in 1 .. Len(TableOf(Probe))
           /\ HasJoin => \A x \in Joined :
                 /\ BuildOf(x) \in 1 .. Len(TableOf(Build))
                 /\ Text[TableOf(Build)[BuildOf(x)][JoinCol]] = Text[TableOf(Probe)[ProbeOf(x)][JoinCol]]
           /\ \A x, y \in Joined :
                 ProbeOf(x) = ProbeOf(y) /\ (HasJoin => BuildOf(x) = BuildOf(y)) => x = y
<1>1. CASE ~ HasJoin
  <2>1. Joined = {<<f, NoTable>> : f \in DOMAIN data["t"]} /\ TableOf(Probe) = data["t"]
    BY <1>1 DEF Joined, TableOf, Probe
  <2>2. DOMAIN data["t"] = 1 .. Len(data["t"])
    BY DEF Inputs
  <2>3. \A x \in Joined : ProbeOf(x) = x[1] /\ x = <<x[1], NoTable>> /\ x[1] \in DOMAIN data["t"]
    BY <1>1, <2>1 DEF ProbeOf
  <2> QED
    BY <1>1, <2>1, <2>2, <2>3
<1>2. CASE HasJoin
  <2>1. /\ DOMAIN data["t"] = 1 .. Len(data["t"])
        /\ DOMAIN data[join_table] = 1 .. Len(data[join_table])
    BY <1>2 DEF Inputs
  <2>2. \A x \in Joined : /\ x[1] \in DOMAIN data["t"] /\ x[2] \in DOMAIN data[join_table]
                          /\ x = <<x[1], x[2]>>
                          /\ Text[data["t"][x[1]][JoinCol]] = Text[data[join_table][x[2]][JoinCol]]
    BY <1>2 DEF Joined
  <2>3. CASE swapped
    <3>1. TableOf(Probe) = data[join_table] /\ TableOf(Build) = data["t"]
      BY <2>3 DEF TableOf, Probe, Build
    <3> QED
      BY <2>1, <2>2, <2>3, <3>1 DEF ProbeOf, BuildOf
  <2>4. CASE ~ swapped
    <3>1. TableOf(Build) = data[join_table] /\ TableOf(Probe) = data["t"]
      BY <2>4 DEF TableOf, Probe, Build
    <3>2. \A x \in Joined : ProbeOf(x) = x[1] /\ BuildOf(x) = x[2]
      BY <2>4 DEF ProbeOf, BuildOf
    <3>3. \A x \in Joined : /\ x[1] \in 1 .. Len(data["t"]) /\ x[2] \in 1 .. Len(data[join_table])
                            /\ x = <<x[1], x[2]>>
      BY <2>1, <2>2
    <3>4. \A x \in Joined : /\ ProbeOf(x) \in 1 .. Len(TableOf(Probe))
                            /\ BuildOf(x) \in 1 .. Len(TableOf(Build))
      BY <3>1, <3>2, <3>3
    <3>5. \A x \in Joined :
             Text[TableOf(Build)[BuildOf(x)][JoinCol]] = Text[TableOf(Probe)[ProbeOf(x)][JoinCol]]
      BY <2>2, <3>1, <3>2
    <3>6. \A x, y \in Joined : ProbeOf(x) = ProbeOf(y) /\ BuildOf(x) = BuildOf(y) => x = y
      BY <3>2, <3>3
    <3> QED
      BY <1>2, <3>4, <3>5, <3>6
  <2> QED
    BY <2>3, <2>4
<1> QED
  BY <1>1, <1>2

(* A hopeless row is in no pair of the answer.                             *)
LEMMA HopelessFails == \A f, j : Hopeless(f) => ~ Passes(f, j)
BY DEF Hopeless, Passes

(* The scans own the tables.                                               *)
LEMMA Whole ==
    ASSUME IInv, Running
    PROVE  /\ scan_rows["from"] = TableOf("from")
           /\ HasJoin => scan_rows["join"] = TableOf("join")
           /\ swapped => HasJoin
           /\ Len(TableOf("from")) \in Nat
           /\ HasJoin => /\ Len(TableOf("join")) \in Nat
                         /\ Probe \in Side /\ Build \in Side /\ Probe # Build
                         /\ scan_rows[Probe] = TableOf(Probe) /\ scan_rows[Build] = TableOf(Build)
           /\ ~ HasJoin => Probe = "from"
<1>1. /\ scan_rows["from"] = TableOf("from")
      /\ HasJoin => scan_rows["join"] = TableOf("join")
  BY DEF IInv, ScansWhole, Running, Planning, TableOf
<1>2. swapped \in BOOLEAN /\ (swapped => HasJoin)
  BY DEF IInv, Placed, Running, TypeInv
<1>3. Len(TableOf("from")) \in Nat /\ (HasJoin => Len(TableOf("join")) \in Nat)
  BY DEF IInv, Inputs, TableOf
<1> QED
  BY <1>1, <1>2, <1>3 DEF Probe, Build, Side

-----------------------------------------------------------------------------
(* The order of the answer.                                                *)

(* A position in two digits orders by the first, then by the second.       *)
LEMMA TwoDigits ==
    ASSUME NEW M \in Nat, NEW p \in Nat, NEW q \in Nat, NEW b \in Nat, NEW c \in Nat, b < M,
           p < q \/ (p = q /\ b < c)
    PROVE  p * M + b < q * M + c
<1>1. CASE p < q
  <2>1. PICK d \in Nat : q = p + 1 + d
    <3>1. q - p - 1 \in Nat /\ q = p + 1 + (q - p - 1)
      BY <1>1
    <3> QED
      BY <3>1
  <2>2. q * M = p * M + M + d * M
    BY <2>1
  <2>3. p * M \in Nat /\ d * M \in Nat
    BY <2>1
  <2> QED
    BY <2>2, <2>3
<1>2. CASE p = q /\ b < c
  <2>1. p * M \in Nat
    OBVIOUS
  <2> QED
    BY <1>2, <2>1
<1> QED
  BY <1>1, <1>2

(* Rank numbers the pairs in the order in which the engine meets them.     *)
LEMMA RankBefore ==
    ASSUME IInv, Running
    PROVE  /\ \A x \in Joined : Rank(x) \in Nat
           /\ \A x, y \in Joined : Rank(x) < Rank(y) <=> Before(x, y)
           /\ \A x, y \in Joined : Rank(x) = Rank(y) => x = y
<1>0. Inputs /\ swapped \in BOOLEAN /\ (swapped => HasJoin)
  BY Whole DEF IInv, TypeInv
<1>1. \A x \in Joined : /\ ProbeOf(x) \in 1 .. Len(TableOf(Probe))
                        /\ HasJoin => BuildOf(x) \in 1 .. Len(TableOf(Build))
  BY <1>0, Pairs
<1>2. /\ Len(TableOf("from")) \in Nat /\ (HasJoin => Len(TableOf("join")) \in Nat)
      /\ Probe = (IF swapped THEN "join" ELSE "from") /\ Build = (IF swapped THEN "from" ELSE "join")
  BY Whole DEF Probe, Build
<1>3. \A x \in Joined : /\ ProbeOf(x) \in Nat
                        /\ HasJoin => BuildOf(x) \in Nat
  BY <1>0, <1>1, <1>2
<1>4. ASSUME ~ HasJoin
      PROVE  \A x \in Joined : Rank(x) = ProbeOf(x)
  BY <1>0, <1>4 DEF Rank, ProbeOf
<1>5. ASSUME HasJoin
      PROVE  \E M \in Nat : \A x \in Joined :
                BuildOf(x) < M /\ Rank(x) = ProbeOf(x) * M + BuildOf(x)
  <2>1. swapped = (Len(data["t"]) < Len(data[join_table]))
    BY <1>5 DEF IInv, Placed, Running
  <2>2. /\ Len(data["t"]) <= MaxFrom /\ Len(data["t"]) \in Nat /\ Len(data[join_table]) \in Nat
        /\ MaxFrom \in Nat /\ MaxJoin \in Nat
        /\ Len(data[join_table]) <= MaxFrom + MaxJoin
    BY <1>0, <1>5, SizeAssumption DEF Inputs, SelfJoin
  <2>3. CASE swapped
    <3>1. \A x \in Joined : BuildOf(x) < MaxFrom + 1
      BY <1>1, <1>2, <1>5, <2>2, <2>3 DEF TableOf
    <3>2. \A x \in Joined : Rank(x) = ProbeOf(x) * (MaxFrom + 1) + BuildOf(x)
      BY <1>5, <2>1, <2>3 DEF Rank, ProbeOf, BuildOf
    <3> QED
      BY <2>2, <3>1, <3>2
  <2>4. CASE ~ swapped
    <3>1. \A x \in Joined : BuildOf(x) < MaxFrom + MaxJoin + 1
      BY <1>1, <1>2, <1>5, <2>2, <2>4 DEF TableOf
    <3>2. \A x \in Joined : Rank(x) = ProbeOf(x) * (MaxFrom + MaxJoin + 1) + BuildOf(x)
      BY <1>5, <2>1, <2>4 DEF Rank, ProbeOf, BuildOf
    <3> QED
      BY <2>2, <3>1, <3>2
  <2> QED
    BY <2>3, <2>4
<1>6. \A x \in Joined : Rank(x) \in Nat
  <2>1. CASE HasJoin
    <3>1. PICK M \in Nat : \A x \in Joined : BuildOf(x) < M /\ Rank(x) = ProbeOf(x) * M + BuildOf(x)
      BY <1>5, <2>1
    <3>2. \A x \in Joined : ProbeOf(x) * M \in Nat
      BY <1>3
    <3> QED
      BY <1>3, <2>1, <3>1, <3>2
  <2> QED
    BY <1>3, <1>4, <2>1
<1>7. ASSUME NEW x \in Joined, NEW y \in Joined, Before(x, y)
      PROVE  Rank(x) < Rank(y)
  <2>1. CASE HasJoin
    <3>1. PICK M \in Nat : \A z \in Joined : BuildOf(z) < M /\ Rank(z) = ProbeOf(z) * M + BuildOf(z)
      BY <1>5, <2>1
    <3>2. ProbeOf(x) * M + BuildOf(x) < ProbeOf(y) * M + BuildOf(y)
      BY <1>3, <1>7, <2>1, <3>1, TwoDigits DEF Before
    <3> QED
      BY <3>1, <3>2
  <2>2. CASE ~ HasJoin
    BY <1>4, <1>7, <2>2 DEF Before
  <2> QED
    BY <2>1, <2>2
<1>8. ASSUME NEW x \in Joined, NEW y \in Joined
      PROVE  x = y \/ Before(x, y) \/ Before(y, x)
  <2>1. ProbeOf(x) = ProbeOf(y) /\ (HasJoin => BuildOf(x) = BuildOf(y)) => x = y
    BY <1>0, Pairs
  <2> QED
    BY <1>3, <2>1 DEF Before
<1>9. ASSUME NEW x \in Joined, NEW y \in Joined
      PROVE  (Rank(x) < Rank(y) <=> Before(x, y)) /\ (Rank(x) = Rank(y) => x = y)
  BY <1>6, <1>7, <1>8
<1> QED
  BY <1>6, <1>9

-----------------------------------------------------------------------------
(* Chunks that are skipped, buckets, and what lies behind.                 *)

(* Pruning skips only rows that no pair of the answer has.                 *)
LEMMA SkipsHopeless ==
    ASSUME IInv, Running, NEW s \in Side, CanPrune(s)
    PROVE  LET next == cursor[s] + Smaller(ChunkSize, Len(scan_rows[s]) - cursor[s])
           IN  /\ s = "from" /\ next \in Nat
               /\ cursor[s] < next /\ next <= Len(scan_rows[s])
               /\ \A f \in cursor[s] + 1 .. next : Hopeless(f)
<1> DEFINE n == Len(data["t"])
           next == cursor[s] + Smaller(ChunkSize, n - cursor[s])
<1> USE ChunkAssumption
<1>0. Inputs /\ TypeInv
  BY DEF IInv
<1>1. s = "from" /\ scan_rows[s] = data["t"] /\ n \in Nat /\ cursor[s] \in Nat /\ cursor[s] < n
  BY <1>0, Whole DEF CanPrune, TableOf, Inputs, TypeInv
<1>2. /\ next \in Nat /\ cursor[s] < next /\ next <= n /\ next <= cursor[s] + ChunkSize
  BY <1>1 DEF Smaller
<1>3. PICK k \in ChunkIds(n) : cursor[s] = k * ChunkSize /\ ShouldSkip(PruningHint, zone_maps, k)
  BY <1>1 DEF CanPrune
<1>4. PICK p \in Pred : /\ {p} \in PruningHint /\ k \in DOMAIN zone_maps[p.col]
                        /\ CanSkipChunk(p.op, p.lit, zone_maps[p.col][k])
  BY <1>3 DEF ShouldSkip, SimplePredicates
<1>5. PICK clause \in where : \E q \in clause :
                             Cardinality(clause) = 1 /\ q.slot = 0 /\ p = Plain(q)
  BY <1>4 DEF PruningHint
<1>6. PICK q \in clause : Cardinality(clause) = 1 /\ q.slot = 0 /\ p = Plain(q)
  BY <1>5
<1>7. clause = {q}
  <2>1. IsFiniteSet(clause)
    BY <1>0, WhereAssumption DEF Inputs
  <2> QED
    BY <1>6, <2>1, FS_Singleton
<1>8. p.col = q.col /\ p.op = q.op /\ p.lit = q.lit /\ p.col \in Col /\ p.op \in Op /\ p.lit \in Value
  BY <1>6 DEF Plain, Pred
<1> DEFINE val == ColumnOf(data["t"], p.col)
<1>9. /\ k \in Nat /\ zone_maps[p.col][k] \in Zone
      /\ IsZone(zone_maps[p.col][k], val, k, n)
  <2>1. k \in Nat
    BY <1>1, <1>3 DEF ChunkIds
  <2>2. zone_maps \in [Col -> [ChunkIds(n) -> Zone]]
    BY <1>0 DEF Inputs
  <2>3. zone_maps[p.col][k] \in Zone
    BY <1>3, <1>8, <2>2
  <2>4. IsZone(zone_maps[p.col][k], val, k, n)
    BY <1>0, <1>3, <1>8 DEF Inputs
  <2> QED
    BY <2>1, <2>3, <2>4
<1>10. \A r \in 0 .. n - 1 : val[r] = data["t"][r + 1][p.col] /\ val[r] \in Value
  <2>1. data["t"] \in Seq([Col -> Value])
    BY <1>0 DEF Inputs
  <2>2. \A r \in 0 .. n - 1 : data["t"][r + 1] \in [Col -> Value]
    BY <1>1, <2>1
  <2> QED
    BY <1>8, <2>2 DEF ColumnOf
<1>11. ASSUME NEW f \in cursor[s] + 1 .. next
       PROVE  Hopeless(f)
  <2>1. f - 1 \in 0 .. n - 1 /\ cursor[s] <= f - 1 /\ f - 1 < cursor[s] + ChunkSize /\ f \in Nat
    BY <1>1, <1>2
  <2>2. (k + 1) * ChunkSize = k * ChunkSize + ChunkSize
    BY <1>9
  <2>3. f - 1 \in ChunkRows(k, n)
    BY <1>3, <2>1, <2>2 DEF ChunkRows
  <2>4. k * ChunkSize \in 0 .. n - 1
    BY <1>1, <1>3
  <2>5. ~ Compare(p.op, val[f - 1], p.lit)
    <3> HIDE DEF val, n
    <3> QED
      BY <1>1, <1>4, <1>8, <1>9, <1>10, <2>3, <2>4, SkipSound
  <2>6. val[f - 1] = data["t"][f][p.col]
    BY <1>10, <2>1
  <2> QED
    BY <1>6, <1>7, <1>8, <2>5, <2>6 DEF Hopeless
<1> QED
  BY <1>1, <1>2, <1>11

(* The bucket of the probe row has every build row of its answer, in order.*)
LEMMA BucketComplete ==
    ASSUME IInv, has_probe_row
    PROVE  /\ HasJoin /\ Running /\ pc # "build"
           /\ Bucket \in Seq(Nat) /\ cursor[Probe] \in 1 .. Len(TableOf(Probe))
           /\ \A i \in 1 .. Len(Bucket) :
                 /\ Bucket[i] \in 1 .. Len(TableOf(Build))
                 /\ Text[TableOf(Build)[Bucket[i]][JoinCol]] = Text[TableOf(Probe)[cursor[Probe]][JoinCol]]
           /\ \A i, j \in 1 .. Len(Bucket) : i < j => Bucket[i] < Bucket[j]
           /\ \A y \in Wanted : ProbeOf(y) = cursor[Probe] =>
                 \E i \in 1 .. Len(Bucket) : Bucket[i] = BuildOf(y)
<1>0. Inputs /\ TypeInv /\ Placed /\ Hashed
  BY DEF IInv
<1>1. HasJoin /\ Running /\ pc # "build"
  BY <1>0 DEF Placed, Running
<1>2. /\ Probe \in Side /\ Build \in Side
      /\ scan_rows[Probe] = TableOf(Probe) /\ scan_rows[Build] = TableOf(Build)
      /\ swapped => HasJoin
  BY <1>1, Whole
<1>3. cursor[Probe] \in 1 .. Len(TableOf(Probe)) /\ buffer[Probe] = cursor[Probe]
  BY <1>0, <1>2 DEF Placed, TypeInv
<1> DEFINE t == Text[TableOf(Probe)[cursor[Probe]][JoinCol]]
<1>4. t \in Texts /\ Bucket = hash_table[t]
  <2>1. TableOf(Probe)[cursor[Probe]][JoinCol] \in Num
    BY <1>0, <1>1, <1>2, <1>3 DEF Inputs, TableOf
  <2> QED
    BY <1>2, <1>3, <2>1 DEF Bucket, KeyText, Texts
<1>5. cursor[Build] = Len(TableOf(Build)) /\ cursor[Build] \in Nat
  <2>1. AtEnd(Build) /\ cursor[Build] <= Len(scan_rows[Build]) /\ cursor[Build] \in Nat
        /\ Len(scan_rows[Build]) \in Nat
    BY <1>0, <1>1, <1>2 DEF Placed, TypeInv, Running
  <2> QED
    BY <1>2, <2>1 DEF AtEnd
<1>6. Bucket \in Seq(Nat)
  BY <1>0, <1>4 DEF TypeInv
<1> HIDE DEF t
<1>7. /\ \A i \in 1 .. Len(Bucket) :
            /\ Bucket[i] \in 1 .. cursor[Build]
            /\ Text[TableOf(Build)[Bucket[i]][JoinCol]] = t
      /\ \A i, j \in 1 .. Len(Bucket) : i < j => Bucket[i] < Bucket[j]
      /\ \A b \in 1 .. cursor[Build] :
            Text[TableOf(Build)[b][JoinCol]] = t =>
               \/ Build = "from" /\ Hopeless(b)
               \/ \E i \in 1 .. Len(Bucket) : Bucket[i] = b
  BY <1>0, <1>1, <1>4 DEF Hashed, Running
<1>8. ASSUME NEW y \in Wanted, ProbeOf(y) = cursor[Probe]
      PROVE  \E i \in 1 .. Len(Bucket) : Bucket[i] = BuildOf(y)
  <2>1. y \in Joined /\ Passes(y[1], y[2])
    BY DEF Wanted
  <2>2. /\ BuildOf(y) \in 1 .. cursor[Build]
        /\ Text[TableOf(Build)[BuildOf(y)][JoinCol]] = t
    BY <1>0, <1>1, <1>2, <1>5, <1>8, <2>1, Pairs DEF t, TypeInv
  <2>3. ~ (Build = "from" /\ Hopeless(BuildOf(y)))
    <3>1. Build = "from" => BuildOf(y) = y[1]
      BY DEF Build, BuildOf
    <3> QED
      BY <2>1, <3>1, HopelessFails
  <2> QED
    BY <1>7, <2>2, <2>3
<1> QED
  BY <1>1, <1>3, <1>5, <1>6, <1>7, <1>8 DEF t

(* What the engine has gone past comes before everything else it will      *)
(* deliver, and the row in hand is the last of it.                         *)
LEMMA GoneFirst ==
    ASSUME IInv, Running, NEW x \in Gone, NEW y \in Wanted \ Gone
    PROVE  Before(x, y)
<1>1. x \in Joined /\ y \in Joined /\ Behind(x) /\ ~ Behind(y)
  BY DEF Gone, Wanted
<1>2. /\ ProbeOf(x) \in Nat /\ ProbeOf(y) \in Nat /\ cursor[Probe] \in Nat
      /\ HasJoin => BuildOf(x) \in Nat /\ BuildOf(y) \in Nat
      /\ swapped => HasJoin
  BY <1>1, Whole, Pairs DEF IInv, TypeInv, Side, Probe, Inputs
<1>3. CASE ProbeOf(y) > cursor[Probe]
  BY <1>1, <1>2, <1>3 DEF Behind, Before
<1>4. CASE ~ (ProbeOf(y) > cursor[Probe])
  <2>1. has_probe_row /\ ProbeOf(y) = cursor[Probe]
        /\ ~ \E i \in 1 .. bucket_idx : Bucket[i] = BuildOf(y)
    BY <1>1, <1>2, <1>4 DEF Behind
  <2>2. CASE ProbeOf(x) < cursor[Probe]
    BY <2>1, <2>2 DEF Before
  <2>3. CASE ProbeOf(x) = cursor[Probe]
    <3>1. PICK j \in 1 .. Len(Bucket) : Bucket[j] = BuildOf(y)
      BY <2>1, BucketComplete
    <3>2. PICK i \in 1 .. bucket_idx : Bucket[i] = BuildOf(x)
      BY <1>1, <2>1, <2>3 DEF Behind
    <3>3. bucket_idx \in Nat /\ bucket_idx <= Len(Bucket) /\ Len(Bucket) \in Nat
      BY <2>1, BucketComplete DEF IInv, TypeInv, Placed
    <3>4. ~ (j <= bucket_idx)
      BY <2>1, <3>1, <3>3
    <3>5. i \in 1 .. Len(Bucket) /\ i < j
      BY <3>3, <3>4
    <3>6. BuildOf(x) < BuildOf(y) /\ HasJoin
      BY <2>1, <3>1, <3>2, <3>5, BucketComplete
    <3> QED
      BY <2>1, <2>3, <3>6 DEF Before
  <2> QED
    BY <1>1, <1>2, <2>2, <2>3 DEF Behind
<1> QED
  BY <1>3, <1>4

LEMMA CurrentLast ==
    ASSUME IInv, pc \in Upward
    PROVE  /\ Running /\ row \in Joined /\ Behind(row)
           /\ \A q \in Gone : q = row \/ Before(q, row)
<1>0. Running /\ pc # "build"
  BY DEF Running, Upward, Planning
<1>1. /\ row \in Joined /\ ProbeOf(row) = cursor[Probe]
      /\ HasJoin => has_probe_row /\ bucket_idx # 0 /\ BuildOf(row) = Bucket[bucket_idx]
  BY DEF IInv, Current
<1>2. /\ cursor[Probe] \in Nat /\ bucket_idx \in Nat
      /\ has_probe_row => HasJoin
      /\ Inputs /\ swapped \in BOOLEAN /\ (swapped => HasJoin)
  BY <1>0, Whole DEF IInv, TypeInv, Placed, Side, Probe
<1>3. Behind(row)
  BY <1>1, <1>2 DEF Behind
<1>4. ASSUME NEW q \in Gone
      PROVE  q = row \/ Before(q, row)
  <2>1. q \in Joined /\ Behind(q) /\ ProbeOf(q) \in Nat
    BY <1>2, Pairs DEF Gone, Wanted
  <2>2. ProbeOf(q) < cursor[Probe] \/ ProbeOf(q) = cursor[Probe]
    BY <1>2, <2>1 DEF Behind
  <2>3. CASE ProbeOf(q) < cursor[Probe]
    BY <1>1, <2>3 DEF Before
  <2>4. CASE ProbeOf(q) = cursor[Probe] /\ ~ HasJoin
    BY <1>1, <1>2, <2>1, <2>4, Pairs
  <2>5. CASE ProbeOf(q) = cursor[Probe] /\ HasJoin
    <3>1. has_probe_row /\ bucket_idx \in 1 .. Len(Bucket)
      BY <1>1, <1>2, <2>5, BucketComplete DEF IInv, Placed
    <3>2. PICK i \in 1 .. bucket_idx : Bucket[i] = BuildOf(q)
      BY <2>1, <2>5, <3>1 DEF Behind
    <3>3. CASE i = bucket_idx
      <4>1. BuildOf(q) = BuildOf(row) /\ ProbeOf(q) = ProbeOf(row)
        BY <1>1, <2>5, <3>2, <3>3
      <4> QED
        BY <1>1, <1>2, <2>1, <4>1, Pairs
    <3>4. CASE i < bucket_idx
      <4>1. i \in 1 .. Len(Bucket)
        BY <1>2, <3>1, <3>2, <3>4, BucketComplete
      <4>2. Bucket[i] < Bucket[bucket_idx]
        BY <3>1, <3>4, <4>1, BucketComplete
      <4>3. BuildOf(q) < BuildOf(row)
        BY <1>1, <2>5, <3>2, <4>2
      <4> QED
        BY <1>1, <2>5, <4>3 DEF Before
    <3> QED
      BY <3>2, <3>3, <3>4, <1>2
  <2> QED
    BY <2>2, <2>3, <2>4, <2>5
<1> QED
  BY <1>0, <1>1, <1>3, <1>4

-----------------------------------------------------------------------------
(* The planner hands out the tables.                                       *)

(* No row has been read or delivered yet.                                  *)
LEMMA NothingRead ==
    ASSUME IInv, pc \in Planning, UNCHANGED <<query, cursor, buffer, join, count, rows>>,
           swapped' \in BOOLEAN, swapped' => HasJoin, pc' \notin Upward \cup {"pull", "done"}
    PROVE  Counts' /\ Flow' /\ Current'
<1>1. /\ cursor = [s \in Side |-> 0] /\ rows = << >> /\ Inputs
  BY DEF IInv, Placed, Flow, TypeInv
<1>2. Delivered = {} /\ Delivered' = {} /\ Ranks(Delivered)' = Ranks(Delivered)
  BY <1>1, DerivedFixed DEF Delivered, Ranks
<1>3. Counts'
  BY <1>2, DerivedFixed DEF IInv, Counts, Planning, Upward
<1>4. Gone' = {}
  <2>1. \A q \in Joined : ProbeOf(q)' \in Nat /\ ProbeOf(q)' # 0
    <3> SUFFICES ASSUME NEW q \in Joined PROVE ProbeOf(q)' \in Nat /\ ProbeOf(q)' # 0
      OBVIOUS
    <3>1. /\ q[1] \in Nat /\ q[1] # 0
          /\ HasJoin => q[2] \in Nat /\ q[2] # 0
      BY <1>1 DEF Joined, Inputs
    <3> QED
      BY <3>1 DEF ProbeOf
  <2>2. cursor'[Probe'] = 0
    BY <1>1 DEF Probe, Side
  <2> QED
    BY <2>1, <2>2, DerivedFixed DEF Gone, Behind, Wanted
<1>5. Flow'
  BY <1>1, <1>2, <1>4 DEF Flow
<1> QED
  BY <1>3, <1>5 DEF Current

(* A scan gets its table; what it has read is still nothing.               *)
LEMMA ScanFilled ==
    ASSUME IInv, pc \in Planning, NEW s \in Side, NEW table \in Seq([Col -> Value]),
           scan_rows' = [scan_rows EXCEPT ![s] = table],
           UNCHANGED <<cursor, buffer, join, count>>, swapped' \in BOOLEAN,
           pc' \in {"plan_join", "lower_join", "lowered", "build", "next"}
    PROVE  TypeInv' /\ scan_rows'[s] = table /\ \A o \in Side \ {s} : scan_rows'[o] = scan_rows[o]
<1>1. TypeInv /\ \A o \in Side : cursor[o] = 0
  BY DEF IInv, Placed
<1>2. /\ scan_rows' \in [Side -> Seq([Col -> Value])] /\ scan_rows'[s] = table
      /\ \A o \in Side \ {s} : scan_rows'[o] = scan_rows[o]
  BY <1>1 DEF TypeInv
<1>3. \A o \in Side : cursor'[o] <= Len(scan_rows'[o])
  BY <1>1, <1>2
<1> QED
  BY <1>1, <1>2, <1>3 DEF TypeInv, Planning

LEMMA PlanFromStep == IInv /\ PlanFrom => IInv'
<1> SUFFICES ASSUME IInv, PlanFrom PROVE IInv'
  OBVIOUS
<1> USE DEF PlanFrom
<1>0. Inputs /\ TypeInv /\ Handed /\ Placed
  BY DEF IInv
<1>1. /\ pc \in Planning /\ tables = data /\ data["t"] \in Seq([Col -> Value])
      /\ swapped = FALSE /\ "t" \in DOMAIN data /\ data = [n \in DOMAIN data |-> data[n]]
      /\ HasJoin => join_table \in DOMAIN data
  BY <1>0 DEF Handed, Planning, Inputs, Placed, TypeInv
<1>2. TypeInv' /\ scan_rows'["from"] = data["t"]
  BY <1>1, ScanFilled DEF Side
<1>3. Counts' /\ Flow' /\ Current'
  BY <1>1, NothingRead DEF Upward
<1>4. Inputs' /\ HasJoin' = HasJoin /\ SelfJoin' = SelfJoin
  BY <1>0, DerivedFixed
<1>5. Handed'
  <2>1. HasJoin /\ ~ SelfJoin => tables'[join_table] = data[join_table]
    BY <1>1 DEF SelfJoin
  <2> QED
    BY <1>1, <1>2, <1>4, <2>1 DEF Handed
<1>6. ScansWhole' /\ Placed' /\ Hashed'
  BY <1>0, <1>1, <1>2, <1>4 DEF ScansWhole, Placed, Hashed, Planning
<1> QED
  BY <1>2, <1>3, <1>4, <1>5, <1>6 DEF IInv

LEMMA PlanJoinStep == IInv /\ PlanJoin => IInv'
<1> SUFFICES ASSUME IInv, PlanJoin PROVE IInv'
  OBVIOUS
<1> USE DEF PlanJoin
<1>0. Inputs /\ TypeInv /\ Handed /\ Placed
  BY DEF IInv
<1>1. /\ pc \in Planning /\ HasJoin /\ scan_rows["from"] = data["t"] /\ from_count = Len(data["t"])
      /\ IF SelfJoin THEN kept = data["t"] ELSE tables[join_table] = data[join_table]
      /\ data[join_table] \in Seq([Col -> Value])
  BY <1>0 DEF Handed, Planning, Inputs
<1>2. /\ swapped' = (Len(data["t"]) < Len(data[join_table]))
      /\ scan_rows' = [scan_rows EXCEPT !["join"] = data[join_table]]
  BY <1>1 DEF SelfJoin
<1>3. TypeInv' /\ scan_rows'["join"] = data[join_table] /\ scan_rows'["from"] = data["t"]
  <2>1. swapped' \in BOOLEAN
    BY <1>2
  <2> QED
    BY <1>1, <1>2, <2>1, ScanFilled DEF Side
<1>4. Counts' /\ Flow' /\ Current'
  BY <1>1, <1>2, NothingRead DEF Upward
<1>5. Inputs' /\ HasJoin' = HasJoin
  BY <1>0, DerivedFixed
<1>6. /\ \A s \in Side : cursor'[s] = 0
      /\ ~ has_probe_row' /\ \A t \in Texts : hash_table'[t] = << >>
  BY <1>0, <1>1 DEF Placed
<1>7. Probe' \in Side /\ Build' \in Side
  BY DEF Probe, Build, Side
<1>8. Handed' /\ ScansWhole' /\ Placed'
  BY <1>1, <1>2, <1>3, <1>5, <1>6, <1>7 DEF Handed, ScansWhole, Placed, Planning
<1>9. Hashed'
  BY <1>6, <1>7 DEF Hashed
<1> QED
  BY <1>3, <1>4, <1>5, <1>8, <1>9 DEF IInv

LEMMA LowerFromStep == IInv /\ LowerFrom => IInv'
<1> SUFFICES ASSUME IInv, LowerFrom PROVE IInv'
  OBVIOUS
<1> USE DEF LowerFrom, LowerScan
<1>0. Inputs /\ TypeInv /\ Handed /\ Placed
  BY DEF IInv
<1>1. /\ pc \in Planning /\ tables = data /\ data["t"] \in Seq([Col -> Value])
      /\ swapped = FALSE /\ "t" \in DOMAIN data /\ data = [n \in DOMAIN data |-> data[n]]
      /\ HasJoin => join_table \in DOMAIN data
      /\ scan_uses \in [DOMAIN data -> Int] /\ (SelfJoin => scan_uses["t"] = 2)
  BY <1>0 DEF Handed, Planning, Inputs, Placed, TypeInv
<1>2. TypeInv' /\ scan_rows'["from"] = data["t"]
  BY <1>1, ScanFilled DEF Side
<1>3. Counts' /\ Flow' /\ Current'
  BY <1>1, NothingRead DEF Upward
<1>4. Inputs' /\ HasJoin' = HasJoin /\ SelfJoin' = SelfJoin
  BY <1>0, DerivedFixed
<1>5. Handed'
  <2>1. SelfJoin => scan_uses'["t"] > 0
    BY <1>1
  <2>2. HasJoin => tables'[join_table] = data[join_table]
    BY <1>1, <2>1 DEF SelfJoin
  <2> QED
    BY <1>1, <1>2, <1>4, <2>2 DEF Handed
<1>6. ScansWhole'
  BY <1>2, <1>4 DEF ScansWhole, Planning
<1>7. Placed' /\ Hashed'
  BY <1>0, <1>1, <1>4 DEF Placed, Hashed, Planning
<1> QED
  BY <1>2, <1>3, <1>4, <1>5, <1>6, <1>7 DEF IInv

LEMMA LowerJoinStep == IInv /\ LowerJoin => IInv'
<1> SUFFICES ASSUME IInv, LowerJoin PROVE IInv'
  OBVIOUS
<1> USE DEF LowerJoin, LowerScan
<1>0. Inputs /\ TypeInv /\ Handed /\ Placed
  BY DEF IInv
<1>1. /\ pc \in Planning /\ HasJoin /\ scan_rows["from"] = data["t"] /\ swapped = FALSE
      /\ tables[join_table] = data[join_table] /\ data[join_table] \in Seq([Col -> Value])
  BY <1>0 DEF Handed, Planning, Inputs, Placed, TypeInv
<1>2. TypeInv' /\ scan_rows'["join"] = data[join_table] /\ scan_rows'["from"] = data["t"]
  BY <1>1, ScanFilled DEF Side
<1>3. Counts' /\ Flow' /\ Current'
  BY <1>1, NothingRead DEF Upward
<1>4. Inputs' /\ HasJoin' = HasJoin
  BY <1>0, DerivedFixed
<1>5. Handed' /\ ScansWhole'
  BY <1>2, <1>4 DEF Handed, ScansWhole
<1>6. Placed' /\ Hashed'
  BY <1>0, <1>1, <1>4 DEF Placed, Hashed, Planning
<1> QED
  BY <1>2, <1>3, <1>4, <1>5, <1>6 DEF IInv

-----------------------------------------------------------------------------
(* The operators run.                                                      *)

(* They leave the query, the planner's choices and the tables alone.       *)
LEMMA OperatorKeeps ==
    ASSUME IInv, Running, UNCHANGED <<query, planner, scan_rows>>,
           pc' \in Upward \cup {"build", "next", "pull", "done"}
    PROVE  /\ Inputs' /\ Handed' /\ ScansWhole' /\ Running'
           /\ HasJoin' = HasJoin /\ Joined' = Joined /\ Wanted' = Wanted
           /\ Probe' = Probe /\ Build' = Build
           /\ \A q : ProbeOf(q)' = ProbeOf(q) /\ BuildOf(q)' = BuildOf(q)
           /\ \A s : TableOf(s)' = TableOf(s)
           /\ \A f : Hopeless(f)' = Hopeless(f)
           /\ swapped' = (HasJoin /\ Len(data["t"]) < Len(data[join_table]))'
<1>1. Inputs' /\ HasJoin' = HasJoin
  BY DerivedFixed DEF IInv
<1>2. Running' /\ Handed'
  BY DEF Running, Handed, Planning, Upward
<1>3. ScansWhole'
  BY <1>1 DEF IInv, ScansWhole, Running, Planning
<1>4. swapped' = (HasJoin /\ Len(data["t"]) < Len(data[join_table]))'
  BY <1>1 DEF IInv, Placed, Running
<1> QED
  BY <1>1, <1>2, <1>3, <1>4, DerivedFixed DEF Probe, Build, ProbeOf, BuildOf

(* The hash table stays what it is when the build side is not read.        *)
LEMMA HashedKept ==
    ASSUME IInv, Running, UNCHANGED <<query, planner, scan_rows, hash_table>>,
           HasJoin => cursor'[Build] = cursor[Build],
           pc' \in Upward \cup {"build", "next", "pull", "done"}
    PROVE  Hashed'
<1>1. /\ HasJoin' = HasJoin /\ Build' = Build
      /\ \A s : TableOf(s)' = TableOf(s)
      /\ \A f : Hopeless(f)' = Hopeless(f)
  BY OperatorKeeps
<1> SUFFICES ASSUME HasJoin, NEW t \in Texts
             PROVE  /\ \A i \in 1 .. Len(hash_table[t]) :
                          /\ hash_table[t][i] \in 1 .. cursor[Build]
                          /\ Text[TableOf(Build)[hash_table[t][i]][JoinCol]] = t
                    /\ \A i, j \in 1 .. Len(hash_table[t]) : i < j => hash_table[t][i] < hash_table[t][j]
                    /\ \A b \in 1 .. cursor[Build] :
                          Text[TableOf(Build)[b][JoinCol]] = t =>
                             \/ Build = "from" /\ Hopeless(b)
                             \/ \E i \in 1 .. Len(hash_table[t]) : hash_table[t][i] = b
  BY <1>1 DEF Hashed
<1> QED
  BY DEF IInv, Hashed, Running

(* Nor do the counts when no row reaches the driver.                       *)
LEMMA CountsKept ==
    ASSUME IInv, UNCHANGED <<query, count, rows>>,
           pc' \in Upward \cup {"pull"} => pc \in Upward \cup {"pull"}
    PROVE  Counts' /\ Delivered' = Delivered
<1>1. Delivered' = Delivered
  BY DEF Delivered
<1>2. Ranks(Delivered)' = Ranks(Delivered)
  BY <1>1, DerivedFixed DEF Ranks
<1> QED
  BY <1>1, <1>2, DerivedFixed DEF IInv, Counts

(* Nothing is behind before the first probe row.                           *)
LEMMA NothingBehind ==
    ASSUME IInv, Running, UNCHANGED <<query, planner, scan_rows>>,
           pc' \in Upward \cup {"build", "next", "pull", "done"}, cursor'[Probe] = 0
    PROVE  Gone' = {}
<1>1. \A q \in Joined : ProbeOf(q) \in Nat /\ ProbeOf(q) # 0
  BY Whole, Pairs DEF IInv, TypeInv
<1> QED
  BY <1>1, OperatorKeeps DEF Gone, Behind, Wanted

LEMMA SkipChunkStep == IInv /\ SkipChunk => IInv'
<1> SUFFICES ASSUME IInv, SkipChunk PROVE IInv'
  OBVIOUS
<1>0. Inputs /\ TypeInv /\ Placed /\ Flow /\ Current /\ Hashed
  BY DEF IInv
<1>1. PICK s \in Side :
        /\ Asked(s) /\ CanPrune(s)
        /\ cursor' = [cursor EXCEPT ![s] = @ + Smaller(ChunkSize, Len(scan_rows[s]) - @)]
        /\ UNCHANGED <<query, pc, planner, scan_rows, buffer, join, row, count, rows>>
  BY DEF SkipChunk
<1>2. Running /\ pc \in {"build", "pull"} /\ pc' = pc
  BY <1>1 DEF Asked, Running, Planning
<1> DEFINE next == cursor[s] + Smaller(ChunkSize, Len(scan_rows[s]) - cursor[s])
<1>3. /\ s = "from" /\ next \in Nat /\ cursor[s] < next /\ next <= Len(scan_rows[s])
      /\ \A f \in cursor[s] + 1 .. next : Hopeless(f)
  BY <1>1, <1>2, SkipsHopeless
<1>4. cursor'[s] = next /\ cursor' \in [Side -> Nat] /\ \A o \in Side \ {s} : cursor'[o] = cursor[o]
  BY <1>0, <1>1, <1>3 DEF TypeInv
<1> HIDE DEF next
<1>5. TypeInv'
  BY <1>0, <1>1, <1>3, <1>4 DEF TypeInv
<1>6. Inputs' /\ Handed' /\ ScansWhole' /\ Counts' /\ Delivered' = Delivered
  BY <1>1, <1>2, OperatorKeeps, CountsKept
<1>7. Probe \in Side /\ Build \in Side /\ Probe # Build /\ (~ HasJoin => Probe = "from")
      /\ Probe' = Probe /\ Build' = Build /\ HasJoin' = HasJoin
  BY <1>1, <1>2, Whole, OperatorKeeps DEF Probe, Build, Side
<1>8. Current'
  BY <1>2 DEF Current, Upward
<1>9. CASE pc = "build"
  <2>1. s = Build /\ HasJoin /\ cursor'[Probe] = cursor[Probe]
    BY <1>0, <1>1, <1>4, <1>7, <1>9 DEF Asked, Placed
  <2>2. Placed'
    BY <1>0, <1>1, <1>2, <1>7, <1>9, <2>1, OperatorKeeps DEF Placed, Running, Planning
  <2>3. Flow'
    BY <1>0, <1>1, <1>2, <1>6, <1>9 DEF Flow, Upward
  <2>4. Hashed'
    <3> SUFFICES ASSUME NEW t \in Texts
                 PROVE  /\ \A i \in 1 .. Len(hash_table[t]) :
                              /\ hash_table[t][i] \in 1 .. next
                              /\ Text[TableOf(Build)[hash_table[t][i]][JoinCol]] = t
                        /\ \A i, j \in 1 .. Len(hash_table[t]) : i < j => hash_table[t][i] < hash_table[t][j]
                        /\ \A b \in 1 .. next :
                              Text[TableOf(Build)[b][JoinCol]] = t =>
                                 \/ Build = "from" /\ Hopeless(b)
                                 \/ \E i \in 1 .. Len(hash_table[t]) : hash_table[t][i] = b
      BY <1>1, <1>2, <1>4, <1>7, <2>1, OperatorKeeps DEF Hashed
    <3>1. /\ \A i \in 1 .. Len(hash_table[t]) :
                /\ hash_table[t][i] \in 1 .. cursor[Build]
                /\ Text[TableOf(Build)[hash_table[t][i]][JoinCol]] = t
          /\ \A i, j \in 1 .. Len(hash_table[t]) : i < j => hash_table[t][i] < hash_table[t][j]
          /\ \A b \in 1 .. cursor[Build] :
                Text[TableOf(Build)[b][JoinCol]] = t =>
                   \/ Build = "from" /\ Hopeless(b)
                   \/ \E i \in 1 .. Len(hash_table[t]) : hash_table[t][i] = b
      BY <1>0, <1>2, <2>1 DEF Hashed, Running
    <3>2. cursor[Build] \in Nat /\ cursor[Build] < next /\ next \in Nat
      BY <1>0, <1>3, <2>1 DEF TypeInv
    <3>3. \A b \in 1 .. next : b \in 1 .. cursor[Build] \/ (Build = "from" /\ Hopeless(b))
      BY <1>3, <2>1, <3>2
    <3> QED
      BY <3>1, <3>2, <3>3
  <2> QED
    BY <1>5, <1>6, <1>8, <2>2, <2>3, <2>4 DEF IInv
<1>10. CASE pc = "pull"
  <2>1. s = Probe /\ ~ has_probe_row /\ (HasJoin => cursor'[Build] = cursor[Build])
    BY <1>0, <1>1, <1>4, <1>7, <1>10 DEF Asked, Placed
  <2>2. Placed'
    BY <1>0, <1>1, <1>2, <1>7, <1>10, <2>1, OperatorKeeps DEF Placed, Running, Planning, AtEnd
  <2>3. Hashed'
    BY <1>1, <1>2, <2>1, HashedKept
  <2>4. \A q \in Wanted : ProbeOf(q) <= next <=> ProbeOf(q) <= cursor[s]
    <3> SUFFICES ASSUME NEW q \in Wanted PROVE ProbeOf(q) <= next <=> ProbeOf(q) <= cursor[s]
      OBVIOUS
    <3>1. ProbeOf(q) = q[1] /\ ~ Hopeless(q[1])
      BY <1>3, <2>1, HopelessFails DEF Wanted, ProbeOf, Probe
    <3>2. ProbeOf(q) \in Nat
      BY <1>0, <1>2, Whole, Pairs DEF TypeInv, Wanted
    <3> QED
      BY <1>0, <1>3, <3>1, <3>2 DEF TypeInv
  <2>5. Gone' = Gone
    BY <1>1, <1>2, <1>4, <1>7, <2>1, <2>4, OperatorKeeps DEF Gone, Behind
  <2>6. Flow'
    BY <1>0, <1>1, <1>2, <1>6, <1>10, <2>5 DEF Flow, Upward, Planning
  <2> QED
    BY <1>5, <1>6, <1>8, <2>2, <2>3, <2>6 DEF IInv
<1> QED
  BY <1>2, <1>9, <1>10

LEMMA ScanRowStep == IInv /\ ScanRow => IInv'
<1> SUFFICES ASSUME IInv, ScanRow PROVE IInv'
  OBVIOUS
<1> USE DEF ScanRow, ScanNext
<1>0. Inputs /\ TypeInv /\ Placed /\ Flow
  BY DEF IInv
<1>1. /\ ~ HasJoin /\ pc = "pull" /\ Running /\ pc' = "filter" /\ ~ has_probe_row
      /\ Probe = "from" /\ scan_rows["from"] = data["t"] /\ swapped = FALSE
      /\ data["t"] \in Seq([Col -> Value])
  BY <1>0, Whole DEF Asked, Running, Planning, Placed, Inputs, TableOf, TypeInv, Probe
<1>2. /\ cursor["from"] \in Nat /\ cursor["from"] + 1 <= Len(data["t"])
      /\ cursor' \in [Side -> Nat] /\ cursor'["from"] = cursor["from"] + 1
      /\ cursor'["join"] = cursor["join"]
      /\ buffer' \in [Side -> Nat \cup {NoTable}] /\ buffer'["from"] = cursor["from"] + 1
  BY <1>0, <1>1 DEF TypeInv, HasNext, Side
<1>3. TypeInv'
  BY <1>0, <1>1, <1>2 DEF TypeInv, Side, Upward
<1>4. Inputs' /\ Handed' /\ ScansWhole' /\ Counts' /\ Delivered' = Delivered
  BY <1>1, OperatorKeeps, CountsKept DEF Upward
<1>5. /\ Probe' = Probe /\ HasJoin' = HasJoin /\ Joined' = Joined /\ Wanted' = Wanted
      /\ \A q : ProbeOf(q)' = ProbeOf(q)
  BY <1>1, OperatorKeeps DEF Upward
<1>6. Placed' /\ Hashed'
  BY <1>0, <1>1, <1>5 DEF Placed, Hashed, Running, Planning
<1>7. row' = <<cursor["from"] + 1, NoTable>> /\ row' \in Joined /\ ProbeOf(row') = cursor["from"] + 1
  <2>1. row' = <<cursor["from"] + 1, NoTable>> /\ cursor["from"] + 1 \in DOMAIN data["t"]
    BY <1>1, <1>2
  <2> QED
    BY <1>1, <2>1 DEF Joined, ProbeOf
<1>8. Current'
  <2>1. ProbeOf(row)' = ProbeOf(row')
    BY <1>1 DEF ProbeOf
  <2> QED
    BY <1>1, <1>2, <1>5, <1>7, <2>1 DEF Current
<1>9. Gone = Gone' \ {row'}
  <2>1. Gone = {q \in Wanted : ProbeOf(q) <= cursor["from"]}
    BY <1>1 DEF Gone, Behind
  <2>2. Gone' = {q \in Wanted : ProbeOf(q) <= cursor["from"] + 1}
    BY <1>1, <1>2, <1>5 DEF Gone, Behind
  <2>3. \A q \in Wanted : ProbeOf(q) \in Nat /\ (ProbeOf(q) = cursor["from"] + 1 => q = row')
    <3>1. \A q \in Joined : ProbeOf(q) \in 1 .. Len(TableOf(Probe))
      BY <1>0, <1>1, Pairs
    <3>2. \A q \in Joined : ProbeOf(q) = ProbeOf(row') => q = row'
      BY <1>0, <1>1, <1>7, Pairs
    <3> QED
      BY <1>7, <3>1, <3>2 DEF Wanted
  <2> QED
    BY <1>2, <1>7, <2>1, <2>2, <2>3
<1>10. Flow'
  BY <1>0, <1>1, <1>4, <1>9 DEF Flow, Upward, Planning
<1> QED
  BY <1>3, <1>4, <1>6, <1>8, <1>10 DEF IInv

LEMMA ScanEndStep == IInv /\ ScanEnd => IInv'
<1> SUFFICES ASSUME IInv, ScanEnd PROVE IInv'
  OBVIOUS
<1> USE DEF ScanEnd
<1>0. Inputs /\ TypeInv /\ Placed /\ Flow
  BY DEF IInv
<1>1. /\ pc = "pull" /\ Running /\ pc' = "done" /\ ~ has_probe_row
      /\ AtEnd(Probe) /\ scan_rows[Probe] = TableOf(Probe) /\ cursor[Probe] \in Nat
      /\ Len(TableOf(Probe)) \in Nat
  BY <1>0, Whole DEF Running, Planning, Placed, TypeInv, Side
<1>2. TypeInv' /\ Inputs' /\ Handed' /\ ScansWhole' /\ Counts' /\ Delivered' = Delivered
  BY <1>0, <1>1, OperatorKeeps, CountsKept DEF TypeInv, Upward
<1>3. Placed' /\ Hashed' /\ Current'
  BY <1>0, <1>1, OperatorKeeps, HashedKept
  DEF Placed, Running, Planning, Current, Upward, AtEnd
<1>4. Gone = Wanted
  <2>1. \A q \in Wanted : ProbeOf(q) \in 1 .. Len(TableOf(Probe))
    BY <1>0, <1>1, Whole, Pairs DEF Wanted, TypeInv
  <2> QED
    BY <1>1, <2>1 DEF Gone, Behind, AtEnd
<1>5. Gone' = Gone /\ Wanted' = Wanted
  BY <1>1, OperatorKeeps DEF Gone, Behind, Bucket, KeyText
<1>6. Flow'
  BY <1>0, <1>1, <1>2, <1>4, <1>5 DEF Flow, Upward, Planning
<1> QED
  BY <1>2, <1>3, <1>6 DEF IInv

-----------------------------------------------------------------------------
(* The join.                                                               *)

LEMMA BuildRowStep == IInv /\ BuildRow => IInv'
<1> SUFFICES ASSUME IInv, BuildRow PROVE IInv'
  OBVIOUS
<1> USE DEF BuildRow, ScanNext
<1>0. Inputs /\ TypeInv /\ Placed /\ Flow /\ Hashed
  BY DEF IInv
<1>1. /\ pc = "build" /\ pc' = "build" /\ Running /\ HasJoin /\ ~ has_probe_row
      /\ Probe \in Side /\ Build \in Side /\ Probe # Build
      /\ scan_rows[Build] = TableOf(Build)
  BY <1>0, Whole DEF Running, Planning, Placed
<1> DEFINE b == cursor[Build] + 1
           text == Text[TableOf(Build)[b][JoinCol]]
<1>2. /\ cursor[Build] \in Nat /\ b \in Nat /\ b <= Len(TableOf(Build)) /\ b \in 1 .. Len(TableOf(Build))
      /\ cursor' \in [Side -> Nat] /\ cursor'[Build] = b
      /\ \A o \in Side \ {Build} : cursor'[o] = cursor[o]
      /\ buffer' \in [Side -> Nat \cup {NoTable}] /\ buffer'[Build] = b
  <2>1. cursor[Build] \in Nat /\ cursor[Build] < Len(scan_rows[Build]) /\ Len(scan_rows[Build]) \in Nat
    BY <1>0, <1>1 DEF TypeInv, HasNext
  <2> QED
    BY <1>0, <1>1, <2>1 DEF TypeInv
<1>3. text \in Texts
  <2>1. TableOf(Build)[b][JoinCol] \in Num
    BY <1>0, <1>1, <1>2 DEF Inputs, TableOf
  <2> QED
    BY <2>1 DEF Texts
<1>4. hash_table' = [hash_table EXCEPT ![text] = Append(@, b)]
  BY <1>1, <1>2 DEF KeyText
<1> HIDE DEF text, b
<1>5. /\ hash_table' \in [Texts -> Seq(Nat)]
      /\ hash_table'[text] = Append(hash_table[text], b)
      /\ \A t \in Texts : t # text => hash_table'[t] = hash_table[t]
  BY <1>0, <1>2, <1>3, <1>4 DEF TypeInv
<1>6. TypeInv'
  <2>1. \A s \in Side : cursor'[s] <= Len(scan_rows'[s])
    BY <1>0, <1>1, <1>2 DEF TypeInv
  <2> QED
    BY <1>0, <1>1, <1>2, <1>5, <2>1 DEF TypeInv
<1>7. Inputs' /\ Handed' /\ ScansWhole' /\ Counts' /\ Delivered' = Delivered
  BY <1>1, OperatorKeeps, CountsKept DEF Upward
<1>8. /\ Probe' = Probe /\ Build' = Build /\ HasJoin' = HasJoin
      /\ \A s : TableOf(s)' = TableOf(s)
      /\ \A f : Hopeless(f)' = Hopeless(f)
      /\ swapped' = (HasJoin /\ Len(data["t"]) < Len(data[join_table]))'
  BY <1>1, OperatorKeeps
<1>9. Placed'
  BY <1>0, <1>1, <1>2, <1>8 DEF Placed, Planning
<1>10. Hashed'
  <2> HIDE DEF BuildRow, ScanNext
  <2> SUFFICES ASSUME NEW t \in Texts
               PROVE  /\ \A i \in 1 .. Len(hash_table'[t]) :
                            /\ hash_table'[t][i] \in 1 .. b
                            /\ Text[TableOf(Build)[hash_table'[t][i]][JoinCol]] = t
                      /\ \A i, j \in 1 .. Len(hash_table'[t]) : i < j => hash_table'[t][i] < hash_table'[t][j]
                      /\ \A c \in 1 .. b :
                            Text[TableOf(Build)[c][JoinCol]] = t =>
                               \/ Build = "from" /\ Hopeless(c)
                               \/ \E i \in 1 .. Len(hash_table'[t]) : hash_table'[t][i] = c
    <3>1. Build' = Build /\ cursor'[Build'] = b /\ TableOf(Build)' = TableOf(Build) /\ \A f : Hopeless(f)' <=> Hopeless(f)
      BY <1>2, <1>8
    <3>2. ASSUME NEW t \in Texts
          PROVE  /\ \A i \in 1 .. Len(hash_table'[t]) :
                       /\ hash_table'[t][i] \in 1 .. cursor'[Build']
                       /\ Text[TableOf(Build)'[hash_table'[t][i]][JoinCol]] = t
                 /\ \A i, j \in 1 .. Len(hash_table'[t]) : i < j => hash_table'[t][i] < hash_table'[t][j]
                 /\ \A c \in 1 .. cursor'[Build'] :
                       Text[TableOf(Build)'[c][JoinCol]] = t =>
                          \/ Build' = "from" /\ Hopeless(c)'
                          \/ \E i \in 1 .. Len(hash_table'[t]) : hash_table'[t][i] = c
      BY <3>1
    <3> QED
      BY <3>2, Zenon DEF Hashed
  <2>1. /\ \A i \in 1 .. Len(hash_table[t]) :
              /\ hash_table[t][i] \in 1 .. cursor[Build]
              /\ Text[TableOf(Build)[hash_table[t][i]][JoinCol]] = t
        /\ \A i, j \in 1 .. Len(hash_table[t]) : i < j => hash_table[t][i] < hash_table[t][j]
        /\ \A c \in 1 .. cursor[Build] :
              Text[TableOf(Build)[c][JoinCol]] = t =>
                 \/ Build = "from" /\ Hopeless(c)
                 \/ \E i \in 1 .. Len(hash_table[t]) : hash_table[t][i] = c
    BY <1>0, <1>1 DEF Hashed, Running
  <2>2. b = cursor[Build] + 1 /\ 1 .. b = 1 .. cursor[Build] \cup {b} /\ b \notin 1 .. cursor[Build]
    BY <1>2 DEF b
  <2>3. CASE t # text
    <3>1. Text[TableOf(Build)[b][JoinCol]] # t
      BY <2>3 DEF text
    <3>2. hash_table'[t] = hash_table[t]
      BY <1>5, <2>3
    <3>3. \A c \in 1 .. b : Text[TableOf(Build)[c][JoinCol]] = t => c \in 1 .. cursor[Build]
      BY <2>2, <3>1
    <3>4. \A c \in 1 .. cursor[Build] : c \in 1 .. b
      BY <2>2
    <3> QED
      BY <2>1, <3>2, <3>3, <3>4
  <2>4. CASE t = text
    <3> DEFINE old == hash_table[t]
               new == hash_table'[t]
    <3>1. old \in Seq(Nat) /\ new = Append(old, b)
      BY <1>0, <1>5, <2>4 DEF TypeInv
    <3>2. /\ Len(old) \in Nat /\ Len(new) = Len(old) + 1 /\ new[Len(old) + 1] = b
          /\ \A i \in 1 .. Len(old) : new[i] = old[i]
      BY <1>2, <3>1
    <3>3. 1 .. Len(new) = 1 .. Len(old) \cup {Len(old) + 1}
      BY <3>2
    <3>4. Text[TableOf(Build)[b][JoinCol]] = t
      BY <2>4 DEF text
    <3> HIDE DEF old, new
    <3>5. /\ \A i \in 1 .. Len(old) :
                /\ old[i] \in 1 .. cursor[Build]
                /\ Text[TableOf(Build)[old[i]][JoinCol]] = t
          /\ \A i, j \in 1 .. Len(old) : i < j => old[i] < old[j]
          /\ \A c \in 1 .. cursor[Build] :
                Text[TableOf(Build)[c][JoinCol]] = t =>
                   \/ Build = "from" /\ Hopeless(c)
                   \/ \E i \in 1 .. Len(old) : old[i] = c
      BY <2>1 DEF old
    <3>6. \A i \in 1 .. Len(new) : new[i] \in 1 .. b /\ Text[TableOf(Build)[new[i]][JoinCol]] = t
      BY <2>2, <3>2, <3>3, <3>4, <3>5
    <3>7. \A i, j \in 1 .. Len(new) : i < j => new[i] < new[j]
      <4> SUFFICES ASSUME NEW i \in 1 .. Len(new), NEW j \in 1 .. Len(new), i < j
                   PROVE  new[i] < new[j]
        OBVIOUS
      <4>1. i \in 1 .. Len(old) /\ new[i] = old[i] /\ old[i] \in 1 .. cursor[Build]
        BY <3>2, <3>3, <3>5
      <4>2. CASE j \in 1 .. Len(old)
        BY <3>2, <3>5, <4>1, <4>2
      <4>3. CASE j = Len(old) + 1
        BY <1>2, <2>2, <3>2, <4>1, <4>3
      <4> QED
        BY <3>3, <4>2, <4>3
    <3>8. \A c \in 1 .. b : Text[TableOf(Build)[c][JoinCol]] = t =>
             \/ Build = "from" /\ Hopeless(c)
             \/ \E i \in 1 .. Len(new) : new[i] = c
      BY <2>2, <3>2, <3>3, <3>5
    <3> QED
      BY <3>6, <3>7, <3>8 DEF new
  <2> QED
    BY <2>3, <2>4
<1>11. Flow' /\ Current'
  BY <1>0, <1>1, <1>7 DEF Flow, Current, Upward
<1> QED
  BY <1>6, <1>7, <1>9, <1>10, <1>11 DEF IInv

LEMMA BuildDoneStep == IInv /\ BuildDone => IInv'
<1> SUFFICES ASSUME IInv, BuildDone PROVE IInv'
  OBVIOUS
<1> USE DEF BuildDone
<1>0. Inputs /\ TypeInv /\ Placed /\ Flow
  BY DEF IInv
<1>1. pc = "build" /\ pc' = "next" /\ Running /\ HasJoin /\ cursor[Probe] = 0
  BY <1>0 DEF Running, Planning, Placed
<1>2. TypeInv' /\ Inputs' /\ Handed' /\ ScansWhole' /\ Counts' /\ Delivered' = Delivered
  BY <1>0, <1>1, OperatorKeeps, CountsKept DEF TypeInv, Upward
<1>3. Placed' /\ Hashed' /\ Current'
  BY <1>0, <1>1, OperatorKeeps, HashedKept
  DEF Placed, Running, Planning, Current, Upward, AtEnd
<1>4. Gone' = {} /\ Delivered = {}
  BY <1>0, <1>1, NothingBehind DEF Flow, Delivered
<1>5. Flow'
  BY <1>0, <1>1, <1>2, <1>4 DEF Flow, Upward, Planning
<1> QED
  BY <1>2, <1>3, <1>5 DEF IInv

LEMMA FetchProbeStep == IInv /\ FetchProbe => IInv'
<1> SUFFICES ASSUME IInv, FetchProbe PROVE IInv'
  OBVIOUS
<1> USE DEF FetchProbe, ScanNext
<1>0. Inputs /\ TypeInv /\ Placed /\ Flow
  BY DEF IInv
<1>1. /\ pc = "pull" /\ pc' = "pull" /\ Running /\ HasJoin /\ ~ has_probe_row
      /\ Probe \in Side /\ Build \in Side /\ Probe # Build
      /\ scan_rows[Probe] = TableOf(Probe) /\ has_probe_row' /\ bucket_idx' = 0
      /\ swapped \in BOOLEAN
  BY <1>0, Whole DEF Asked, Running, Planning, Placed, TypeInv
<1>2. /\ cursor[Probe] \in Nat /\ cursor[Probe] + 1 \in 1 .. Len(TableOf(Probe))
      /\ cursor' \in [Side -> Nat] /\ cursor'[Probe] = cursor[Probe] + 1
      /\ \A o \in Side \ {Probe} : cursor'[o] = cursor[o]
      /\ buffer' \in [Side -> Nat \cup {NoTable}] /\ buffer'[Probe] = cursor[Probe] + 1
  <2>1. cursor[Probe] \in Nat /\ cursor[Probe] < Len(scan_rows[Probe]) /\ Len(scan_rows[Probe]) \in Nat
    BY <1>0, <1>1 DEF TypeInv, HasNext
  <2> QED
    BY <1>0, <1>1, <2>1 DEF TypeInv
<1>3. TypeInv'
  <2>1. \A s \in Side : cursor'[s] <= Len(scan_rows'[s])
    BY <1>0, <1>1, <1>2 DEF TypeInv
  <2> QED
    BY <1>0, <1>1, <1>2, <2>1 DEF TypeInv
<1>4. Inputs' /\ Handed' /\ ScansWhole' /\ Counts' /\ Delivered' = Delivered
  BY <1>1, OperatorKeeps, CountsKept DEF Upward
<1>5. /\ Probe' = Probe /\ Build' = Build /\ HasJoin' = HasJoin /\ Wanted' = Wanted
      /\ \A q : ProbeOf(q)' = ProbeOf(q)
      /\ \A s : TableOf(s)' = TableOf(s)
      /\ swapped' = (HasJoin /\ Len(data["t"]) < Len(data[join_table]))'
  BY <1>1, OperatorKeeps
<1>6. Bucket' \in Seq(Nat)
  <2>1. TableOf(Probe)[cursor[Probe] + 1][JoinCol] \in Num
    BY <1>0, <1>1, <1>2 DEF Inputs, TableOf
  <2>2. Bucket' = hash_table[Text[TableOf(Probe)[cursor[Probe] + 1][JoinCol]]]
    BY <1>1, <1>2, <1>5 DEF Bucket, KeyText
  <2> QED
    BY <1>0, <2>1, <2>2 DEF TypeInv, Texts
<1>7. Placed'
  <2>1. AtEnd(Build)'
    BY <1>0, <1>1, <1>2, <1>5 DEF Placed, AtEnd, Planning
  <2>2. Len(Bucket') \in Nat
    BY <1>6
  <2> QED
    BY <1>0, <1>1, <1>2, <1>5, <2>1, <2>2 DEF Placed, Planning
<1>8. Hashed' /\ Current'
  BY <1>1, <1>2, HashedKept DEF Current, Upward
<1>9. Gone' = Gone
  <2>1. \A q \in Wanted : ProbeOf(q) \in Nat
    BY <1>0, <1>1, Whole, Pairs DEF Wanted
  <2>2. Gone = {q \in Wanted : ProbeOf(q) <= cursor[Probe]}
    BY <1>1 DEF Gone, Behind
  <2>3. Gone' = {q \in Wanted : ProbeOf(q) <= cursor[Probe] + 1 /\ ProbeOf(q) # cursor[Probe] + 1}
    BY <1>1, <1>2, <1>5 DEF Gone, Behind
  <2> QED
    BY <1>2, <2>1, <2>2, <2>3
<1>10. Flow'
  BY <1>0, <1>1, <1>4, <1>9 DEF Flow, Upward, Planning
<1> QED
  BY <1>3, <1>4, <1>7, <1>8, <1>10 DEF IInv

LEMMA EmitStep == IInv /\ Emit => IInv'
<1> SUFFICES ASSUME IInv, Emit PROVE IInv'
  OBVIOUS
<1> USE DEF Emit
<1>0. Inputs /\ TypeInv /\ Placed /\ Flow
  BY DEF IInv
<1>1. /\ pc = "pull" /\ pc' = "filter" /\ Running /\ HasJoin /\ has_probe_row /\ has_probe_row'
      /\ bucket_idx \in Nat /\ bucket_idx < Len(Bucket) /\ bucket_idx' = bucket_idx + 1
      /\ buffer[Probe] = cursor[Probe] /\ swapped \in BOOLEAN
  BY <1>0 DEF Running, Planning, TypeInv, Placed
<1>2. /\ Bucket \in Seq(Nat) /\ Len(Bucket) \in Nat /\ bucket_idx + 1 \in 1 .. Len(Bucket)
      /\ cursor[Probe] \in 1 .. Len(TableOf(Probe))
  BY <1>1, BucketComplete
<1> DEFINE built == Bucket[bucket_idx + 1]
<1>3. /\ built \in 1 .. Len(TableOf(Build))
      /\ Text[TableOf(Build)[built][JoinCol]] = Text[TableOf(Probe)[cursor[Probe]][JoinCol]]
      /\ \A i \in 1 .. bucket_idx : Bucket[i] < built
  <2>1. \A i \in 1 .. bucket_idx : i \in 1 .. Len(Bucket) /\ i < bucket_idx + 1
    BY <1>1, <1>2
  <2>2. \A i \in 1 .. bucket_idx : Bucket[i] < built
    BY <1>1, <1>2, <2>1, BucketComplete
  <2> QED
    BY <1>1, <1>2, <2>2, BucketComplete
<1>4. row' = IF swapped THEN <<built, cursor[Probe]>> ELSE <<cursor[Probe], built>>
  BY <1>1
<1> HIDE DEF built
<1>5. row' \in Joined /\ ProbeOf(row') = cursor[Probe] /\ BuildOf(row') = built
  <2>1. /\ DOMAIN data["t"] = 1 .. Len(data["t"])
        /\ DOMAIN data[join_table] = 1 .. Len(data[join_table])
    BY <1>0, <1>1 DEF Inputs
  <2>2. CASE swapped
    <3>1. TableOf(Probe) = data[join_table] /\ TableOf(Build) = data["t"] /\ row' = <<built, cursor[Probe]>>
      BY <1>4, <2>2 DEF TableOf, Probe, Build
    <3>2. row'[1] = built /\ row'[2] = cursor[Probe]
      BY <3>1
    <3>3. row' \in Joined
      BY <1>1, <1>2, <1>3, <2>1, <3>1, <3>2 DEF Joined
    <3> QED
      BY <2>2, <3>2, <3>3 DEF ProbeOf, BuildOf
  <2>3. CASE ~ swapped
    <3>1. TableOf(Build) = data[join_table] /\ TableOf(Probe) = data["t"] /\ row' = <<cursor[Probe], built>>
      BY <1>4, <2>3 DEF TableOf, Probe, Build
    <3>2. row'[1] = cursor[Probe] /\ row'[2] = built
      BY <3>1
    <3>3. row' \in Joined
      BY <1>1, <1>2, <1>3, <2>1, <3>1, <3>2 DEF Joined
    <3> QED
      BY <2>3, <3>2, <3>3 DEF ProbeOf, BuildOf
  <2> QED
    BY <2>2, <2>3
<1>6. TypeInv' /\ Inputs' /\ Handed' /\ ScansWhole' /\ Counts' /\ Delivered' = Delivered
  BY <1>0, <1>1, OperatorKeeps, CountsKept DEF TypeInv, Upward
<1>7. /\ Probe' = Probe /\ Build' = Build /\ HasJoin' = HasJoin /\ Wanted' = Wanted /\ Joined' = Joined
      /\ \A q : ProbeOf(q)' = ProbeOf(q) /\ BuildOf(q)' = BuildOf(q)
      /\ swapped' = (HasJoin /\ Len(data["t"]) < Len(data[join_table]))'
      /\ Bucket' = Bucket
  BY <1>1, OperatorKeeps DEF Upward, Bucket, KeyText
<1>8. Placed'
  BY <1>0, <1>1, <1>2, <1>7 DEF Placed, Planning, AtEnd
<1>9. Hashed'
  BY <1>1, HashedKept DEF Upward
<1>10. Current'
  <2>1. ProbeOf(row)' = ProbeOf(row') /\ BuildOf(row)' = BuildOf(row')
    BY DEF ProbeOf, BuildOf
  <2>2. BuildOf(row)' = Bucket'[bucket_idx']
    BY <1>1, <1>5, <1>7, <2>1 DEF built
  <2> QED
    BY <1>1, <1>5, <1>7, <2>1, <2>2 DEF Current
<1>11. Gone = Gone' \ {row'}
  <2> SUFFICES ASSUME NEW q \in Wanted
               PROVE  Behind(q) <=> Behind(q)' /\ q # row'
    BY <1>7 DEF Gone
  <2>1. q \in Joined /\ ProbeOf(q) \in Nat
    BY <1>0, <1>1, Whole, Pairs DEF Wanted
  <2>2. CASE ProbeOf(q) # cursor[Probe]
    BY <1>5, <1>7, <2>2 DEF Behind
  <2>3. CASE ProbeOf(q) = cursor[Probe]
    <3>1. Behind(q) <=> \E i \in 1 .. bucket_idx : Bucket[i] = BuildOf(q)
      BY <1>1, <1>2, <2>3 DEF Behind
    <3>2. Behind(q)' <=> \E i \in 1 .. bucket_idx + 1 : Bucket[i] = BuildOf(q)
      BY <1>1, <1>2, <1>7, <2>3 DEF Behind
    <3>3. 1 .. bucket_idx + 1 = 1 .. bucket_idx \cup {bucket_idx + 1}
      BY <1>1
    <3>4. q = row' <=> BuildOf(q) = built
      BY <1>0, <1>1, <1>5, <2>1, <2>3, Whole, Pairs
    <3>5. \A i \in 1 .. bucket_idx : Bucket[i] # built
      BY <1>1, <1>2, <1>3, BucketComplete, SMTT(30)
    <3> QED
      BY <3>1, <3>2, <3>3, <3>4, <3>5 DEF built
  <2> QED
    BY <2>2, <2>3
<1>12. Flow'
  BY <1>0, <1>1, <1>6, <1>11 DEF Flow, Upward, Planning
<1> QED
  BY <1>6, <1>8, <1>9, <1>10, <1>12 DEF IInv

LEMMA BucketDoneStep == IInv /\ BucketDone => IInv'
<1> SUFFICES ASSUME IInv, BucketDone PROVE IInv'
  OBVIOUS
<1> USE DEF BucketDone
<1>0. Inputs /\ TypeInv /\ Placed /\ Flow
  BY DEF IInv
<1>1. /\ pc = "pull" /\ pc' = "pull" /\ Running /\ HasJoin /\ has_probe_row /\ ~ has_probe_row'
      /\ bucket_idx \in Nat /\ bucket_idx = Len(Bucket)
  <2>1. pc = "pull" /\ Running /\ HasJoin /\ has_probe_row
    BY DEF Running, Planning
  <2>2. bucket_idx \in Nat /\ bucket_idx <= Len(Bucket) /\ bucket_idx >= Len(Bucket) /\ Len(Bucket) \in Nat
    BY <1>0, <2>1, BucketComplete DEF Placed, TypeInv
  <2> QED
    BY <2>1, <2>2
<1>2. TypeInv' /\ Inputs' /\ Handed' /\ ScansWhole' /\ Counts' /\ Delivered' = Delivered
  BY <1>0, <1>1, OperatorKeeps, CountsKept DEF TypeInv, Upward
<1>3. Placed' /\ Hashed' /\ Current'
  BY <1>0, <1>1, OperatorKeeps, HashedKept
  DEF Placed, Running, Planning, Current, Upward, AtEnd
<1>4. Gone' = Gone
  <2>1. Probe' = Probe /\ Wanted' = Wanted /\ \A q : ProbeOf(q)' = ProbeOf(q)
    BY <1>1, OperatorKeeps
  <2>2. \A q \in Wanted : ProbeOf(q) = cursor[Probe] => \E i \in 1 .. bucket_idx : Bucket[i] = BuildOf(q)
    BY <1>1, BucketComplete
  <2> QED
    BY <1>1, <2>1, <2>2 DEF Gone, Behind
<1>5. Flow'
  BY <1>0, <1>1, <1>2, <1>4 DEF Flow, Upward, Planning
<1> QED
  BY <1>2, <1>3, <1>5 DEF IInv

-----------------------------------------------------------------------------
(* Filter, project, limit and driver.                                      *)

(* They leave the scans and the join where they are.                       *)
LEMMA AboveKeeps ==
    ASSUME IInv, Running, pc # "build", UNCHANGED <<query, planner, scans, join, row>>,
           pc' \in Upward \cup {"next", "pull", "done"}
    PROVE  /\ Inputs' /\ Handed' /\ ScansWhole' /\ Placed' /\ Hashed'
           /\ HasJoin' = HasJoin /\ Joined' = Joined /\ Wanted' = Wanted /\ Gone' = Gone
           /\ Probe' = Probe /\ Bucket' = Bucket
           /\ \A q : ProbeOf(q)' = ProbeOf(q) /\ BuildOf(q)' = BuildOf(q)
<1>1. /\ Inputs' /\ Handed' /\ ScansWhole' /\ Hashed'
      /\ HasJoin' = HasJoin /\ Joined' = Joined /\ Wanted' = Wanted
      /\ Probe' = Probe /\ Build' = Build
      /\ \A q : ProbeOf(q)' = ProbeOf(q) /\ BuildOf(q)' = BuildOf(q)
      /\ swapped' = (HasJoin /\ Len(data["t"]) < Len(data[join_table]))'
  BY OperatorKeeps, HashedKept
<1>2. Bucket' = Bucket
  BY <1>1 DEF Bucket, KeyText
<1>3. Gone' = Gone
  BY <1>1, <1>2 DEF Gone, Behind
<1>4. Placed'
  <2>1. Placed /\ pc' \notin Planning \cup {"lowered", "build"}
    BY DEF IInv, Planning, Upward
  <2> QED
    BY <1>1, <1>2, <2>1 DEF Placed, Running, AtEnd
<1> QED
  BY <1>1, <1>2, <1>3, <1>4

(* WHERE on the row in hand is WHERE on the tables.                        *)
LEMMA WhereExact ==
    ASSUME IInv, pc = "filter"
    PROVE  row \in Joined /\ (PassesWhere(row) <=> row \in Wanted)
<1>1. Running /\ row \in Joined
  BY DEF IInv, Current, Running, Planning, Upward
<1>2. /\ scan_rows["from"] = data["t"]
      /\ HasJoin => scan_rows["join"] = data[join_table]
  BY <1>1, Whole DEF TableOf
<1>3. ~ HasJoin => \A clause \in where : \A p \in clause : p.slot = 0
  BY DEF IInv, Inputs
<1>4. PassesWhere(row) <=> Passes(row[1], row[2])
  BY <1>2, <1>3 DEF PassesWhere, Passes
<1> QED
  BY <1>1, <1>4 DEF Wanted

LEMMA FilterStep == IInv /\ Filter => IInv'
<1> SUFFICES ASSUME IInv, Filter PROVE IInv'
  OBVIOUS
<1> USE DEF Filter
<1>0. Inputs /\ TypeInv /\ Placed /\ Flow /\ Current
  BY DEF IInv
<1>1. Running /\ pc = "filter" /\ pc' \in {"project", "pull"}
      /\ pc' = (IF row \in Wanted THEN "project" ELSE "pull")
  BY WhereExact DEF Running, Planning
<1>2. /\ Inputs' /\ Handed' /\ ScansWhole' /\ Placed' /\ Hashed'
      /\ HasJoin' = HasJoin /\ Joined' = Joined /\ Wanted' = Wanted /\ Gone' = Gone
      /\ Probe' = Probe /\ Bucket' = Bucket
      /\ ProbeOf(row)' = ProbeOf(row) /\ BuildOf(row)' = BuildOf(row)
  <2>1. row' = row
    OBVIOUS
  <2> QED
    BY <1>1, <2>1, AboveKeeps DEF Upward, ProbeOf, BuildOf
<1>3. TypeInv' /\ Counts' /\ Delivered' = Delivered
  BY <1>0, <1>1, CountsKept DEF TypeInv, Upward
<1>4. Current'
  BY <1>0, <1>1, <1>2 DEF Current, Upward
<1>5. Flow'
  BY <1>0, <1>1, <1>2, <1>3 DEF Flow, Upward, Planning, Gone
<1> QED
  BY <1>2, <1>3, <1>4, <1>5 DEF IInv

LEMMA ProjectStep == IInv /\ Project => IInv'
<1> SUFFICES ASSUME IInv, Project PROVE IInv'
  OBVIOUS
<1> USE DEF Project
<1>0. Inputs /\ TypeInv /\ Placed /\ Flow /\ Current
  BY DEF IInv
<1>1. Running /\ pc = "project" /\ pc' \in {"error", "return"}
  BY DEF Running, Planning
<1>2. /\ Inputs' /\ Handed' /\ ScansWhole' /\ Placed' /\ Hashed'
      /\ HasJoin' = HasJoin /\ Joined' = Joined /\ Wanted' = Wanted /\ Gone' = Gone
      /\ Probe' = Probe /\ Bucket' = Bucket
      /\ ProbeOf(row)' = ProbeOf(row) /\ BuildOf(row)' = BuildOf(row)
  <2>1. row' = row
    OBVIOUS
  <2> QED
    BY <1>1, <2>1, AboveKeeps DEF Upward, ProbeOf, BuildOf
<1>3. TypeInv' /\ Counts' /\ Delivered' = Delivered
  BY <1>0, <1>1, CountsKept DEF TypeInv, Upward
<1>4. Current'
  BY <1>0, <1>1, <1>2 DEF Current, Upward
<1>5. Flow'
  BY <1>0, <1>1, <1>2, <1>3 DEF Flow, Upward, Planning
<1> QED
  BY <1>2, <1>3, <1>4, <1>5 DEF IInv

LEMMA ReturnStep == IInv /\ Return => IInv'
<1> SUFFICES ASSUME IInv, Return PROVE IInv'
  OBVIOUS
<1> USE DEF Return
<1>0. Inputs /\ TypeInv /\ Placed /\ Flow /\ Current /\ Counts
  BY DEF IInv
<1>1. /\ Running /\ pc = "return" /\ pc' = "next" /\ rows' = Append(rows, row) /\ count' = count + 1
      /\ row \in Joined /\ row \in Wanted /\ row[1] \notin failing /\ rows \in Seq(Joined)
      /\ Delivered = Gone \ {row}
  BY <1>0 DEF Running, Planning, Current, Upward, Flow, Counts
<1>2. /\ Inputs' /\ Handed' /\ ScansWhole' /\ Placed' /\ Hashed'
      /\ Joined' = Joined /\ Wanted' = Wanted /\ Gone' = Gone
  BY <1>1, AboveKeeps
<1>3. TypeInv' /\ Current'
  BY <1>0, <1>1 DEF TypeInv, Current, Upward
<1>4. /\ rows' \in Seq(Joined) /\ Len(rows') = Len(rows) + 1 /\ Len(rows) \in Nat
      /\ rows'[Len(rows) + 1] = row /\ \A i \in 1 .. Len(rows) : rows'[i] = rows[i]
  BY <1>1
<1>5. Delivered' = Delivered \cup {row}
  <2>1. 1 .. Len(rows') = 1 .. Len(rows) \cup {Len(rows) + 1}
    BY <1>4
  <2> QED
    BY <1>4, <2>1 DEF Delivered
<1>6. row \in Gone
  BY <1>1, CurrentLast DEF Gone, Upward
<1>7. Flow'
  BY <1>0, <1>1, <1>2, <1>5, <1>6 DEF Flow, Upward, Planning
<1>8. Ranks(Delivered)' = Ranks(Delivered) \cup {Rank(row)}
  BY <1>5, DerivedFixed DEF Ranks
<1>9. Rank(row) \notin Ranks(Delivered)
  <2>1. Delivered \subseteq Joined /\ row \notin Delivered
    BY <1>1 DEF Gone, Wanted
  <2> QED
    BY <1>1, <2>1, RankBefore DEF Ranks
<1>10. /\ IsFiniteSet(Ranks(Delivered)')
       /\ Cardinality(Ranks(Delivered)') = count + 1
  BY <1>0, <1>8, <1>9, FS_AddElement DEF Counts
<1>11. limit # NoLimit => limit \in Nat /\ count < limit /\ count \in Nat
  BY <1>0, <1>1, LimitAssumption DEF Counts, Inputs, Upward, TypeInv
<1>12. Counts'
  BY <1>0, <1>1, <1>2, <1>4, <1>10, <1>11 DEF Counts, Upward
<1> QED
  BY <1>2, <1>3, <1>7, <1>12 DEF IInv

LEMMA AskStep == IInv /\ Ask => IInv'
<1> SUFFICES ASSUME IInv, Ask PROVE IInv'
  OBVIOUS
<1> USE DEF Ask
<1>0. Inputs /\ TypeInv /\ Placed /\ Flow /\ Counts
  BY DEF IInv
<1>1. Running /\ pc = "next" /\ pc' \in {"done", "pull"}
  BY DEF Running, Planning
<1>2. /\ Inputs' /\ Handed' /\ ScansWhole' /\ Placed' /\ Hashed'
      /\ Joined' = Joined /\ Wanted' = Wanted /\ Gone' = Gone
  BY <1>1, AboveKeeps
<1>3. Delivered' = Delivered /\ Ranks(Delivered)' = Ranks(Delivered)
  <2>1. Delivered' = Delivered
    BY DEF Delivered
  <2> QED
    BY <2>1, DerivedFixed DEF Ranks
<1>4. limit # NoLimit => limit \in Nat /\ count \in Nat /\ count <= limit
  BY <1>0, LimitAssumption DEF Counts, Inputs, TypeInv
<1>5. pc' = "done" => limit # NoLimit /\ count = limit
  BY <1>4
<1>6. pc' = "pull" /\ limit # NoLimit => count < limit
  BY <1>4
<1>7. TypeInv' /\ Current'
  BY <1>0, <1>1 DEF TypeInv, Current, Upward
<1>8. Flow'
  BY <1>0, <1>1, <1>2, <1>3, <1>5 DEF Flow, Upward, Planning
<1>9. Counts'
  BY <1>0, <1>1, <1>2, <1>3, <1>6 DEF Counts, Upward
<1> QED
  BY <1>2, <1>7, <1>8, <1>9 DEF IInv

LEMMA StutterStep == IInv /\ UNCHANGED vars => IInv'
<1> SUFFICES ASSUME IInv, UNCHANGED vars PROVE IInv'
  OBVIOUS
<1> USE DEF vars
<1>1. Inputs' /\ HasJoin' = HasJoin /\ SelfJoin' = SelfJoin /\ Joined' = Joined /\ Wanted' = Wanted
      /\ Delivered' = Delivered /\ Ranks(Delivered)' = Ranks(Delivered)
      /\ (\A s : TableOf(s)' = TableOf(s)) /\ (\A f : Hopeless(f)' = Hopeless(f))
  <2>1. Delivered' = Delivered
    BY DEF Delivered
  <2> QED
    BY <2>1, DerivedFixed DEF IInv, Ranks
<1>2. /\ Probe' = Probe /\ Build' = Build /\ Bucket' = Bucket
      /\ \A q : ProbeOf(q)' = ProbeOf(q) /\ BuildOf(q)' = BuildOf(q)
  BY DEF Probe, Build, Bucket, KeyText, ProbeOf, BuildOf
<1>3. Gone' = Gone
  BY <1>1, <1>2 DEF Gone, Behind
<1>4. TypeInv' /\ Handed' /\ ScansWhole' /\ Placed'
  BY <1>1, <1>2 DEF IInv, TypeInv, Handed, ScansWhole, Placed, AtEnd
<1>5. Hashed'
  <2>1. CASE Running
    <3>1. pc' \in Upward \cup {"build", "next", "pull", "done"}
      BY <2>1 DEF IInv, TypeInv, Running
    <3> QED
      BY <2>1, <3>1, HashedKept
  <2> QED
    BY <2>1 DEF Hashed, Running
<1>6. Current' /\ Flow' /\ Counts'
  <2>1. ProbeOf(row)' = ProbeOf(row) /\ BuildOf(row)' = BuildOf(row)
    BY DEF ProbeOf, BuildOf
  <2>2. Current'
    BY <1>1, <1>2, <2>1 DEF IInv, Current
  <2>3. Flow' /\ Counts'
    BY <1>1, <1>3 DEF IInv, Flow, Counts
  <2> QED
    BY <2>2, <2>3
<1> QED
  BY <1>1, <1>4, <1>5, <1>6 DEF IInv

LEMMA StepInv == IInv /\ [Next]_vars => IInv'
BY PlanFromStep, PlanJoinStep, LowerFromStep, LowerJoinStep, SkipChunkStep, ScanRowStep,
   ScanEndStep, BuildRowStep, BuildDoneStep, FetchProbeStep, EmitStep, BucketDoneStep,
   FilterStep, ProjectStep, ReturnStep, AskStep, StutterStep DEF Next, Ended

(* The invariant holds of every behaviour of the engine.                   *)
THEOREM Invariance == Spec => []IInv
BY InitInv, StepInv, PTL DEF Spec

-----------------------------------------------------------------------------
(* What follows from it.                                                   *)

(* Every scan owns the whole table it reads, the two scans of a self join  *)
(* included, whether the planner moves or the lowering counts.             *)
THEOREM ScansWholeTheorem == Spec => []ScansWhole
<1>1. IInv => ScansWhole
  BY DEF IInv
<1> QED
  BY <1>1, Invariance, PTL

(* The hash join compares texts: the answer is that of SQL when the text   *)
(* of a key tells it from every other, as it does for INT and STRING keys. *)
TextExact == \A k, l \in Num : Text[k] = Text[l] => k = l

LEMMA QualifyingWanted ==
    ASSUME TextExact, Inputs
    PROVE  Qualifying = Wanted
<1>1. CASE ~ HasJoin
  <2>1. \A f : Passes(f, NoTable) <=> Passes(<<f, NoTable>>[1], <<f, NoTable>>[2])
    OBVIOUS
  <2> QED
    BY <1>1, <2>1 DEF Qualifying, Wanted, Joined
<1>2. CASE HasJoin
  <2>1. ASSUME NEW f \in DOMAIN data["t"], NEW j \in DOMAIN data[join_table]
        PROVE  Same(data["t"][f][JoinCol], data[join_table][j][JoinCol])
                 <=> Text[data["t"][f][JoinCol]] = Text[data[join_table][j][JoinCol]]
    <3>1. data["t"][f][JoinCol] \in Num /\ data[join_table][j][JoinCol] \in Num
      <4>1. /\ DOMAIN data["t"] = 1 .. Len(data["t"])
            /\ DOMAIN data[join_table] = 1 .. Len(data[join_table])
        BY <1>2 DEF Inputs
      <4> QED
        BY <1>2, <4>1 DEF Inputs
    <3> QED
      BY <3>1, NumAssumption, NaNAssumption DEF TextExact, Same
  <2> QED
    BY <1>2, <2>1 DEF Qualifying, Wanted, Joined
<1> QED
  BY <1>1, <1>2

(* The query fails exactly when a row of its answer does, and then after   *)
(* the rows before it: the select list is evaluated for no other row.      *)
THEOREM ErrorExactTheorem ==
    ASSUME TextExact
    PROVE  Spec => []ErrorExact
<1>1. IInv => ErrorExact
  <2> SUFFICES ASSUME IInv PROVE ErrorExact
    OBVIOUS
  <2> DEFINE fails == {q \in Qualifying : q[1] \in failing}
  <2>1. Qualifying = Wanted /\ Wanted \subseteq Joined
    BY QualifyingWanted DEF IInv, Wanted
  <2>2. ASSUME pc = "error"
        PROVE  /\ limit # NoLimit => Len(rows) < limit
               /\ \E f \in fails : Delivered = {q \in Qualifying : Rank(q) < Rank(f)}
    <3>1. /\ Running /\ pc \in Upward /\ row \in Wanted /\ row[1] \in failing /\ row \in Joined
          /\ Delivered = Gone \ {row} /\ (limit # NoLimit => Len(rows) < limit)
      BY <2>2 DEF IInv, Running, Planning, Upward, Current, Flow, Counts, Wanted
    <3>2. row \in Gone
      BY <3>1, CurrentLast DEF Gone
    <3>3. \A q \in Wanted : Rank(q) < Rank(row) <=> q \in Gone \ {row}
      <4> SUFFICES ASSUME NEW q \in Wanted
                   PROVE  Rank(q) < Rank(row) <=> q \in Gone \ {row}
        OBVIOUS
      <4>1. q \in Joined /\ Rank(q) \in Nat /\ Rank(row) \in Nat
        BY <2>1, <3>1, RankBefore
      <4>2. q \in Gone \ {row} => Rank(q) < Rank(row)
        BY <3>1, <4>1, CurrentLast, RankBefore
      <4>3. q \notin Gone => Rank(row) < Rank(q)
        BY <3>1, <3>2, <4>1, GoneFirst, RankBefore
      <4> QED
        BY <4>1, <4>2, <4>3
    <3>4. Delivered = {q \in Qualifying : Rank(q) < Rank(row)}
      BY <2>1, <3>1, <3>3 DEF Gone
    <3> QED
      BY <2>1, <3>1, <3>4
  <2>3. ASSUME pc = "done", NEW f \in fails
        PROVE  Len(rows) = limit /\ \A q \in Delivered : Rank(q) < Rank(f)
    <3>1. /\ Running /\ Delivered = Gone /\ (Gone = Wanted \/ (limit # NoLimit /\ count = limit))
          /\ count = Len(rows) /\ \A q \in Delivered : q[1] \notin failing
      BY <2>3 DEF IInv, Running, Planning, Flow, Counts
    <3>2. f \in Wanted \ Gone
      BY <2>1, <3>1
    <3>3. \A q \in Gone : Before(q, f) /\ q \in Joined /\ f \in Joined
      BY <2>1, <3>1, <3>2, GoneFirst DEF Gone
    <3> QED
      BY <3>1, <3>2, <3>3, RankBefore
  <2> QED
    BY <2>2, <2>3 DEF ErrorExact
<1> QED
  BY <1>1, Invariance, PTL

-----------------------------------------------------------------------------
(* The engine implements QueryStream.                                      *)

LEMMA SameCardinality == \A S : Stream!Cardinality(S) = Cardinality(S)
BY Zenon DEF Stream!Cardinality, Cardinality

(* An operator below the driver, or a planner step, is invisible to it.    *)
LEMMA Invisible ==
    ASSUME UNCHANGED <<query, rows>>, pc \notin {"done", "error"}, pc' \notin {"done", "error"}
    PROVE  UNCHANGED Stream!stream
<1>1. Ranks(Qualifying)' = Ranks(Qualifying) /\ Ranks(Delivered)' = Ranks(Delivered)
  BY DerivedFixed DEF Ranks, Delivered
<1>2. {Rank(q) : q \in {p \in Qualifying : p[1] \in failing}}'
        = {Rank(q) : q \in {p \in Qualifying : p[1] \in failing}}
  BY DerivedFixed
<1> QED
  BY <1>1, <1>2 DEF Stream!stream, Stream!query

LEMMA StreamStep ==
    ASSUME TextExact, IInv, [Next]_vars
    PROVE  [Stream!Next]_(Stream!stream)
<1> USE DEF Stream!stream, Stream!query
<1> DEFINE fails == {Rank(q) : q \in {p \in Qualifying : p[1] \in failing}}
<1>1. UNCHANGED query /\ Qualifying' = Qualifying /\ (\A q : Rank(q)' = Rank(q))
  BY QueryFixed, DerivedFixed
<1>2. Ranks(Qualifying)' = Ranks(Qualifying) /\ fails' = fails
  BY <1>1 DEF Ranks
<1>3. Qualifying = Wanted /\ Wanted \subseteq Joined
  BY QualifyingWanted DEF IInv, Wanted
<1>4. IsFiniteSet(Ranks(Delivered)) /\ Cardinality(Ranks(Delivered)) = count /\ count \in Nat
  BY DEF IInv, Counts, TypeInv
<1>5. CASE Return
  <2>1. /\ pc = "return" /\ pc' = "next" /\ pc \in Upward /\ Running /\ row \in Wanted
        /\ Delivered = Gone \ {row} /\ row \in Gone /\ row \in Joined
    BY <1>3, <1>5, CurrentLast DEF Return, IInv, Current, Flow, Upward, Running, Planning, Gone
  <2>2. Ranks(Delivered)' = Ranks(Delivered) \cup {Rank(row)}
    <3>1. /\ rows \in Seq(Joined) /\ rows' = Append(rows, row)
      BY <1>5 DEF Return, IInv, Counts
    <3>2. /\ Len(rows') = Len(rows) + 1 /\ Len(rows) \in Nat
          /\ rows'[Len(rows) + 1] = row /\ \A i \in 1 .. Len(rows) : rows'[i] = rows[i]
          /\ 1 .. Len(rows') = 1 .. Len(rows) \cup {Len(rows) + 1}
      BY <2>1, <3>1
    <3>3. Delivered' = Delivered \cup {row}
      BY <3>2 DEF Delivered
    <3> QED
      BY <1>1, <3>3 DEF Ranks
  <2>3. Rank(row) \in Ranks(Qualifying) \ Ranks(Delivered)
    <3>1. \A q \in Delivered : q \in Joined /\ q # row
      BY <1>3, <2>1 DEF Gone
    <3> QED
      BY <1>3, <2>1, <3>1, RankBefore DEF Ranks
  <2>4. ASSUME NEW y \in (Ranks(Qualifying) \ Ranks(Delivered)) \ {Rank(row)}
        PROVE  Rank(row) < y
    <3>1. PICK q \in Wanted : y = Rank(q)
      BY <1>3 DEF Ranks
    <3>2. q \notin Gone
      BY <2>1, <3>1 DEF Ranks
    <3> QED
      BY <1>3, <2>1, <3>1, <3>2, GoneFirst, RankBefore
  <2>5. Stream!NextRows({Rank(row)})
    BY <2>3, <2>4 DEF Stream!NextRows
  <2>6. Stream!Fits(Cardinality(Ranks(Delivered) \cup {Rank(row)}))
    <3>1. Cardinality(Ranks(Delivered) \cup {Rank(row)}) = count + 1
      BY <1>4, <2>3, FS_AddElement
    <3>2. limit # NoLimit => count < limit /\ limit \in Nat
      BY <2>1, LimitAssumption DEF IInv, Counts, Inputs, Upward
    <3> QED
      BY <1>4, <3>1, <3>2 DEF Stream!Fits
  <2>7. Stream!Emit
    <3>1. {Rank(row)} \in SUBSET (Ranks(Qualifying) \ Ranks(Delivered)) /\ {Rank(row)} # {}
      BY <2>3
    <3>2. limit' = limit
      BY <1>1
    <3> QED
      BY <1>2, <2>1, <2>2, <2>5, <2>6, <3>1, <3>2, SameCardinality DEF Stream!Emit
  <2> QED
    BY <2>7 DEF Stream!Next
<1>6. CASE Ask
  <2>1. pc = "next" /\ rows' = rows /\ pc' \in {"pull", "done"}
    BY <1>6 DEF Ask
  <2>2. CASE pc' = "pull"
    BY <1>1, <2>1, <2>2, Invisible
  <2>3. CASE pc' = "done"
    <3>1. limit # NoLimit /\ count >= limit
      BY <1>6, <2>3 DEF Ask
    <3>2. limit # NoLimit => limit \in Nat /\ count <= limit
      BY LimitAssumption DEF IInv, Counts, Inputs
    <3>3. Stream!Exhausted
      BY <1>4, <3>1, <3>2, SameCardinality DEF Stream!Exhausted
    <3>4. Ranks(Delivered)' = Ranks(Delivered)
      BY <1>1, <2>1 DEF Ranks, Delivered
    <3>5. Stream!Finish
      BY <1>1, <1>2, <2>1, <2>3, <3>3, <3>4 DEF Stream!Finish
    <3> QED
      BY <3>5 DEF Stream!Next
  <2> QED
    BY <2>1, <2>2, <2>3
<1>7. CASE ScanEnd
  <2>1. pc = "pull" /\ rows' = rows /\ pc' = "done" /\ Running
    BY <1>7 DEF ScanEnd, Running, Planning
  <2>2. Delivered = Wanted
    <3>1. ~ has_probe_row /\ AtEnd(Probe) /\ cursor[Probe] \in Nat
          /\ scan_rows[Probe] = TableOf(Probe) /\ Len(TableOf(Probe)) \in Nat
      BY <1>7, <2>1, Whole DEF ScanEnd, IInv, Placed, TypeInv, Side
    <3>2. \A q \in Wanted : ProbeOf(q) \in 1 .. Len(TableOf(Probe))
      BY <1>3, <2>1, Whole, Pairs DEF IInv, TypeInv
    <3>3. Gone = Wanted
      BY <3>1, <3>2 DEF Gone, Behind, AtEnd
    <3> QED
      BY <2>1, <3>3 DEF IInv, Flow
  <2>3. Ranks(Delivered)' = Ranks(Delivered) /\ Ranks(Delivered) = Ranks(Qualifying)
    BY <1>1, <1>3, <2>1, <2>2 DEF Ranks, Delivered
  <2>4. Stream!Finish
    BY <1>1, <1>2, <2>1, <2>3 DEF Stream!Finish, Stream!Exhausted
  <2> QED
    BY <2>4 DEF Stream!Next
<1>8. CASE Project
  <2>1. /\ pc = "project" /\ rows' = rows /\ pc' \in {"return", "error"} /\ pc \in Upward /\ Running
        /\ row \in Wanted /\ Delivered = Gone \ {row}
    BY <1>8 DEF Project, Upward, Running, Planning, IInv, Current, Flow
  <2>2. CASE pc' = "return"
    BY <1>1, <2>1, <2>2, Invisible
  <2>3. CASE pc' = "error"
    <3>1. row[1] \in failing
      BY <1>8, <2>3 DEF Project
    <3>2. Rank(row) \in Ranks(Qualifying) \ Ranks(Delivered)
      <4>1. \A q \in Delivered : q \in Joined /\ q # row
        BY <1>3, <2>1 DEF Gone
      <4> QED
        BY <1>3, <2>1, <4>1, RankBefore DEF Ranks
    <3>3. limit # NoLimit => Cardinality(Ranks(Delivered)) # limit
      BY <1>4, <2>1, LimitAssumption DEF IInv, Counts, Inputs, Upward
    <3>4. ~ Stream!Exhausted
      BY <3>2, <3>3, SameCardinality DEF Stream!Exhausted
    <3>5. Rank(row) \in fails
      BY <1>3, <2>1, <3>1
    <3>6. Ranks(Delivered)' = Ranks(Delivered)
      BY <1>1, <2>1 DEF Ranks, Delivered
    <3>7. Stream!Fail
      BY <1>1, <1>2, <2>1, <2>3, <3>2, <3>4, <3>5, <3>6 DEF Stream!Fail
    <3> QED
      BY <3>7 DEF Stream!Next
  <2> QED
    BY <2>1, <2>2, <2>3
<1>9. CASE \/ PlanFrom \/ PlanJoin \/ LowerFrom \/ LowerJoin \/ SkipChunk \/ ScanRow \/ BuildRow
           \/ BuildDone \/ FetchProbe \/ Emit \/ BucketDone \/ Filter
  <2>1. rows' = rows /\ pc \notin {"done", "error"} /\ pc' \notin {"done", "error"}
    BY <1>9 DEF PlanFrom, PlanJoin, LowerFrom, LowerJoin, LowerScan, SkipChunk, Asked, ScanRow,
            ScanNext, BuildRow, BuildDone, FetchProbe, Emit, BucketDone, Filter
  <2> QED
    BY <1>1, <2>1, Invisible
<1>10. CASE UNCHANGED vars
  <2>1. rows' = rows /\ pc' = pc
    BY <1>10 DEF vars
  <2>2. Ranks(Delivered)' = Ranks(Delivered)
    BY <1>1, <2>1 DEF Ranks, Delivered
  <2> QED
    BY <1>1, <1>2, <2>1, <2>2
<1> QED
  BY <1>5, <1>6, <1>7, <1>8, <1>9, <1>10 DEF Next, Ended

(* Scans, join, filter, projection, limit and driver together deliver the  *)
(* stream of rows that QueryStream promises.                               *)
THEOREM Refinement ==
    ASSUME TextExact
    PROVE  Spec => Implements
<1>1. Init => Stream!Init
  BY DEF Init, Stream!Init, Ranks, Delivered
<1>2. IInv /\ [Next]_vars => [Stream!Next]_(Stream!stream)
  BY StreamStep
<1> QED
  BY <1>1, <1>2, Invariance, PTL DEF Spec, Implements, Stream!Spec
=============================================================================
