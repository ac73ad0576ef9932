------------------------------- MODULE VecJoin -------------------------------
(***************************************************************************)
(* The two vectorized inner joins, VecHashJoinNode and VecSimdLoopJoinNode.*)
(*                                                                         *)
(* open consumes the build child completely, into a hash table of buckets  *)
(* keyed by the text of the key, or into a flat array of INT keys with the *)
(* rows beside it.  nextChunk turns one probe chunk at a time into pairs,  *)
(* buffers them, and hands the buffer up in slices of a batch.  The        *)
(* planner may let either table build (swapped); a pair is always put out  *)
(* as [FROM row, JOIN row].                                                *)
(*                                                                         *)
(* The children are scans below filters: they deliver the rows that pass,  *)
(* in table order, in chunks that may be empty once filtered.  A row is    *)
(* named by its position and matters only by its key.                      *)
(***************************************************************************)
EXTENDS Naturals, Sequences, FiniteSets

CONSTANTS
    Key,        \* the values of the join columns
    NULL,       \* no value: dropped by both joins
    Text,       \* Text[k] is what Value::toString prints for k
    Equal,      \* the pairs of keys that SQL's = calls equal
    Algorithms, \* subset of {"hash", "loop"}: what the planner may choose
    MaxFrom,    \* bounds on the size of the FROM table
    MaxJoin,    \* and of the JOIN table
    BatchSize,  \* rows per chunk (1024 in the code)
    Lanes       \* keys compared by one SIMD instruction (2, 4, or 1 without)

ASSUME KeyAssumption == NULL \notin Key /\ DOMAIN Text = Key
ASSUME EqualAssumption == Equal \subseteq Key \X Key
ASSUME AlgorithmAssumption == Algorithms \subseteq {"hash", "loop"}
ASSUME SizeAssumption ==
    /\ MaxFrom \in Nat /\ MaxJoin \in Nat /\ BatchSize \in Nat \ {0} /\ Lanes \in Nat \ {0}

VARIABLES
    \* the inputs, fixed by Init: the key of every row that a child delivers
    from_keys, join_keys, from_rows, join_rows,
    algorithm, swapped,
    pc,
    build_todo,                        \* rows the build child still has
    hash_table,                        \* VecHashJoinNode: text -> bucket
    build_keys, build_rows,            \* VecSimdLoopJoinNode
    probe_next, probe_chunk,           \* the probe child; rows left of its chunk
    key, lane, mask, matches,          \* the compare pass of one probe row
    output_buffer, output_cursor,
    result                             \* the pairs handed to the parent

inputs == <<from_keys, join_keys, from_rows, join_rows, algorithm, swapped>>
build  == <<build_todo, hash_table, build_keys, build_rows>>
probe  == <<probe_next, probe_chunk>>
loop   == <<key, lane, mask, matches>>
output == <<output_buffer, output_cursor>>
vars   == <<inputs, pc, build, probe, loop, output, result>>

-----------------------------------------------------------------------------
Least(S) == CHOOSE x \in S : \A y \in S : x <= y
Smaller(a, b) == IF a <= b THEN a ELSE b

(* Which table builds and which probes.                                    *)
BuildKeys == IF swapped THEN from_keys ELSE join_keys
ProbeKeys == IF swapped THEN join_keys ELSE from_keys
BuildRows == IF swapped THEN from_rows ELSE join_rows
ProbeRows == IF swapped THEN join_rows ELSE from_rows

(* Wrong variant: the pair is put out probe side first, whichever that is. *)
PairUnswapped(p, b) == <<p, b>>

(* The output row: FROM columns first.                                     *)
Pair(p, b) == IF swapped THEN <<b, p>> ELSE <<p, b>>

(* The key of every row of a table of n rows, and the rows that a filter   *)
(* below the join lets through.                                            *)
Init ==
    /\ \E n \in 0 .. MaxFrom : from_keys \in [0 .. n - 1 -> Key \cup {NULL}]
    /\ \E n \in 0 .. MaxJoin : join_keys \in [0 .. n - 1 -> Key \cup {NULL}]
    /\ from_rows \in SUBSET DOMAIN from_keys
    /\ join_rows \in SUBSET DOMAIN join_keys
    /\ algorithm \in Algorithms
    /\ swapped \in BOOLEAN
    /\ pc = "open"
    /\ build_todo = BuildRows
    /\ hash_table = [t \in {Text[k] : k \in Key} |-> << >>]
    /\ build_keys = << >> /\ build_rows = << >>
    /\ probe_next = 0 /\ probe_chunk = {}
    /\ key = NULL /\ lane = 0 /\ mask = {} /\ matches = << >>
    /\ output_buffer = << >> /\ output_cursor = 0
    /\ result = << >>

-----------------------------------------------------------------------------
(* open.                                                                   *)

(* A build row with a NULL key matches nothing and is left out.            *)
BuildNull ==
    /\ pc = "open" /\ build_todo # {}
    /\ BuildKeys[Least(build_todo)] = NULL
    /\ build_todo' = build_todo \ {Least(build_todo)}
    /\ UNCHANGED <<inputs, pc, hash_table, build_keys, build_rows, probe, loop, output, result>>

(* VecHashJoinNode: the row joins the bucket of its key's text.            *)
BuildBucket ==
    /\ pc = "open" /\ build_todo # {} /\ algorithm = "hash"
    /\ LET r == Least(build_todo)
       IN  /\ BuildKeys[r] # NULL
           /\ hash_table' = [hash_table EXCEPT ![Text[BuildKeys[r]]] = Append(@, r)]
           /\ build_todo' = build_todo \ {r}
    /\ UNCHANGED <<inputs, pc, build_keys, build_rows, probe, loop, output, result>>

(* VecSimdLoopJoinNode: key and row go to the two arrays.                  *)
BuildArrays ==
    /\ pc = "open" /\ build_todo # {} /\ algorithm = "loop"
    /\ LET r == Least(build_todo)
       IN  /\ BuildKeys[r] # NULL
           /\ build_keys' = Append(build_keys, BuildKeys[r])
           /\ build_rows' = Append(build_rows, r)
           /\ build_todo' = build_todo \ {r}
    /\ UNCHANGED <<inputs, pc, hash_table, probe, loop, output, result>>

(* The build child is exhausted and closed.                                *)
BuildDone ==
    /\ pc = "open" /\ build_todo = {}
    /\ pc' = "next"
    /\ UNCHANGED <<inputs, build, probe, loop, output, result>>

-----------------------------------------------------------------------------
(* nextChunk.                                                              *)

(* Wrong variant: the cursor goes back but the buffer is not cleared.      *)
PullProbeKeeps ==
    /\ pc = "next" /\ output_cursor >= Len(output_buffer)
    /\ probe_next < Cardinality(DOMAIN ProbeKeys)
    /\ output_cursor' = 0
    /\ LET count == Smaller(BatchSize, Cardinality(DOMAIN ProbeKeys) - probe_next)
       IN  /\ probe_chunk' = (probe_next .. probe_next + count - 1) \cap ProbeRows
           /\ probe_next' = probe_next + count
    /\ pc' = "probe"
    /\ UNCHANGED <<inputs, build, loop, output_buffer, result>>

(* Wrong variant: the child moves on by the rows that passed its filter.   *)
PullProbeStuck ==
    /\ pc = "next" /\ output_cursor >= Len(output_buffer)
    /\ probe_next < Cardinality(DOMAIN ProbeKeys)
    /\ output_buffer' = << >> /\ output_cursor' = 0
    /\ LET count == Smaller(BatchSize, Cardinality(DOMAIN ProbeKeys) - probe_next)
       IN  /\ probe_chunk' = (probe_next .. probe_next + count - 1) \cap ProbeRows
           /\ probe_next' = probe_next + Cardinality(probe_chunk')
    /\ pc' = "probe"
    /\ UNCHANGED <<inputs, build, loop, result>>

(* The buffer is spent: clear it and take the next chunk of the probe      *)
(* child, of which only the rows that passed its filter are visited.       *)
PullProbe ==
    /\ pc = "next" /\ output_cursor >= Len(output_buffer)
    /\ probe_next < Cardinality(DOMAIN ProbeKeys)
    /\ output_buffer' = << >> /\ output_cursor' = 0
    /\ LET count == Smaller(BatchSize, Cardinality(DOMAIN ProbeKeys) - probe_next)
       IN  /\ probe_chunk' = (probe_next .. probe_next + count - 1) \cap ProbeRows
           /\ probe_next' = probe_next + count
    /\ pc' = "probe"
    /\ UNCHANGED <<inputs, build, loop, result>>

(* The probe side is exhausted: null goes up.                              *)
ProbeExhausted ==
    /\ pc = "next" /\ output_cursor >= Len(output_buffer)
    /\ probe_next >= Cardinality(DOMAIN ProbeKeys)
    /\ output_buffer' = << >> /\ output_cursor' = 0
    /\ pc' = "done"
    /\ UNCHANGED <<inputs, build, probe, loop, result>>

(* A NULL probe key matches nothing.                                       *)
ProbeNull ==
    /\ pc = "probe" /\ probe_chunk # {}
    /\ ProbeKeys[Least(probe_chunk)] = NULL
    /\ probe_chunk' = probe_chunk \ {Least(probe_chunk)}
    /\ UNCHANGED <<inputs, pc, build, probe_next, loop, output, result>>

(* VecHashJoinNode: every row of the bucket makes a pair.                  *)
ProbeBucket ==
    /\ pc = "probe" /\ probe_chunk # {} /\ algorithm = "hash"
    /\ LET r == Least(probe_chunk)
       IN  /\ ProbeKeys[r] # NULL
           /\ LET bucket == hash_table[Text[ProbeKeys[r]]]
              IN  output_buffer' = output_buffer \o
                                   [n \in 1 .. Len(bucket) |-> Pair(r, bucket[n])]
           /\ probe_chunk' = probe_chunk \ {r}
    /\ UNCHANGED <<inputs, pc, build, probe_next, loop, output_cursor, result>>

(* VecSimdLoopJoinNode: the compare pass over the flat keys begins.        *)
CompareBegin ==
    /\ pc = "probe" /\ probe_chunk # {} /\ algorithm = "loop"
    /\ ProbeKeys[Least(probe_chunk)] # NULL
    /\ key' = ProbeKeys[Least(probe_chunk)]
    /\ lane' = 0 /\ mask' = {} /\ matches' = << >>
    /\ pc' = "compare"
    /\ UNCHANGED <<inputs, build, probe, output, result>>

(* Wrong variant: the last lane is left to no one.                         *)
CompareLanesShort ==
    /\ pc = "compare" /\ mask = {} /\ lane + Lanes <= Len(build_keys)
    /\ mask' = {i \in lane + 1 .. lane + Lanes - 1 : build_keys[i] = key}
    /\ lane' = lane + Lanes
    /\ UNCHANGED <<inputs, pc, build, probe, key, matches, output, result>>

(* One SIMD comparison: the mask of the lanes that hold the key.           *)
CompareLanes ==
    /\ pc = "compare" /\ mask = {} /\ lane + Lanes <= Len(build_keys)
    /\ mask' = {i \in lane + 1 .. lane + Lanes : build_keys[i] = key}
    /\ lane' = lane + Lanes
    /\ UNCHANGED <<inputs, pc, build, probe, key, matches, output, result>>

(* The lowest bit of the mask is taken and cleared.                        *)
TakeLane ==
    /\ pc = "compare" /\ mask # {}
    /\ matches' = Append(matches, Least(mask))
    /\ mask' = mask \ {Least(mask)}
    /\ UNCHANGED <<inputs, pc, build, probe, key, lane, output, result>>

(* The scalar tail: the keys that do not fill the lanes, one by one.       *)
CompareTail ==
    /\ pc = "compare" /\ mask = {}
    /\ lane + Lanes > Len(build_keys) /\ lane < Len(build_keys)
    /\ matches' = IF build_keys[lane + 1] = key THEN Append(matches, lane + 1) ELSE matches
    /\ lane' = lane + 1
    /\ UNCHANGED <<inputs, pc, build, probe, key, mask, output, result>>

(* Every match makes a pair with the payload row beside the key.           *)
CompareEnd ==
    /\ pc = "compare" /\ mask = {} /\ lane >= Len(build_keys)
    /\ LET r == Least(probe_chunk)
       IN  /\ output_buffer' = output_buffer \o
                               [n \in 1 .. Len(matches) |-> Pair(r, build_rows[matches[n]])]
           /\ probe_chunk' = probe_chunk \ {r}
    /\ pc' = "probe"
    /\ UNCHANGED <<inputs, build, probe_next, loop, output_cursor, result>>

(* The probe chunk is used up; with no match the loop pulls the next one.  *)
ProbeDone ==
    /\ pc = "probe" /\ probe_chunk = {}
    /\ pc' = "next"
    /\ UNCHANGED <<inputs, build, probe, loop, output, result>>

(* Wrong variant: the cursor moves on by a full batch, past the end.       *)
EmitSliceFull ==
    /\ pc = "next" /\ output_cursor < Len(output_buffer)
    /\ LET batch == Smaller(BatchSize, Len(output_buffer) - output_cursor)
       IN  result' = result \o SubSeq(output_buffer, output_cursor + 1, output_cursor + batch)
    /\ output_cursor' = output_cursor + BatchSize
    /\ UNCHANGED <<inputs, pc, build, probe, loop, output_buffer>>

(* One slice of the buffer, at most a batch, goes to the parent.           *)
EmitSlice ==
    /\ pc = "next" /\ output_cursor < Len(output_buffer)
    /\ LET batch == Smaller(BatchSize, Len(output_buffer) - output_cursor)
       IN  /\ result' = result \o SubSeq(output_buffer, output_cursor + 1, output_cursor + batch)
           /\ output_cursor' = output_cursor + batch
    /\ UNCHANGED <<inputs, pc, build, probe, loop, output_buffer>>

(* Every further call answers null.                                        *)
Exhausted == pc = "done" /\ UNCHANGED vars

Next ==
    \/ BuildNull \/ BuildBucket \/ BuildArrays \/ BuildDone
    \/ PullProbe \/ ProbeExhausted
    \/ ProbeNull \/ ProbeBucket
    \/ CompareBegin \/ CompareLanes \/ TakeLane \/ CompareTail \/ CompareEnd
    \/ ProbeDone
    \/ EmitSlice
    \/ Exhausted

(* The parent keeps pulling and no step waits.                             *)
Spec == Init /\ [][Next]_vars /\ WF_vars(Next)

-----------------------------------------------------------------------------
(* Properties.                                                             *)

(* Types of the state.                                                     *)
TypeOK ==
    /\ \E n \in 0 .. MaxFrom : from_keys \in [0 .. n - 1 -> Key \cup {NULL}]
    /\ \E n \in 0 .. MaxJoin : join_keys \in [0 .. n - 1 -> Key \cup {NULL}]
    /\ from_rows \subseteq DOMAIN from_keys /\ join_rows \subseteq DOMAIN join_keys
    /\ algorithm \in Algorithms /\ swapped \in BOOLEAN
    /\ pc \in {"open", "next", "probe", "compare", "done"}
    /\ build_todo \subseteq BuildRows
    /\ hash_table \in [{Text[k] : k \in Key} -> Seq(BuildRows)]
    /\ build_keys \in Seq(Key) /\ build_rows \in Seq(BuildRows)
    /\ probe_next \in Nat /\ probe_next <= Cardinality(DOMAIN ProbeKeys)
    /\ probe_chunk \subseteq ProbeRows
    /\ key \in Key \cup {NULL} /\ lane \in Nat /\ lane <= Len(build_keys)
    /\ mask \subseteq 1 .. Len(build_keys) /\ matches \in Seq(1 .. Len(build_keys))
    /\ output_buffer \in Seq(from_rows \X join_rows)
    /\ output_cursor \in 0 .. Len(output_buffer)
    /\ result \in Seq(from_rows \X join_rows)

(* What ON from.k = join.k asks for: SQL's = holds of no NULL.             *)
Matching == {pair \in from_rows \X join_rows :
                <<from_keys[pair[1]], join_keys[pair[2]]>> \in Equal}

Delivered == {result[n] : n \in 1 .. Len(result)}

(* When the join reports the end, its rows are exactly the pairs that the  *)
(* ON condition calls equal, whichever algorithm and build side were       *)
(* chosen: the key is looked up by its text (hash) or by its bits (loop),  *)
(* NULLs are dropped on both sides and slices lose nothing.                *)
JoinExact == pc = "done" => Delivered = Matching

(* Where a pair stands in the order of probe rows, then build rows.        *)
Rank(pair) == IF swapped THEN pair[2] * MaxFrom + pair[1]
                         ELSE pair[1] * MaxJoin + pair[2]

(* Rows come out in that order, so none comes out twice: a bucket, or the  *)
(* matching lanes and then the scalar tail, are walked in build order and  *)
(* the buffer is cut where the last slice ended.                           *)
InOrder == \A n \in 1 .. Len(result) - 1 : Rank(result[n]) < Rank(result[n + 1])

(* To its parent a join is a stream of the matching pairs: every chunk     *)
(* holds the next ones, and the end comes only when none is left.          *)
Stream == INSTANCE QueryStream WITH
    NoLimit    <- NULL,
    qualifying <- {Rank(pair) : pair \in Matching},
    failing    <- {},
    limit      <- NULL,
    result     <- {Rank(pair) : pair \in Delivered},
    status     <- IF pc = "done" THEN "done" ELSE "running"

Implements == Stream!Spec

(* Both loops end: a probe chunk without a match pulls the next one, and   *)
(* every slice moves the cursor.                                           *)
Ends == <>(pc = "done")
=============================================================================
