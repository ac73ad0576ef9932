----------------------------- MODULE ColumnStore -----------------------------
(***************************************************************************)
(* How one column of a table is stored: CSVToColumnar::convert encodes the *)
(* raw values (run lengths for an INT column that compresses, a dictionary *)
(* for a STRING column), then builds the zone map by reading the encoded   *)
(* column back; the scan later decodes ranges of rows from it.             *)
(*                                                                         *)
(* Rows count from 0 as in the code.  Runs and dictionary entries are kept *)
(* in sequences and so count from 1.                                       *)
(***************************************************************************)
EXTENDS ZoneMap, Sequences

CONSTANTS MaxLen    \* bound on the length of the columns considered

ASSUME LenAssumption == MaxLen \in Nat

VARIABLES
    type, num_rows, raw,        \* the column to store, fixed by Init
    phase,
    i,                          \* next row the encoder reads
    runs, run_starts,           \* RLEColumn
    dict, str_to_id, codes,     \* DictionaryEncoder
    encoding,                   \* the representation the table keeps
    zones,                      \* zone-map entries finished so far
    chunk_idx, r, mn, mx,       \* the chunk under way and its min / max loop
    start_row, end_row, row, run_idx, result     \* RLEColumn::decodeRange

column  == <<type, num_rows, raw>>
rle     == <<runs, run_starts>>
strings == <<dict, str_to_id, codes>>
chunk   == <<zones, chunk_idx, r, mn, mx>>
decode  == <<start_row, end_row, row, run_idx, result>>
vars    == <<column, phase, i, rle, strings, encoding, chunk, decode>>

-----------------------------------------------------------------------------
Row == 0 .. num_rows - 1

(* What a column of each type can hold; the loader leaves no NULL.         *)
Domain(t) == IF t = "DOUBLE" THEN Value ELSE Num

Run == [value : Num, length : Nat \ {0}]

(* The last run that starts at or before x (upper_bound, then one back).   *)
RunOf(x) ==
    CHOOSE j \in DOMAIN run_starts :
        /\ run_starts[j] <= x
        /\ \A m \in DOMAIN run_starts : run_starts[m] <= x => m <= j

(* Where run j ends: at the start of the next, or after its length.        *)
RunEnd(j) == IF j + 1 \in DOMAIN run_starts THEN run_starts[j + 1]
                                            ELSE run_starts[j] + runs[j].length

(* Row x as any reader of the table sees it.                               *)
GetValue(x) ==
    IF encoding = "rle" THEN runs[RunOf(x)].value
    ELSE IF encoding = "dict" THEN dict[codes[x]] ELSE raw[x]

(* 16 bytes a run against 8 bytes a value, and at least half to be saved.  *)
Compresses == 2 * 16 * Len(runs) < 8 * num_rows

Smaller(a, b) == IF a <= b THEN a ELSE b

Init ==
    /\ type \in {"INT", "DOUBLE", "STRING"}
    /\ num_rows \in 0 .. MaxLen
    /\ raw \in [Row -> Domain(type)]
    /\ phase = "encode" /\ i = 0
    /\ runs = << >> /\ run_starts = << >>
    /\ dict = << >> /\ str_to_id = [v \in {} |-> 0] /\ codes = [x \in {} |-> 0]
    /\ encoding = "raw"
    /\ zones = [k \in {} |-> 0] /\ chunk_idx = 0 /\ r = 0 /\ mn = NaN /\ mx = NaN
    /\ start_row = 0 /\ end_row = 0 /\ row = 0 /\ run_idx = 0
    /\ result = [x \in {} |-> 0]

-----------------------------------------------------------------------------
(* Encoding.                                                               *)

(* RLEColumn::encode: the value repeats, the last run grows.               *)
ExtendRun ==
    /\ phase = "encode" /\ type = "INT" /\ i < num_rows
    /\ runs # << >> /\ raw[i] = runs[Len(runs)].value
    /\ runs' = [runs EXCEPT ![Len(runs)].length = @ + 1]
    /\ i' = i + 1
    /\ UNCHANGED <<column, phase, run_starts, strings, encoding, chunk, decode>>

(* Wrong variant: the length of the old run is read before it has grown.   *)
OpenRunShort ==
    /\ phase = "encode" /\ type = "INT" /\ i < num_rows
    /\ runs # << >> => raw[i] # runs[Len(runs)].value
    /\ runs' = Append(runs, [value |-> raw[i], length |-> 1])
    /\ run_starts' = Append(run_starts,
                            IF runs = << >> THEN 0 ELSE run_starts[Len(runs)] + 1)
    /\ i' = i + 1
    /\ UNCHANGED <<column, phase, strings, encoding, chunk, decode>>

(* RLEColumn::encode: another value, or the first, opens a run.            *)
OpenRun ==
    /\ phase = "encode" /\ type = "INT" /\ i < num_rows
    /\ runs # << >> => raw[i] # runs[Len(runs)].value
    /\ runs' = Append(runs, [value |-> raw[i], length |-> 1])
    /\ run_starts' = Append(run_starts,
                            IF runs = << >> THEN 0
                            ELSE run_starts[Len(runs)] + runs[Len(runs)].length)
    /\ i' = i + 1
    /\ UNCHANGED <<column, phase, strings, encoding, chunk, decode>>

(* The runs replace the values only if they take less than half the space. *)
ChooseRuns ==
    /\ phase = "encode" /\ type = "INT" /\ i = num_rows
    /\ encoding' = IF Compresses THEN "rle" ELSE "raw"
    /\ phase' = "zones"
    /\ UNCHANGED <<column, i, rle, strings, chunk, decode>>

(* A DOUBLE column stays as it is.                                         *)
KeepRaw ==
    /\ phase = "encode" /\ type = "DOUBLE"
    /\ phase' = "zones"
    /\ UNCHANGED <<column, i, rle, strings, encoding, chunk, decode>>

(* DictionaryEncoder::encode: a string seen before reuses its code.        *)
ReuseCode ==
    /\ phase = "encode" /\ type = "STRING" /\ i < num_rows
    /\ raw[i] \in DOMAIN str_to_id
    /\ codes' = [x \in 0 .. i |-> IF x = i THEN str_to_id[raw[i]] ELSE codes[x]]
    /\ i' = i + 1
    /\ UNCHANGED <<column, phase, rle, dict, str_to_id, encoding, chunk, decode>>

(* Wrong variant: the code is taken after the string was appended.         *)
NewCodeLate ==
    /\ phase = "encode" /\ type = "STRING" /\ i < num_rows
    /\ raw[i] \notin DOMAIN str_to_id
    /\ LET id == Len(dict) + 2
       IN  /\ str_to_id' = [v \in DOMAIN str_to_id \cup {raw[i]} |->
                              IF v = raw[i] THEN id ELSE str_to_id[v]]
           /\ codes' = [x \in 0 .. i |-> IF x = i THEN id ELSE codes[x]]
    /\ dict' = Append(dict, raw[i])
    /\ i' = i + 1
    /\ UNCHANGED <<column, phase, rle, encoding, chunk, decode>>

(* DictionaryEncoder::encode: a new string is appended to the dictionary.  *)
NewCode ==
    /\ phase = "encode" /\ type = "STRING" /\ i < num_rows
    /\ raw[i] \notin DOMAIN str_to_id
    /\ LET id == Len(dict) + 1
       IN  /\ str_to_id' = [v \in DOMAIN str_to_id \cup {raw[i]} |->
                              IF v = raw[i] THEN id ELSE str_to_id[v]]
           /\ codes' = [x \in 0 .. i |-> IF x = i THEN id ELSE codes[x]]
    /\ dict' = Append(dict, raw[i])
    /\ i' = i + 1
    /\ UNCHANGED <<column, phase, rle, encoding, chunk, decode>>

(* The codes always replace the strings.                                   *)
ChooseCodes ==
    /\ phase = "encode" /\ type = "STRING" /\ i = num_rows
    /\ encoding' = "dict"
    /\ phase' = "zones"
    /\ UNCHANGED <<column, i, rle, strings, chunk, decode>>

-----------------------------------------------------------------------------
(* The zone map, read through the encoding; r is the next row to look at.  *)

ChunkStart == chunk_idx * ChunkSize
ChunkEnd   == Smaller(ChunkStart + ChunkSize, num_rows)

(* Wrong variant: the bounds of the previous chunk are kept.               *)
FirstOfChunkKeeps ==
    /\ phase = "zones" /\ ChunkStart < num_rows
    /\ mn' = IF chunk_idx = 0 THEN GetValue(ChunkStart) ELSE mn
    /\ mx' = IF chunk_idx = 0 THEN GetValue(ChunkStart) ELSE mx
    /\ r' = ChunkStart + 1
    /\ phase' = "minmax"
    /\ UNCHANGED <<column, i, rle, strings, encoding, zones, chunk_idx, decode>>

(* The first row of a chunk is its minimum and its maximum so far.         *)
FirstOfChunk ==
    /\ phase = "zones" /\ ChunkStart < num_rows
    /\ mn' = GetValue(ChunkStart) /\ mx' = GetValue(ChunkStart)
    /\ r' = ChunkStart + 1
    /\ phase' = "minmax"
    /\ UNCHANGED <<column, i, rle, strings, encoding, zones, chunk_idx, decode>>

(* A further row moves a bound only on a strict comparison.                *)
NextOfChunk ==
    /\ phase = "minmax" /\ r < ChunkEnd
    /\ mn' = IF Less(GetValue(r), mn) THEN GetValue(r) ELSE mn
    /\ mx' = IF Less(mx, GetValue(r)) THEN GetValue(r) ELSE mx
    /\ r' = r + 1
    /\ UNCHANGED <<column, phase, i, rle, strings, encoding, zones, chunk_idx, decode>>

(* The chunk is finished and its entry appended.                           *)
EndOfChunk ==
    /\ phase = "minmax" /\ r >= ChunkEnd
    /\ zones' = [k \in 0 .. chunk_idx |->
                    IF k = chunk_idx THEN [min_val |-> mn, max_val |-> mx] ELSE zones[k]]
    /\ chunk_idx' = chunk_idx + 1
    /\ phase' = "zones"
    /\ UNCHANGED <<column, i, rle, strings, encoding, r, mn, mx, decode>>

(* Every chunk has its entry: the table can be scanned.                    *)
ZonesDone ==
    /\ phase = "zones" /\ ChunkStart >= num_rows
    /\ phase' = "ready"
    /\ UNCHANGED <<column, i, rle, strings, encoding, chunk, decode>>

-----------------------------------------------------------------------------
(* RLEColumn::decodeRange, called by the scan for one batch of rows.       *)

DecodeStart ==
    /\ phase = "ready" /\ encoding = "rle"
    /\ \E s \in Row : \E e \in s + 1 .. num_rows :
        /\ start_row' = s /\ end_row' = e
        /\ row' = s /\ run_idx' = RunOf(s)
        /\ result' = [x \in {} |-> 0]
    /\ phase' = "decode"
    /\ UNCHANGED <<column, i, rle, strings, encoding, chunk>>

(* Wrong variant: a run is copied whole, past the end of the range.        *)
DecodeRunWhole ==
    /\ phase = "decode" /\ row < end_row
    /\ LET fill_end == RunEnd(run_idx)
       IN  /\ result' = [x \in start_row .. fill_end - 1 |->
                            IF x < row THEN result[x] ELSE runs[run_idx].value]
           /\ row' = fill_end
    /\ run_idx' = run_idx + 1
    /\ UNCHANGED <<column, phase, i, rle, strings, encoding, chunk, start_row, end_row>>

(* One turn of the loop copies what the current run has of the range.      *)
DecodeRun ==
    /\ phase = "decode" /\ row < end_row
    /\ LET fill_end == Smaller(RunEnd(run_idx), end_row)
       IN  /\ result' = [x \in start_row .. fill_end - 1 |->
                            IF x < row THEN result[x] ELSE runs[run_idx].value]
           /\ row' = fill_end
    /\ run_idx' = run_idx + 1
    /\ UNCHANGED <<column, phase, i, rle, strings, encoding, chunk, start_row, end_row>>

(* The range is complete and goes to the scan; another may be asked for.   *)
DecodeEnd ==
    /\ phase = "decode" /\ row >= end_row
    /\ phase' = "ready"
    /\ UNCHANGED <<column, i, rle, strings, encoding, chunk, decode>>

(* A table that is not decoded further stays as it is.                     *)
Idle == phase = "ready" /\ UNCHANGED vars

Next ==
    \/ ExtendRun \/ OpenRun \/ ChooseRuns
    \/ KeepRaw
    \/ ReuseCode \/ NewCode \/ ChooseCodes
    \/ FirstOfChunk \/ NextOfChunk \/ EndOfChunk \/ ZonesDone
    \/ DecodeStart \/ DecodeRun \/ DecodeEnd
    \/ Idle

Spec == Init /\ [][Next]_vars

-----------------------------------------------------------------------------
Phase == {"encode", "zones", "minmax", "ready", "decode"}

TypeOK ==
    /\ type \in {"INT", "DOUBLE", "STRING"}
    /\ num_rows \in 0 .. MaxLen
    /\ raw \in [Row -> Domain(type)]
    /\ phase \in Phase
    /\ i \in 0 .. num_rows
    /\ runs \in Seq(Run) /\ run_starts \in Seq(Nat) /\ Len(run_starts) = Len(runs)
    /\ dict \in Seq(Num) /\ encoding \in {"raw", "rle", "dict"}
    /\ str_to_id \in [DOMAIN str_to_id -> DOMAIN dict]
    /\ codes \in [DOMAIN codes -> DOMAIN dict]
    /\ chunk_idx \in Nat /\ r \in Nat /\ mn \in Value /\ mx \in Value
    /\ zones \in [0 .. chunk_idx - 1 -> Zone]
    /\ start_row \in Nat /\ end_row \in Nat /\ row \in Nat /\ run_idx \in Nat

(* Encoding loses nothing: once the encoding is chosen, every row read     *)
(* through it, by binary search over run starts or by dictionary code, has *)
(* its original value.                                                     *)
ReadsBack == phase # "encode" => \A x \in Row : GetValue(x) = raw[x]

(* The zone map that VecPipeline's scan starts from: every finished entry  *)
(* is what the min / max loop promises, and a table that can be scanned    *)
(* has an entry for each of its chunks, the short last one included.       *)
ZonesExact ==
    /\ \A k \in DOMAIN zones : IsZone(zones[k], raw, k, num_rows)
    /\ phase \in {"ready", "decode"} => DOMAIN zones = ChunkIds(num_rows)

(* A range decode copies exactly the rows asked for, wherever the range    *)
(* starts and ends within runs, and never looks past the last run.         *)
DecodeExact ==
    phase = "decode" =>
        /\ DOMAIN result = start_row .. row - 1
        /\ row <= end_row
        /\ \A x \in DOMAIN result : result[x] = raw[x]
        /\ row < end_row => run_idx \in DOMAIN runs
=============================================================================
