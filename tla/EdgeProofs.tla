----------------------------- MODULE EdgeProofs -----------------------------
(***************************************************************************)
(* Proofs about the two ends of the program: the store the rows are read   *)
(* from and the session that answers.                                      *)
(*                                                                         *)
(* First ColumnStore, for columns of any length over any values.  The      *)
(* inductive invariant says that the runs tile the rows read so far, that  *)
(* codes and dictionary agree, that the min / max loop keeps the           *)
(* postcondition of its finished part, and that a decode in progress holds *)
(* the run of the row it is at.                                            *)
(*                                                                         *)
(* Then Session, for all queries, tables, contents, command lines and      *)
(* changes of files: what the cache holds was executed for the same text,  *)
(* an answer from it is the one that would be computed as long as no file  *)
(* changes, and the exit code tells how far the program came.              *)
(***************************************************************************)
EXTENDS ColumnStore, Session, TLAPS

-----------------------------------------------------------------------------
(* ColumnStore.                                                            *)

(* Row x lies in run j.                                                    *)
InRun(x, j) == run_starts[j] <= x /\ x < run_starts[j] + runs[j].length

(* The runs follow one another without gap or overlap up to row i, and     *)
(* each holds the value of all its rows.                                   *)
RunsTile ==
    /\ type # "INT" => runs = << >>
    /\ \A j \in DOMAIN runs :
         IF j = Len(runs) THEN run_starts[j] + runs[j].length = i
                          ELSE run_starts[j + 1] = run_starts[j] + runs[j].length
    /\ \A j, m \in DOMAIN runs : j < m => run_starts[j] + runs[j].length <= run_starts[m]
    /\ \A j \in DOMAIN runs : \A x \in 0 .. i - 1 : InRun(x, j) => raw[x] = runs[j].value
    /\ type = "INT" => \A x \in 0 .. i - 1 : \E j \in DOMAIN runs : InRun(x, j)

(* Codes and dictionary give the strings read so far.                      *)
CodesAgree ==
    type = "STRING" =>
        /\ DOMAIN codes = 0 .. i - 1
        /\ \A x \in 0 .. i - 1 : dict[codes[x]] = raw[x]
        /\ \A v \in DOMAIN str_to_id : dict[str_to_id[v]] = v

(* What the chosen encoding implies.                                       *)
Encoded ==
    /\ phase = "encode" => encoding = "raw" /\ chunk_idx = 0
    /\ encoding = "rle" => type = "INT" /\ i = num_rows
    /\ encoding = "dict" => type = "STRING" /\ i = num_rows

(* Finished entries are zones, and the one under way is the zone of the    *)
(* rows it has seen.                                                       *)
ZonesSoFar ==
    /\ \A k \in 0 .. chunk_idx - 1 :
         k * ChunkSize < num_rows /\ IsZone(zones[k], raw, k, num_rows)
    /\ phase = "minmax" =>
         /\ ChunkStart < r /\ r <= ChunkEnd
         /\ IsZone([min_val |-> mn, max_val |-> mx], raw, chunk_idx, r)
    /\ phase \in {"ready", "decode"} => ChunkStart >= num_rows

(* The decode loop is inside the run of the row it copies next.            *)
DecodeSoFar ==
    phase = "decode" =>
        /\ encoding = "rle"
        /\ start_row <= row /\ row <= end_row /\ end_row <= num_rows
        /\ DOMAIN result = start_row .. row - 1
        /\ \A x \in start_row .. row - 1 : result[x] = raw[x]
        /\ row < end_row => run_idx \in DOMAIN runs /\ InRun(row, run_idx)

IInv == TypeOK /\ RunsTile /\ CodesAgree /\ Encoded /\ ZonesSoFar /\ DecodeSoFar

-----------------------------------------------------------------------------
(* The parts of a run have their types.                                    *)
LEMMA RunFacts ==
  ASSUME TypeOK
  PROVE  /\ Len(runs) \in Nat /\ DOMAIN runs = 1 .. Len(runs) /\ DOMAIN run_starts = DOMAIN runs
         /\ \A j \in DOMAIN runs : /\ j \in Nat /\ j >= 1 /\ j <= Len(runs)
                                  /\ run_starts[j] \in Nat
                                  /\ runs[j].length \in Nat /\ runs[j].length > 0
                                  /\ runs[j].value \in Num
PROOF
<1>1. runs \in Seq(Run) /\ run_starts \in Seq(Nat) /\ Len(run_starts) = Len(runs)
  BY DEF TypeOK
<1>2. Len(runs) \in Nat /\ DOMAIN runs = 1 .. Len(runs) /\ DOMAIN run_starts = DOMAIN runs
  BY <1>1
<1>3. \A j \in DOMAIN runs : runs[j] \in Run /\ run_starts[j] \in Nat
  BY <1>1
<1> QED BY <1>2, <1>3 DEF Run

(* The binary search finds the run of a row: the run is the only one that  *)
(* starts at or before the row and is not followed by another such.        *)
LEMMA RunFound ==
  ASSUME TypeOK, RunsTile, NEW x \in Nat, NEW j \in DOMAIN runs, InRun(x, j)
  PROVE  RunOf(x) = j
PROOF
<1> DEFINE P(n) == run_starts[n] <= x
                   /\ \A m \in DOMAIN run_starts : run_starts[m] <= x => m <= n
<1>1. DOMAIN run_starts = DOMAIN runs /\ \A n \in DOMAIN runs : n \in Nat /\ run_starts[n] \in Nat
  BY RunFacts
<1>2. \A m \in DOMAIN runs : j < m => run_starts[m] > x
  <2> SUFFICES ASSUME NEW m \in DOMAIN runs, j < m PROVE run_starts[m] > x
    OBVIOUS
  <2>1. run_starts[j] + runs[j].length <= run_starts[m]
    BY DEF RunsTile
  <2>2. runs[j].length \in Nat
    BY RunFacts
  <2> QED BY <1>1, <2>1, <2>2 DEF InRun
<1>3. P(j)
  BY <1>1, <1>2 DEF InRun
<1>4. \A n \in DOMAIN run_starts : P(n) => n = j
  BY <1>1, <1>3
<1>5. RunOf(x) = CHOOSE n \in DOMAIN run_starts : P(n)
  BY Zenon DEF RunOf
<1> QED BY <1>1, <1>3, <1>4, <1>5

(* Every row reads back as its original value.                             *)
LEMMA ReadExact ==
  ASSUME TypeOK, RunsTile, CodesAgree, Encoded, NEW x \in Row
  PROVE  GetValue(x) = raw[x]
PROOF
<1>1. CASE encoding = "rle"
  <2>1. type = "INT" /\ x \in 0 .. i - 1 /\ x \in Nat
    BY <1>1 DEF Encoded, Row, TypeOK
  <2>2. PICK j \in DOMAIN runs : InRun(x, j)
    BY <2>1 DEF RunsTile
  <2>3. RunOf(x) = j
    BY <2>1, <2>2, RunFound
  <2>4. raw[x] = runs[j].value
    BY <2>1, <2>2 DEF RunsTile
  <2> QED BY <1>1, <2>3, <2>4 DEF GetValue
<1>2. CASE encoding = "dict"
  <2>1. type = "STRING" /\ x \in 0 .. i - 1
    BY <1>2 DEF Encoded, Row, TypeOK
  <2> QED BY <1>2, <2>1 DEF CodesAgree, GetValue
<1>3. CASE encoding = "raw"
  BY <1>3 DEF GetValue
<1> QED BY <1>1, <1>2, <1>3 DEF TypeOK

(* A value read back is a value the column can hold.                       *)
LEMMA ReadType ==
  ASSUME TypeOK, RunsTile, CodesAgree, Encoded, NEW x \in Row
  PROVE  GetValue(x) \in Value
PROOF BY ReadExact DEF TypeOK, Domain, Value

-----------------------------------------------------------------------------
LEMMA InitInv == Init => IInv
PROOF
<1> SUFFICES ASSUME Init PROVE IInv
  OBVIOUS
<1> USE DEF Init
<1>1. TypeOK
  BY LenAssumption, NaNAssumption DEF TypeOK, Row, Value, Phase
<1>2. RunsTile /\ CodesAgree /\ Encoded /\ DecodeSoFar
  BY DEF RunsTile, CodesAgree, Encoded, DecodeSoFar
<1>3. ZonesSoFar
  BY DEF ZonesSoFar
<1> QED BY <1>1, <1>2, <1>3 DEF IInv

-----------------------------------------------------------------------------
(* What an unchanged part of the state keeps.                              *)
LEMMA RunsSame ==
  ASSUME RunsTile, UNCHANGED <<column, rle, i>>
  PROVE  RunsTile'
PROOF BY DEF RunsTile, InRun, column, rle

LEMMA CodesSame ==
  ASSUME CodesAgree, UNCHANGED <<column, strings, i>>
  PROVE  CodesAgree'
PROOF BY DEF CodesAgree, column, strings

(* While the encoder runs there are no zones and nothing is decoded.       *)
LEMMA Early ==
  ASSUME phase = "encode", Encoded, UNCHANGED chunk, phase' \in {"encode", "zones"}
  PROVE  ZonesSoFar' /\ DecodeSoFar'
PROOF BY DEF ZonesSoFar, DecodeSoFar, Encoded, chunk

(* Every action of the encoders keeps the invariant.                       *)
LEMMA ExtendStep == IInv /\ ExtendRun => IInv'
PROOF
<1> SUFFICES ASSUME IInv, ExtendRun PROVE IInv'
  OBVIOUS
<1> DEFINE last == Len(runs)
<1>0. TypeOK /\ RunsTile /\ CodesAgree /\ Encoded
  BY DEF IInv
<1>1. /\ phase = "encode" /\ type = "INT" /\ i < num_rows /\ i \in Nat /\ num_rows \in Nat
      /\ raw[i] = runs[last].value /\ i' = i + 1
      /\ runs' = [runs EXCEPT ![last].length = @ + 1]
      /\ UNCHANGED <<column, phase, run_starts, strings, encoding, chunk, decode>>
      /\ UNCHANGED <<type, num_rows, raw>>
  BY LenAssumption, <1>0 DEF ExtendRun, TypeOK, column
<1>2. runs # << >> /\ last \in DOMAIN runs /\ last \in Nat
  BY <1>0, RunFacts DEF ExtendRun, TypeOK
<1>3. /\ DOMAIN runs' = DOMAIN runs /\ Len(runs') = last
      /\ \A j \in DOMAIN runs : runs'[j].value = runs[j].value
      /\ \A j \in DOMAIN runs : j # last => runs'[j].length = runs[j].length
      /\ runs'[last].length = runs[last].length + 1
      /\ runs' \in Seq(Run)
  <2>1. runs \in Seq(Run) /\ runs[last] \in Run
    BY <1>0, <1>2 DEF TypeOK
  <2>2. [runs[last] EXCEPT !.length = @ + 1] \in Run
    BY <2>1 DEF Run
  <2> QED BY <1>1, <1>2, <2>1, <2>2 DEF Run
<1>4. TypeOK'
  BY <1>0, <1>1, <1>3 DEF TypeOK, column, strings, chunk, decode, Row
<1>5. RunsTile'
  <2>1. run_starts[last] + runs[last].length = i
    BY <1>0, <1>2 DEF RunsTile
  <2>2. \A j \in DOMAIN runs : /\ j \in Nat /\ j <= last /\ run_starts[j] \in Nat
                               /\ runs[j].length \in Nat /\ run_starts'[j] = run_starts[j]
    BY <1>0, <1>1, RunFacts
  <2>3. \A j \in DOMAIN runs : j # last => run_starts[j] + runs[j].length <= run_starts[last]
    BY <1>0, <1>2, <2>2 DEF RunsTile
  <2>4. \A j \in DOMAIN runs : IF j = Len(runs') THEN run_starts'[j] + runs'[j].length = i'
                               ELSE run_starts'[j + 1] = run_starts'[j] + runs'[j].length
    BY <1>0, <1>1, <1>2, <1>3, <2>1, <2>2 DEF RunsTile
  <2>5. \A j, m \in DOMAIN runs : j < m => run_starts'[j] + runs'[j].length <= run_starts'[m]
    <3> SUFFICES ASSUME NEW j \in DOMAIN runs, NEW m \in DOMAIN runs, j < m
                 PROVE  run_starts'[j] + runs'[j].length <= run_starts'[m]
      OBVIOUS
    <3>1. j # last
      BY <2>2, <1>2
    <3> QED BY <1>0, <1>3, <2>2, <3>1 DEF RunsTile
  <2>6. \A j \in DOMAIN runs, x \in 0 .. i - 1 : InRun(x, j)' <=> InRun(x, j)
    BY <1>1, <1>2, <1>3, <2>1, <2>2 DEF InRun
  <2>7. \A x \in {i}, j \in DOMAIN runs : InRun(x, j)' <=> j = last
    BY <1>1, <1>2, <1>3, <2>1, <2>2, <2>3 DEF InRun
  <2>8. \A j \in DOMAIN runs : \A x \in 0 .. i : InRun(x, j)' => raw[x] = runs'[j].value
    <3> SUFFICES ASSUME NEW j \in DOMAIN runs, NEW x \in 0 .. i, InRun(x, j)'
                 PROVE  raw[x] = runs'[j].value
      OBVIOUS
    <3>1. CASE x = i
      BY <1>1, <1>3, <2>7, <3>1
    <3>2. CASE x # i
      BY <1>0, <1>1, <1>3, <2>6, <3>2 DEF RunsTile
    <3> QED BY <3>1, <3>2
  <2>9. \A x \in 0 .. i : \E j \in DOMAIN runs : InRun(x, j)'
    <3> SUFFICES ASSUME NEW x \in 0 .. i PROVE \E j \in DOMAIN runs : InRun(x, j)'
      OBVIOUS
    <3>1. CASE x = i
      BY <1>2, <2>7, <3>1
    <3>2. CASE x # i
      <4>1. x \in 0 .. i - 1
        BY <1>1, <3>2
      <4> QED BY <1>0, <1>1, <2>6, <4>1 DEF RunsTile
    <3> QED BY <3>1, <3>2
  <2>10. 0 .. i' - 1 = 0 .. i
    BY <1>1
  <2> QED BY <1>1, <1>3, <2>4, <2>5, <2>8, <2>9, <2>10, ZenonT(30) DEF RunsTile
<1>6. CodesAgree' /\ Encoded' /\ ZonesSoFar' /\ DecodeSoFar'
  <2>1. CodesAgree' /\ Encoded'
    BY <1>0, <1>1 DEF CodesAgree, Encoded, column, chunk
  <2>2. ZonesSoFar' /\ DecodeSoFar'
    BY <1>0, <1>1, Early
  <2> QED BY <2>1, <2>2
<1> QED BY <1>4, <1>5, <1>6 DEF IInv

LEMMA OpenStep == IInv /\ OpenRun => IInv'
PROOF
<1> SUFFICES ASSUME IInv, OpenRun PROVE IInv'
  OBVIOUS
<1> DEFINE n == Len(runs)
           start == IF runs = << >> THEN 0 ELSE run_starts[n] + runs[n].length
<1>0. TypeOK /\ RunsTile /\ CodesAgree /\ Encoded
  BY DEF IInv
<1>1. /\ phase = "encode" /\ type = "INT" /\ i < num_rows /\ i \in Nat /\ num_rows \in Nat
      /\ runs' = Append(runs, [value |-> raw[i], length |-> 1])
      /\ run_starts' = Append(run_starts, start)
      /\ i' = i + 1 /\ i' \in 0 .. num_rows
      /\ UNCHANGED <<column, phase, strings, encoding, chunk, decode>>
      /\ UNCHANGED <<type, num_rows, raw>>
  BY LenAssumption, <1>0, SMTT(30) DEF OpenRun, TypeOK, column
<1>2. /\ runs \in Seq(Run) /\ run_starts \in Seq(Nat) /\ Len(run_starts) = n /\ n \in Nat
      /\ DOMAIN runs = 1 .. n /\ (runs # << >> => n \in DOMAIN runs)
  BY <1>0, RunFacts DEF TypeOK
<1>3. start = i
  <2>1. CASE runs = << >>
    <3>1. \A x \in 0 .. i - 1 : FALSE
      BY <1>0, <1>1, <2>1 DEF RunsTile
    <3> QED BY <1>1, <2>1, <3>1
  <2>2. CASE runs # << >>
    BY <1>0, <1>2, <2>2 DEF RunsTile
  <2> QED BY <2>1, <2>2
<1>4. raw[i] \in Num
  BY <1>0, <1>1 DEF TypeOK, Domain, Row
<1>5. /\ Len(runs') = n + 1 /\ DOMAIN runs' = 1 .. n + 1 /\ Len(run_starts') = n + 1
      /\ \A j \in 1 .. n : runs'[j] = runs[j] /\ run_starts'[j] = run_starts[j]
      /\ runs'[n + 1] = [value |-> raw[i], length |-> 1] /\ run_starts'[n + 1] = i
  BY <1>1, <1>2, <1>3
<1>6. runs' \in Seq(Run) /\ run_starts' \in Seq(Nat)
  <2>1. [value |-> raw[i], length |-> 1] \in Run
    BY <1>4 DEF Run
  <2> QED BY <1>1, <1>2, <1>3, <2>1
<1>7. TypeOK'
  BY <1>0, <1>1, <1>5, <1>6 DEF TypeOK, column, strings, chunk, decode, Row
<1>8. RunsTile'
  <2>1. \A j \in 1 .. n : /\ run_starts[j] \in Nat /\ runs[j].length \in Nat
                          /\ run_starts[j] + runs[j].length <= i
    <3>1. \A j \in 1 .. n : run_starts[j] \in Nat /\ runs[j].length \in Nat
      BY <1>0, <1>2, RunFacts
    <3>2. n \in DOMAIN runs => run_starts[n] + runs[n].length = i
      BY <1>0 DEF RunsTile
    <3>3. \A j \in 1 .. n : j # n => run_starts[j] + runs[j].length <= run_starts[n]
      BY <1>0, <1>2 DEF RunsTile
    <3>4. i \in Nat /\ n \in Nat
      BY <1>0, <1>1, <1>2 DEF TypeOK
    <3> SUFFICES ASSUME NEW j \in 1 .. n PROVE run_starts[j] + runs[j].length <= i
      BY <3>1
    <3>5. CASE j = n
      BY <1>2, <3>2, <3>4, <3>5
    <3>6. CASE j # n
      <4>1. n \in 1 .. n
        BY <3>4
      <4>2. run_starts[n] \in Nat /\ runs[n].length \in Nat
        BY <3>1, <4>1
      <4>3. run_starts[n] + runs[n].length = i
        BY <1>2, <3>2, <4>1
      <4>4. run_starts[j] + runs[j].length <= run_starts[n]
        BY <3>3, <3>6
      <4>5. run_starts[j] \in Nat /\ runs[j].length \in Nat
        BY <3>1
      <4> QED BY <3>4, <4>2, <4>3, <4>4, <4>5
    <3> QED BY <3>5, <3>6
  <2>2. \A j \in 1 .. n + 1 : IF j = n + 1 THEN run_starts'[j] + runs'[j].length = i'
                              ELSE run_starts'[j + 1] = run_starts'[j] + runs'[j].length
    <3> SUFFICES ASSUME NEW j \in 1 .. n + 1
                 PROVE  IF j = n + 1 THEN run_starts'[j] + runs'[j].length = i'
                        ELSE run_starts'[j + 1] = run_starts'[j] + runs'[j].length
      OBVIOUS
    <3>1. CASE j = n + 1
      BY <1>1, <1>5, <3>1
    <3>2. CASE j = n
      <4>1. n \in DOMAIN runs
        BY <1>2, <3>2
      <4>2. run_starts[n] + runs[n].length = i
        BY <1>0, <4>1 DEF RunsTile
      <4> QED BY <1>2, <1>5, <3>2, <4>2
    <3>3. CASE j < n
      <4>1. j \in DOMAIN runs /\ j + 1 \in 1 .. n
        BY <1>2, <3>3
      <4>2. run_starts[j + 1] = run_starts[j] + runs[j].length
        BY <1>0, <3>3, <4>1 DEF RunsTile
      <4> QED BY <1>2, <1>5, <3>3, <4>1, <4>2
    <3> QED BY <1>2, <3>1, <3>2, <3>3
  <2>3. \A j, m \in 1 .. n + 1 : j < m => run_starts'[j] + runs'[j].length <= run_starts'[m]
    <3> SUFFICES ASSUME NEW j \in 1 .. n + 1, NEW m \in 1 .. n + 1, j < m
                 PROVE  run_starts'[j] + runs'[j].length <= run_starts'[m]
      OBVIOUS
    <3>1. CASE m = n + 1
      BY <1>2, <1>5, <2>1, <3>1
    <3>2. CASE m # n + 1
      <4>1. j \in 1 .. n /\ m \in 1 .. n
        BY <1>2, <3>2
      <4>2. run_starts[j] + runs[j].length <= run_starts[m]
        BY <1>0, <1>2, <4>1 DEF RunsTile
      <4> QED BY <1>5, <4>1, <4>2
    <3> QED BY <3>1, <3>2
  <2>4. \A x \in 0 .. i : \A j \in 1 .. n : InRun(x, j)' <=> InRun(x, j)
    BY <1>5 DEF InRun
  <2>5. \A j \in {n + 1} : \A x \in 0 .. i : InRun(x, j)' <=> x = i
    BY <1>1, <1>2, <1>5 DEF InRun
  <2>6. \A x \in 0 .. i : \A j \in 1 .. n : InRun(x, j) => x \in 0 .. i - 1
    BY <1>1, <2>1 DEF InRun
  <2>7. \A j \in 1 .. n + 1 : \A x \in 0 .. i : InRun(x, j)' => raw[x] = runs'[j].value
    <3> SUFFICES ASSUME NEW j \in 1 .. n + 1, NEW x \in 0 .. i, InRun(x, j)'
                 PROVE  raw[x] = runs'[j].value
      OBVIOUS
    <3>1. CASE j = n + 1
      <4>1. x = i
        BY <2>5, <3>1
      <4> QED BY <1>5, <3>1, <4>1
    <3>2. CASE j # n + 1
      <4>1. j \in 1 .. n /\ InRun(x, j)
        BY <1>2, <2>4, <3>2
      <4> QED BY <1>0, <1>2, <1>5, <2>6, <4>1 DEF RunsTile
    <3> QED BY <3>1, <3>2
  <2>8. \A x \in 0 .. i : \E j \in 1 .. n + 1 : InRun(x, j)'
    <3> SUFFICES ASSUME NEW x \in 0 .. i PROVE \E j \in 1 .. n + 1 : InRun(x, j)'
      OBVIOUS
    <3>1. CASE x = i
      <4>1. PICK j \in 1 .. n + 1 : j = n + 1
        BY <1>2
      <4> QED BY <2>5, <3>1, <4>1
    <3>2. CASE x # i
      <4>1. PICK j \in DOMAIN runs : InRun(x, j)
        BY <1>0, <1>1, <3>2 DEF RunsTile
      <4>2. j \in 1 .. n /\ j \in 1 .. n + 1
        BY <1>2, <4>1
      <4> QED BY <2>4, <4>1, <4>2
    <3> QED BY <3>1, <3>2
  <2>9. 0 .. i' - 1 = 0 .. i
    BY <1>1
  <2>10. /\ \A j \in DOMAIN runs' : IF j = Len(runs') THEN run_starts'[j] + runs'[j].length = i'
                              ELSE run_starts'[j + 1] = run_starts'[j] + runs'[j].length
         /\ \A j, m \in DOMAIN runs' : j < m => run_starts'[j] + runs'[j].length <= run_starts'[m]
    BY <1>5, <2>2, <2>3
  <2>11. \A j \in DOMAIN runs' : \A x \in 0 .. i' - 1 : InRun(x, j)' => raw'[x] = runs'[j].value
    <3>1. DOMAIN runs' = 1 .. n + 1 /\ raw' = raw
      BY <1>1, <1>5
    <3> QED BY <3>1, <2>7, <2>9, Zenon
  <2>12. \A x \in 0 .. i' - 1 : \E j \in DOMAIN runs' : InRun(x, j)'
    <3>1. DOMAIN runs' = 1 .. n + 1
      BY <1>5
    <3> QED BY <3>1, <2>8, <2>9, Zenon
  <2> QED BY <1>1, <2>10, <2>11, <2>12 DEF RunsTile
<1>9. CodesAgree' /\ Encoded' /\ ZonesSoFar' /\ DecodeSoFar'
  <2>1. CodesAgree' /\ Encoded'
    BY <1>0, <1>1 DEF CodesAgree, Encoded, column, chunk
  <2>2. ZonesSoFar' /\ DecodeSoFar'
    BY <1>0, <1>1, Early
  <2> QED BY <2>1, <2>2
<1> QED BY <1>7, <1>8, <1>9 DEF IInv

(* Choosing the representation.                                            *)
LEMMA ChooseStep == IInv /\ (ChooseRuns \/ KeepRaw \/ ChooseCodes) => IInv'
PROOF
<1> SUFFICES ASSUME IInv, ChooseRuns \/ KeepRaw \/ ChooseCodes PROVE IInv'
  OBVIOUS
<1>0. TypeOK /\ RunsTile /\ CodesAgree /\ Encoded
  BY DEF IInv
<1>1. /\ phase = "encode" /\ phase' = "zones"
      /\ UNCHANGED <<column, i, rle, strings, chunk, decode>>
      /\ encoding' \in {"raw", "rle", "dict"}
      /\ encoding' = "rle" => type = "INT" /\ i = num_rows
      /\ encoding' = "dict" => type = "STRING" /\ i = num_rows
  BY <1>0 DEF ChooseRuns, KeepRaw, ChooseCodes, Encoded
<1>2. TypeOK'
  BY <1>0, <1>1 DEF TypeOK, column, rle, strings, chunk, decode, Row, Phase
<1>3. RunsTile' /\ CodesAgree'
  BY <1>0, <1>1, RunsSame, CodesSame
<1>4. ZonesSoFar' /\ DecodeSoFar'
  BY <1>0, <1>1, Early
<1>5. Encoded'
  BY <1>1 DEF Encoded, column
<1> QED BY <1>2, <1>3, <1>4, <1>5 DEF IInv

LEMMA ReuseStep == IInv /\ ReuseCode => IInv'
PROOF
<1> SUFFICES ASSUME IInv, ReuseCode PROVE IInv'
  OBVIOUS
<1>0. TypeOK /\ RunsTile /\ CodesAgree /\ Encoded
  BY DEF IInv
<1>1. /\ phase = "encode" /\ type = "STRING" /\ i < num_rows /\ i \in Nat
      /\ raw[i] \in DOMAIN str_to_id
      /\ codes' = [x \in 0 .. i |-> IF x = i THEN str_to_id[raw[i]] ELSE codes[x]]
      /\ i' = i + 1 /\ i' \in 0 .. num_rows
      /\ UNCHANGED <<type, num_rows, raw, phase, runs, run_starts, dict, str_to_id,
                     encoding, chunk, decode>>
  BY LenAssumption, <1>0 DEF ReuseCode, TypeOK, column, rle
<1>2. DOMAIN codes = 0 .. i - 1 /\ codes \in [DOMAIN codes -> DOMAIN dict]
      /\ str_to_id[raw[i]] \in DOMAIN dict
  BY <1>0, <1>1 DEF TypeOK, CodesAgree
<1>3. codes' \in [0 .. i -> DOMAIN dict]
  BY <1>1, <1>2
<1>4. TypeOK'
  BY <1>0, <1>1, <1>3 DEF TypeOK, chunk, decode, Row
<1>5. CodesAgree'
  <2>1. \A x \in 0 .. i : dict[codes'[x]] = raw[x]
    BY <1>0, <1>1 DEF CodesAgree
  <2>2. 0 .. i' - 1 = 0 .. i
    BY <1>1
  <2> QED BY <1>0, <1>1, <2>1, <2>2 DEF CodesAgree
<1>6. RunsTile' /\ Encoded'
  BY <1>0, <1>1 DEF RunsTile, Encoded, chunk
<1>7. ZonesSoFar' /\ DecodeSoFar'
  BY <1>0, <1>1, Early
<1> QED BY <1>4, <1>5, <1>6, <1>7 DEF IInv

LEMMA NewStep == IInv /\ NewCode => IInv'
PROOF
<1> SUFFICES ASSUME IInv, NewCode PROVE IInv'
  OBVIOUS
<1> DEFINE id == Len(dict) + 1
<1>0. TypeOK /\ RunsTile /\ CodesAgree /\ Encoded
  BY DEF IInv
<1>1. /\ phase = "encode" /\ type = "STRING" /\ i < num_rows /\ i \in Nat
      /\ str_to_id' = [v \in DOMAIN str_to_id \cup {raw[i]} |->
                          IF v = raw[i] THEN id ELSE str_to_id[v]]
      /\ codes' = [x \in 0 .. i |-> IF x = i THEN id ELSE codes[x]]
      /\ dict' = Append(dict, raw[i])
      /\ i' = i + 1 /\ i' \in 0 .. num_rows
      /\ UNCHANGED <<type, num_rows, raw, phase, runs, run_starts, encoding, chunk, decode>>
  BY LenAssumption, <1>0 DEF NewCode, TypeOK, column, rle
<1>2. raw[i] \in Num
  BY <1>0, <1>1 DEF TypeOK, Domain, Row
<1>3. /\ dict \in Seq(Num) /\ Len(dict) \in Nat /\ DOMAIN dict = 1 .. Len(dict)
      /\ dict' \in Seq(Num) /\ DOMAIN dict' = 1 .. id /\ dict'[id] = raw[i]
      /\ \A j \in DOMAIN dict : dict'[j] = dict[j] /\ j \in DOMAIN dict'
  <2>1. dict \in Seq(Num) /\ Len(dict) \in Nat /\ DOMAIN dict = 1 .. Len(dict)
    BY <1>0 DEF TypeOK
  <2> QED BY <1>1, <1>2, <2>1
<1>4. /\ DOMAIN codes = 0 .. i - 1 /\ \A x \in 0 .. i - 1 : codes[x] \in DOMAIN dict
      /\ \A v \in DOMAIN str_to_id : str_to_id[v] \in DOMAIN dict
  BY <1>0, <1>1 DEF TypeOK, CodesAgree
<1>5. codes' \in [0 .. i -> DOMAIN dict']
  <2> SUFFICES ASSUME NEW x \in 0 .. i
               PROVE  (IF x = i THEN id ELSE codes[x]) \in DOMAIN dict'
    BY <1>1
  <2>1. id \in DOMAIN dict'
    BY <1>3
  <2>2. x # i => x \in 0 .. i - 1
    BY <1>1
  <2> QED BY <1>3, <1>4, <2>1, <2>2
<1>6. str_to_id' \in [DOMAIN str_to_id \cup {raw[i]} -> DOMAIN dict']
  BY <1>1, <1>3, <1>4
<1>7. TypeOK'
  BY <1>0, <1>1, <1>3, <1>5, <1>6 DEF TypeOK, chunk, decode, Row
<1>8. CodesAgree'
  <2>1. \A x \in 0 .. i : dict'[codes'[x]] = raw[x]
    <3> SUFFICES ASSUME NEW x \in 0 .. i PROVE dict'[codes'[x]] = raw[x]
      OBVIOUS
    <3>1. CASE x = i
      BY <1>1, <1>3, <3>1
    <3>2. CASE x # i
      <4>1. x \in 0 .. i - 1 /\ codes'[x] = codes[x]
        BY <1>1, <3>2
      <4> QED BY <1>0, <1>1, <1>3, <1>4, <4>1 DEF CodesAgree
    <3> QED BY <3>1, <3>2
  <2>2. \A v \in DOMAIN str_to_id' : dict'[str_to_id'[v]] = v
    BY <1>0, <1>1, <1>3, <1>4 DEF CodesAgree
  <2>3. 0 .. i' - 1 = 0 .. i
    BY <1>1
  <2> QED BY <1>1, <2>1, <2>2, <2>3 DEF CodesAgree
<1>9. RunsTile' /\ Encoded'
  BY <1>0, <1>1 DEF RunsTile, Encoded, chunk
<1>10. ZonesSoFar' /\ DecodeSoFar'
  BY <1>0, <1>1, Early
<1> QED BY <1>7, <1>8, <1>9, <1>10 DEF IInv

-----------------------------------------------------------------------------
(* The zone map.                                                           *)

(* Reading the next row of the chunk under way.                            *)
LEMMA ZoneFacts ==
  ASSUME TypeOK
  PROVE  /\ ChunkSize \in Nat /\ ChunkSize > 0 /\ chunk_idx \in Nat /\ ChunkStart \in Nat
         /\ num_rows \in Nat /\ r \in Nat
         /\ (chunk_idx + 1) * ChunkSize = ChunkStart + ChunkSize
         /\ ChunkEnd <= num_rows /\ ChunkEnd <= ChunkStart + ChunkSize
         /\ ChunkEnd = num_rows \/ ChunkEnd = ChunkStart + ChunkSize
PROOF
<1>1. ChunkSize \in Nat /\ ChunkSize > 0 /\ chunk_idx \in Nat /\ num_rows \in Nat /\ r \in Nat
  BY ChunkAssumption, LenAssumption DEF TypeOK
<1>2. ChunkStart \in Nat
  BY <1>1 DEF ChunkStart
<1>3. (chunk_idx + 1) * ChunkSize = ChunkStart + ChunkSize
  BY <1>1 DEF ChunkStart
<1> QED BY <1>1, <1>2, <1>3 DEF ChunkEnd, Smaller

(* The rows of the chunk under way that the loop has seen.                 *)
LEMMA SeenRows ==
  ASSUME TypeOK, NEW n \in Nat, ChunkStart < n, n <= ChunkEnd
  PROVE  ChunkRows(chunk_idx, n) = ChunkStart .. n - 1
PROOF BY ZoneFacts DEF ChunkRows, ChunkStart

LEMMA FirstStep == IInv /\ FirstOfChunk => IInv'
PROOF
<1> SUFFICES ASSUME IInv, FirstOfChunk PROVE IInv'
  OBVIOUS
<1>0. TypeOK /\ RunsTile /\ CodesAgree /\ Encoded /\ ZonesSoFar
  BY DEF IInv
<1>1. /\ phase = "zones" /\ phase' = "minmax" /\ ChunkStart < num_rows
      /\ mn' = GetValue(ChunkStart) /\ mx' = GetValue(ChunkStart) /\ r' = ChunkStart + 1
      /\ UNCHANGED <<column, i, rle, strings, encoding, zones, chunk_idx, decode>>
  BY DEF FirstOfChunk
<1>2. ChunkStart \in Row
  BY <1>0, <1>1, ZoneFacts DEF Row
<1>3. GetValue(ChunkStart) = raw[ChunkStart] /\ GetValue(ChunkStart) \in Value
  BY <1>0, <1>2, ReadExact, ReadType
<1>4. TypeOK'
  <2>1. r' \in Nat
    BY <1>0, <1>1, ZoneFacts
  <2> QED BY <1>0, <1>1, <1>3, <2>1 DEF TypeOK, column, rle, strings, decode, Row, Phase
<1>5. ZonesSoFar'
  <2>1. ChunkStart < r' /\ r' <= ChunkEnd /\ r' \in Nat
    BY <1>0, <1>1, ZoneFacts
  <2>2. ChunkRows(chunk_idx, r') = {ChunkStart}
    BY <1>0, <1>1, <2>1, SeenRows, ZoneFacts
  <2>3. IsZone([min_val |-> mn', max_val |-> mx'], raw, chunk_idx, r')
    <3>1. CASE raw[ChunkStart] = NaN
      BY <1>1, <1>3, <3>1 DEF IsZone, ChunkStart
    <3>2. CASE raw[ChunkStart] # NaN
      <4>1. raw[ChunkStart] \in Int
        BY <1>3, <3>2, NumAssumption DEF Value
      <4> QED BY <1>1, <1>3, <2>2, <3>2, <4>1 DEF IsZone, ChunkStart
    <3> QED BY <3>1, <3>2
  <2> QED BY <1>0, <1>1, <2>1, <2>3 DEF ZonesSoFar, ChunkStart, ChunkEnd, column
<1>6. RunsTile' /\ CodesAgree'
  BY <1>0, <1>1, RunsSame, CodesSame
<1>7. Encoded' /\ DecodeSoFar'
  BY <1>0, <1>1 DEF Encoded, DecodeSoFar, column
<1> QED BY <1>4, <1>5, <1>6, <1>7 DEF IInv

(* A strict comparison keeps a least element, and a greatest one, over NaN *)
(* and anything else that is added.                                        *)
LEMMA LeastKept ==
  ASSUME NEW S, S \subseteq Int, NEW m \in S, \A w \in S : m <= w,
         NEW v, v = NaN \/ v \in Int
  PROVE  LET least == IF Less(v, m) THEN v ELSE m
             all   == S \cup ({v} \ {NaN})
         IN  least \in all /\ \A w \in all : least <= w
PROOF
<1>1. CASE v = NaN
  BY <1>1 DEF Less
<1>2. CASE v \in Int /\ v # NaN
  <2>1. CASE v < m
    BY <1>2, <2>1, NaNAssumption DEF Less
  <2>2. CASE ~ (v < m)
    BY <1>2, <2>2, NaNAssumption DEF Less
  <2> QED BY <2>1, <2>2
<1> QED BY <1>1, <1>2, NaNAssumption

LEMMA GreatestKept ==
  ASSUME NEW S, S \subseteq Int, NEW m \in S, \A w \in S : w <= m,
         NEW v, v = NaN \/ v \in Int
  PROVE  LET greatest == IF Less(m, v) THEN v ELSE m
             all      == S \cup ({v} \ {NaN})
         IN  greatest \in all /\ \A w \in all : w <= greatest
PROOF
<1>1. CASE v = NaN
  BY <1>1 DEF Less
<1>2. CASE v \in Int /\ v # NaN
  <2>1. CASE m < v
    BY <1>2, <2>1, NaNAssumption DEF Less
  <2>2. CASE ~ (m < v)
    BY <1>2, <2>2, NaNAssumption DEF Less
  <2> QED BY <2>1, <2>2
<1> QED BY <1>1, <1>2, NaNAssumption

LEMMA NextStep == IInv /\ NextOfChunk => IInv'
PROOF
<1> SUFFICES ASSUME IInv, NextOfChunk PROVE IInv'
  OBVIOUS
<1> DEFINE old == ChunkRows(chunk_idx, r)
           v   == raw[r]
<1>0. TypeOK /\ RunsTile /\ CodesAgree /\ Encoded /\ ZonesSoFar
  BY DEF IInv
<1>1. /\ phase = "minmax" /\ phase' = "minmax" /\ r < ChunkEnd
      /\ mn' = IF Less(GetValue(r), mn) THEN GetValue(r) ELSE mn
      /\ mx' = IF Less(mx, GetValue(r)) THEN GetValue(r) ELSE mx
      /\ r' = r + 1
      /\ UNCHANGED <<column, phase, i, rle, strings, encoding, zones, chunk_idx, decode>>
  BY DEF NextOfChunk
<1>2. r \in Row /\ r \in Nat
  BY <1>0, <1>1, ZoneFacts DEF Row
<1>3. GetValue(r) = v /\ v \in Value
  BY <1>0, <1>2, ReadExact, ReadType
<1>4. TypeOK'
  <2>1. mn' \in Value /\ mx' \in Value
    BY <1>0, <1>1, <1>3 DEF TypeOK
  <2> QED BY <1>0, <1>1, <1>2, <2>1 DEF TypeOK, column, rle, strings, decode, Row, Phase
<1>5. ChunkStart < r /\ IsZone([min_val |-> mn, max_val |-> mx], raw, chunk_idx, r)
  BY <1>0, <1>1 DEF ZonesSoFar
<1>6. ZonesSoFar'
  <2>1. ChunkStart < r' /\ r' <= ChunkEnd /\ r' \in Nat
    BY <1>0, <1>1, <1>2, <1>5, ZoneFacts
  <2>2. ChunkRows(chunk_idx, r') = old \cup {r}
    <3>1. old = ChunkStart .. r - 1
      BY <1>0, <1>1, <1>2, <1>5, SeenRows, ZoneFacts
    <3>2. ChunkRows(chunk_idx, r') = ChunkStart .. r' - 1
      BY <1>0, <2>1, SeenRows
    <3> QED BY <1>0, <1>1, <1>2, <1>5, <3>1, <3>2, ZoneFacts
  <2>3. IsZone([min_val |-> mn', max_val |-> mx'], raw, chunk_idx, r')
    <3> DEFINE S == {raw[x] : x \in old} \ {NaN}
               T == {raw[x] : x \in ChunkRows(chunk_idx, r')} \ {NaN}
    <3>1. T = S \cup ({v} \ {NaN})
      BY <2>2
    <3>2. CASE raw[chunk_idx * ChunkSize] = NaN
      <4>1. mn = NaN /\ mx = NaN
        BY <1>5, <3>2 DEF IsZone
      <4> QED BY <1>1, <3>2, <4>1 DEF IsZone, Less
    <3>3. CASE raw[chunk_idx * ChunkSize] # NaN
      <4>1. mn \in S /\ (\A w \in S : mn <= w) /\ mx \in S /\ (\A w \in S : w <= mx)
        BY <1>5, <3>3 DEF IsZone
      <4>2. S \subseteq Int
        <5>1. \A x \in old : x \in Row
          BY <1>0, <1>2 DEF ChunkRows, Row, TypeOK
        <5>2. \A x \in Row : raw[x] \in Value
          BY <1>0 DEF TypeOK, Domain, Value
        <5> QED BY <5>1, <5>2, NumAssumption DEF Value
      <4>3. v = NaN \/ v \in Int
        BY <1>3, NumAssumption DEF Value
      <4>4. /\ mn' = IF Less(v, mn) THEN v ELSE mn
            /\ mx' = IF Less(mx, v) THEN v ELSE mx
        BY <1>1, <1>3
      <4> HIDE DEF S, T, v
      <4>5. mn' \in T /\ (\A w \in T : mn' <= w)
        BY <3>1, <4>1, <4>2, <4>3, <4>4, LeastKept
      <4>6. mx' \in T /\ (\A w \in T : w <= mx')
        BY <3>1, <4>1, <4>2, <4>3, <4>4, GreatestKept
      <4> USE DEF S, T, v
      <4> QED BY <3>3, <4>5, <4>6 DEF IsZone
    <3> QED BY <3>2, <3>3
  <2> QED BY <1>0, <1>1, <2>1, <2>3 DEF ZonesSoFar, ChunkStart, ChunkEnd, column
<1>7. RunsTile' /\ CodesAgree'
  BY <1>0, <1>1, RunsSame, CodesSame
<1>8. Encoded' /\ DecodeSoFar'
  BY <1>0, <1>1 DEF Encoded, DecodeSoFar, column
<1> QED BY <1>4, <1>6, <1>7, <1>8 DEF IInv

LEMMA EndStep == IInv /\ EndOfChunk => IInv'
PROOF
<1> SUFFICES ASSUME IInv, EndOfChunk PROVE IInv'
  OBVIOUS
<1> DEFINE entry == [min_val |-> mn, max_val |-> mx]
<1>0. TypeOK /\ RunsTile /\ CodesAgree /\ Encoded /\ ZonesSoFar
  BY DEF IInv
<1>1. /\ phase = "minmax" /\ phase' = "zones" /\ r >= ChunkEnd
      /\ zones' = [k \in 0 .. chunk_idx |-> IF k = chunk_idx THEN entry ELSE zones[k]]
      /\ chunk_idx' = chunk_idx + 1
      /\ UNCHANGED <<column, i, rle, strings, encoding, r, mn, mx, decode>>
  BY DEF EndOfChunk
<1>2. ChunkStart < r /\ r = ChunkEnd /\ IsZone(entry, raw, chunk_idx, r)
  <2>1. ChunkStart < r /\ r <= ChunkEnd /\ IsZone(entry, raw, chunk_idx, r)
    BY <1>0, <1>1 DEF ZonesSoFar
  <2>2. ChunkEnd \in Nat /\ r \in Nat
    BY <1>0, ZoneFacts
  <2> QED BY <1>1, <2>1, <2>2
<1>3. ChunkStart < num_rows /\ IsZone(entry, raw, chunk_idx, num_rows)
  <2>1. ChunkRows(chunk_idx, num_rows) = ChunkRows(chunk_idx, r)
    BY <1>0, <1>2, ZoneFacts DEF ChunkRows
  <2>2. ChunkStart < num_rows
    BY <1>0, <1>2, ZoneFacts
  <2> QED BY <1>2, <2>1, <2>2 DEF IsZone
<1>4. chunk_idx \in Nat /\ entry \in Zone
  BY <1>0 DEF TypeOK, Zone
<1>5. TypeOK'
  <2>1. zones' \in [0 .. chunk_idx' - 1 -> Zone]
    <3>1. 0 .. chunk_idx' - 1 = 0 .. chunk_idx
      BY <1>1, <1>4
    <3>2. \A k \in 0 .. chunk_idx : k # chunk_idx => zones[k] \in Zone
      <4>1. zones \in [0 .. chunk_idx - 1 -> Zone]
        BY <1>0 DEF TypeOK
      <4> QED BY <1>4, <4>1
    <3> QED BY <1>1, <1>4, <3>1, <3>2
  <2> QED BY <1>0, <1>1, <1>4, <2>1 DEF TypeOK, column, rle, strings, decode, Row, Phase
<1>6. ZonesSoFar'
  <2> SUFFICES ASSUME NEW k \in 0 .. chunk_idx' - 1
               PROVE  k * ChunkSize < num_rows /\ IsZone(zones'[k], raw, k, num_rows)
    BY <1>1 DEF ZonesSoFar, column
  <2>1. k \in 0 .. chunk_idx
    BY <1>1, <1>4
  <2>2. CASE k = chunk_idx
    BY <1>1, <1>3, <2>1, <2>2 DEF ChunkStart
  <2>3. CASE k # chunk_idx
    BY <1>0, <1>1, <1>4, <2>1, <2>3 DEF ZonesSoFar
  <2> QED BY <2>2, <2>3
<1>7. RunsTile' /\ CodesAgree'
  BY <1>0, <1>1, RunsSame, CodesSame
<1>8. Encoded' /\ DecodeSoFar'
  BY <1>0, <1>1 DEF Encoded, DecodeSoFar, column
<1> QED BY <1>5, <1>6, <1>7, <1>8 DEF IInv

LEMMA ReadyStep == IInv /\ ZonesDone => IInv'
PROOF
<1> SUFFICES ASSUME IInv, ZonesDone PROVE IInv'
  OBVIOUS
<1>0. TypeOK /\ RunsTile /\ CodesAgree /\ Encoded /\ ZonesSoFar
  BY DEF IInv
<1>1. /\ phase = "zones" /\ phase' = "ready" /\ ChunkStart >= num_rows
      /\ UNCHANGED <<column, i, rle, strings, encoding, chunk, decode>>
  BY DEF ZonesDone
<1>2. TypeOK'
  BY <1>0, <1>1 DEF TypeOK, column, rle, strings, chunk, decode, Row, Phase
<1>3. RunsTile' /\ CodesAgree'
  BY <1>0, <1>1, RunsSame, CodesSame
<1>4. ZonesSoFar'
  BY <1>0, <1>1 DEF ZonesSoFar, column, chunk, ChunkStart
<1>5. Encoded' /\ DecodeSoFar'
  BY <1>0, <1>1 DEF Encoded, DecodeSoFar, column
<1> QED BY <1>2, <1>3, <1>4, <1>5 DEF IInv

-----------------------------------------------------------------------------
(* Decoding.                                                               *)

(* Where a run ends, and which run comes next.                             *)
LEMMA RunEndFacts ==
  ASSUME TypeOK, RunsTile, NEW j \in DOMAIN runs
  PROVE  /\ RunEnd(j) = run_starts[j] + runs[j].length
         /\ RunEnd(j) < i => j + 1 \in DOMAIN runs /\ InRun(RunEnd(j), j + 1)
         /\ RunEnd(j) \in Nat /\ RunEnd(j) <= i
PROOF
<1>1. /\ Len(runs) \in Nat /\ DOMAIN runs = 1 .. Len(runs) /\ DOMAIN run_starts = DOMAIN runs
      /\ j \in Nat /\ run_starts[j] \in Nat /\ runs[j].length \in Nat /\ i \in Nat
  BY RunFacts, LenAssumption, SMTT(30) DEF TypeOK
<1>2. CASE j = Len(runs)
  <2>1. j + 1 \notin DOMAIN run_starts /\ run_starts[j] + runs[j].length = i
    BY <1>1, <1>2 DEF RunsTile
  <2> QED BY <1>1, <2>1 DEF RunEnd
<1>3. CASE j # Len(runs)
  <2>1. j + 1 \in DOMAIN run_starts /\ j + 1 \in DOMAIN runs /\ Len(runs) \in DOMAIN runs
    BY <1>1, <1>3
  <2>2. run_starts[j + 1] = run_starts[j] + runs[j].length
    BY <1>1, <1>3 DEF RunsTile
  <2>3. run_starts[j + 1] \in Nat /\ runs[j + 1].length \in Nat /\ runs[j + 1].length > 0
    BY <2>1, RunFacts
  <2>4. run_starts[j] + runs[j].length <= run_starts[Len(runs)]
    BY <1>1, <1>3, <2>1 DEF RunsTile
  <2>5. run_starts[Len(runs)] + runs[Len(runs)].length = i
    BY <2>1 DEF RunsTile
  <2>6. run_starts[Len(runs)] \in Nat /\ runs[Len(runs)].length \in Nat
    BY <2>1, RunFacts
  <2> QED BY <1>1, <2>1, <2>2, <2>3, <2>4, <2>5, <2>6 DEF RunEnd, InRun
<1> QED BY <1>2, <1>3

LEMMA StartStep == IInv /\ DecodeStart => IInv'
PROOF
<1> SUFFICES ASSUME IInv, DecodeStart PROVE IInv'
  OBVIOUS
<1>0. TypeOK /\ RunsTile /\ CodesAgree /\ Encoded /\ ZonesSoFar
  BY DEF IInv
<1>1. /\ phase = "ready" /\ encoding = "rle" /\ phase' = "decode"
      /\ UNCHANGED <<column, i, rle, strings, encoding, chunk>>
      /\ result' = [x \in {} |-> 0]
  BY DEF DecodeStart
<1>2. PICK s \in Row : \E e \in s + 1 .. num_rows :
        start_row' = s /\ end_row' = e /\ row' = s /\ run_idx' = RunOf(s)
  BY DEF DecodeStart
<1>3. PICK e \in s + 1 .. num_rows :
        start_row' = s /\ end_row' = e /\ row' = s /\ run_idx' = RunOf(s)
  BY <1>2
<1>4. s \in Nat /\ e \in Nat /\ s < e /\ e <= num_rows /\ num_rows \in Nat
  BY <1>0, LenAssumption DEF Row, TypeOK
<1>5. type = "INT" /\ i = num_rows
  BY <1>0, <1>1 DEF Encoded
<1>6. PICK j \in DOMAIN runs : InRun(s, j)
  BY <1>0, <1>5 DEF RunsTile, Row
<1>7. RunOf(s) = j /\ j \in Nat
  BY <1>0, <1>4, <1>6, RunFound, RunFacts
<1>8. TypeOK'
  BY <1>0, <1>1, <1>3, <1>4, <1>7 DEF TypeOK, column, rle, strings, chunk, Row, Phase
<1>9. DecodeSoFar'
  <2>1. start_row' .. row' - 1 = {}
    BY <1>3, <1>4
  <2> QED BY <1>1, <1>3, <1>4, <1>6, <1>7, <2>1 DEF DecodeSoFar, column, rle, InRun
<1>10. RunsTile' /\ CodesAgree'
  BY <1>0, <1>1, RunsSame, CodesSame
<1>11. ZonesSoFar' /\ Encoded'
  BY <1>0, <1>1 DEF ZonesSoFar, Encoded, column, chunk, ChunkStart
<1> QED BY <1>8, <1>9, <1>10, <1>11 DEF IInv

LEMMA CopyStep == IInv /\ DecodeRun => IInv'
PROOF
<1> SUFFICES ASSUME IInv, DecodeRun PROVE IInv'
  OBVIOUS
<1> DEFINE fill_end == Smaller(RunEnd(run_idx), end_row)
<1>0. TypeOK /\ RunsTile /\ CodesAgree /\ Encoded /\ ZonesSoFar /\ DecodeSoFar
  BY DEF IInv
<1>1. /\ phase = "decode" /\ row < end_row
      /\ result' = [x \in start_row .. fill_end - 1 |->
                      IF x < row THEN result[x] ELSE runs[run_idx].value]
      /\ row' = fill_end /\ run_idx' = run_idx + 1
      /\ UNCHANGED <<column, phase, i, rle, strings, encoding, chunk, start_row, end_row>>
  BY DEF DecodeRun
<1>2. /\ encoding = "rle" /\ start_row <= row /\ end_row <= num_rows
      /\ \A x \in start_row .. row - 1 : result[x] = raw[x]
      /\ run_idx \in DOMAIN runs /\ InRun(row, run_idx)
  BY <1>0, <1>1 DEF DecodeSoFar
<1>3. /\ start_row \in Nat /\ end_row \in Nat /\ row \in Nat /\ run_idx \in Nat /\ i \in Nat
      /\ i = num_rows
  BY <1>0, <1>2, LenAssumption DEF TypeOK, Encoded
<1>4. /\ RunEnd(run_idx) = run_starts[run_idx] + runs[run_idx].length
      /\ RunEnd(run_idx) < i => run_idx + 1 \in DOMAIN runs /\ InRun(RunEnd(run_idx), run_idx + 1)
      /\ RunEnd(run_idx) \in Nat
  BY <1>0, <1>2, RunEndFacts
<1>5. fill_end \in Nat /\ row < fill_end /\ fill_end <= end_row /\ fill_end <= RunEnd(run_idx)
  BY <1>1, <1>2, <1>3, <1>4 DEF Smaller, InRun
<1>6. TypeOK'
  BY <1>0, <1>1, <1>3, <1>5 DEF TypeOK, column, rle, strings, chunk, Row, Phase
<1>7. DecodeSoFar'
  <2>1. \A x \in start_row .. fill_end - 1 : result'[x] = raw[x]
    <3> SUFFICES ASSUME NEW x \in start_row .. fill_end - 1 PROVE result'[x] = raw[x]
      OBVIOUS
    <3>1. CASE x < row
      BY <1>1, <1>2, <1>3, <1>5, <3>1
    <3>2. CASE x >= row
      <4>1. run_starts[run_idx] \in Nat
        BY <1>0, <1>2, RunFacts
      <4>2. InRun(x, run_idx) /\ x \in 0 .. i - 1
        BY <1>2, <1>3, <1>4, <1>5, <3>2, <4>1 DEF InRun
      <4>3. raw[x] = runs[run_idx].value
        BY <1>0, <1>2, <4>2 DEF RunsTile
      <4>4. ~ (x < row)
        BY <1>3, <1>5, <3>2
      <4> QED BY <1>1, <4>3, <4>4
    <3> QED BY <1>3, <1>5, <3>1, <3>2
  <2>2. fill_end < end_row => run_idx + 1 \in DOMAIN runs /\ InRun(fill_end, run_idx + 1)
    <3> SUFFICES ASSUME fill_end < end_row
                 PROVE  run_idx + 1 \in DOMAIN runs /\ InRun(fill_end, run_idx + 1)
      OBVIOUS
    <3>1. fill_end = RunEnd(run_idx) /\ RunEnd(run_idx) < i
      BY <1>2, <1>3, <1>4, <1>5 DEF Smaller
    <3> QED BY <1>4, <3>1
  <2>3. row' < end_row' => run_idx' \in DOMAIN runs' /\ InRun(row, run_idx)'
    BY <1>1, <2>2 DEF InRun, rle
  <2>4. /\ encoding' = "rle" /\ start_row' <= row' /\ row' <= end_row' /\ end_row' <= num_rows'
        /\ DOMAIN result' = start_row' .. row' - 1
        /\ \A x \in start_row' .. row' - 1 : result'[x] = raw'[x]
    BY <1>1, <1>2, <1>3, <1>5, <2>1 DEF column
  <2> QED BY <2>3, <2>4 DEF DecodeSoFar
<1>8. RunsTile' /\ CodesAgree'
  BY <1>0, <1>1, RunsSame, CodesSame
<1>9. ZonesSoFar' /\ Encoded'
  BY <1>0, <1>1 DEF ZonesSoFar, Encoded, column, chunk, ChunkStart
<1> QED BY <1>6, <1>7, <1>8, <1>9 DEF IInv

LEMMA DoneStep == IInv /\ DecodeEnd => IInv'
PROOF
<1> SUFFICES ASSUME IInv, DecodeEnd PROVE IInv'
  OBVIOUS
<1>0. TypeOK /\ RunsTile /\ CodesAgree /\ Encoded /\ ZonesSoFar
  BY DEF IInv
<1>1. /\ phase = "decode" /\ phase' = "ready"
      /\ UNCHANGED <<column, i, rle, strings, encoding, chunk, decode>>
  BY DEF DecodeEnd
<1>2. TypeOK'
  BY <1>0, <1>1 DEF TypeOK, column, rle, strings, chunk, decode, Row, Phase
<1>3. RunsTile' /\ CodesAgree'
  BY <1>0, <1>1, RunsSame, CodesSame
<1>4. ZonesSoFar' /\ Encoded' /\ DecodeSoFar'
  BY <1>0, <1>1 DEF ZonesSoFar, Encoded, DecodeSoFar, column, chunk, ChunkStart
<1> QED BY <1>2, <1>3, <1>4 DEF IInv

LEMMA StutterStep == IInv /\ UNCHANGED vars => IInv'
PROOF
<1> SUFFICES ASSUME IInv, UNCHANGED vars PROVE IInv'
  OBVIOUS
<1>1. UNCHANGED <<column, phase, i, rle, strings, encoding, chunk, decode>>
  BY DEF vars
<1>2. TypeOK'
  BY <1>1 DEF IInv, TypeOK, column, rle, strings, chunk, decode, Row, Phase
<1>3. RunsTile' /\ CodesAgree'
  BY <1>1, RunsSame, CodesSame DEF IInv
<1>4. ZonesSoFar' /\ Encoded'
  BY <1>1 DEF IInv, ZonesSoFar, Encoded, column, chunk, ChunkStart, ChunkEnd
<1>5. DecodeSoFar'
  BY <1>1 DEF IInv, DecodeSoFar, InRun, column, rle, decode
<1> QED BY <1>2, <1>3, <1>4, <1>5 DEF IInv

-----------------------------------------------------------------------------
(* The inductive invariant holds in every behaviour of ColumnStore.        *)
THEOREM Invariance == Spec => []IInv
PROOF
<1>1. IInv /\ [Next]_vars => IInv'
  BY ExtendStep, OpenStep, ChooseStep, ReuseStep, NewStep, FirstStep, NextStep, EndStep,
     ReadyStep, StartStep, CopyStep, DoneStep, StutterStep DEF Next, Idle
<1> QED BY InitInv, <1>1, PTL DEF Spec

(* Every variable keeps its type.                                          *)
THEOREM TypeCorrect == Spec => []TypeOK
PROOF
<1>1. IInv => TypeOK
  BY DEF IInv
<1> QED BY Invariance, <1>1, PTL

(* Encoding loses nothing: every row reads back as its original value,     *)
(* whichever representation RLEColumn, DictionaryEncoder or neither gives. *)
THEOREM ReadsBackTheorem == Spec => []ReadsBack
PROOF
<1>1. IInv => ReadsBack
  BY ReadExact DEF IInv, ReadsBack
<1> QED BY Invariance, <1>1, PTL

(* The zone map of CSVToColumnar::convert is the one VecPipeline's scan    *)
(* assumes, for every column and chunk size.                               *)
THEOREM ZonesExactTheorem == Spec => []ZonesExact
PROOF
<1>1. IInv => ZonesExact
  <2> SUFFICES ASSUME IInv PROVE ZonesExact
    OBVIOUS
  <2>1. TypeOK /\ ZonesSoFar
    BY DEF IInv
  <2>2. DOMAIN zones = 0 .. chunk_idx - 1
    BY <2>1 DEF TypeOK
  <2>3. phase \in {"ready", "decode"} => DOMAIN zones = ChunkIds(num_rows)
    <3> SUFFICES ASSUME phase \in {"ready", "decode"}
                 PROVE  0 .. chunk_idx - 1 = ChunkIds(num_rows)
      BY <2>2
    <3>1. chunk_idx * ChunkSize >= num_rows
      BY <2>1 DEF ZonesSoFar, ChunkStart
    <3>2. ChunkSize \in Nat /\ ChunkSize > 0 /\ chunk_idx \in Nat /\ num_rows \in Nat
      BY <2>1, ZoneFacts
    <3>3. \A k \in Nat : k >= chunk_idx => k * ChunkSize >= chunk_idx * ChunkSize
      BY <3>2
    <3>4. \A k \in Nat : k <= k * ChunkSize /\ k * ChunkSize \in Nat
      BY <3>2
    <3>5. \A k \in Nat : k * ChunkSize < num_rows => k < chunk_idx
      BY <3>1, <3>2, <3>3, <3>4
    <3>6. \A k \in 0 .. chunk_idx - 1 : k * ChunkSize < num_rows
      BY <2>1 DEF ZonesSoFar
    <3>7. \A k \in Nat : k * ChunkSize < num_rows => k \in 0 .. num_rows
      BY <3>2, <3>4
    <3>8. \A k : k \in 0 .. chunk_idx - 1 <=> k \in Nat /\ k * ChunkSize < num_rows
      <4>1. \A k : k \in 0 .. chunk_idx - 1 <=> k \in Nat /\ k < chunk_idx
        BY <3>2
      <4> QED BY <3>5, <3>6, <4>1, Zenon
    <3>9. \A k : k \in ChunkIds(num_rows) <=> k \in Nat /\ k * ChunkSize < num_rows
      BY <3>2, <3>7 DEF ChunkIds
    <3> QED BY <3>8, <3>9
  <2> QED BY <2>1, <2>2, <2>3 DEF ZonesExact, ZonesSoFar
<1> QED BY Invariance, <1>1, PTL

(* RLEColumn::decodeRange copies exactly the rows asked for and never      *)
(* looks past the last run.                                                *)
THEOREM DecodeExactTheorem == Spec => []DecodeExact
PROOF
<1>1. IInv => DecodeExact
  BY DEF IInv, DecodeExact, DecodeSoFar
<1> QED BY Invariance, <1>1, PTL

-----------------------------------------------------------------------------
(* Session: the inductive invariant.                                       *)

Outputs == [kind : {"rows", "hit", "analyze", "plan", "sizes"}, answer : Answers]

(* --storage-stats ends the process after the first conversion.            *)
StopsAtSizes == args.columnar /\ args.storage_stats

TypeInv ==
    /\ files \in [Table -> Content \cup {Missing}]
    /\ rewritten \subseteq Table
    /\ queries \in Seq(Query) /\ args \in Args
    /\ current \in 1 .. Len(queries)
    /\ pc \in {"parse", "load_from", "load_join", "convert", "plan", "explain", "hit",
               "execute", "exited"}
    /\ table_rows \in [Table -> Content \cup {None}]
    /\ result_cache \in [Query -> Answers \cup {None}]
    /\ printed \in Seq(Outputs)
    /\ exit \in {None, 0, 1}

(* What is in hand of a table is what its file holds, or held before it    *)
(* was changed; from the conversion on every table of the query is there.  *)
Loaded ==
    /\ \A t \in Table : table_rows[t] # None /\ t \notin rewritten => table_rows[t] = files[t]
    /\ pc = "load_join" => table_rows[TablesOf[text][1]] # None
    /\ pc = "load_join" => Len(TablesOf[text]) = 2
    /\ pc \in {"convert", "plan", "explain", "hit", "execute"} =>
          \A t \in Tables(text) : table_rows[t] # None

(* One output per query that is behind, in order.                          *)
Position ==
    /\ pc # "exited" => exit = None /\ Len(printed) = current - 1
    /\ pc = "exited" => exit \in {0, 1}
    /\ exit = 1 => Len(printed) = current - 1
    /\ exit = 0 => Len(printed) = current /\ (current = Len(queries) \/ StopsAtSizes)
    /\ StopsAtSizes =>
          current = 1 /\ pc \in {"parse", "load_from", "load_join", "convert", "exited"}

Named == \A n \in 1 .. Len(printed) : printed[n].answer.query = queries[n]

(* A cache entry was executed for its own text, and an execution that may  *)
(* be stored is in the cache.                                              *)
Cached ==
    /\ \A q \in Query : result_cache[q] # None =>
          /\ CacheOn
          /\ \E n \in 1 .. Len(printed) :
                queries[n] = q /\ printed[n] = [kind |-> "rows", answer |-> result_cache[q]]
    /\ \A n \in 1 .. Len(printed) : printed[n].kind = "rows" =>
          /\ ~ args.explain /\ ~ args.explain_analyze
          /\ ~ args.no_cache => result_cache[queries[n]] = printed[n].answer

(* Where the program turns after planning.                                 *)
Turned ==
    /\ pc = "explain" => args.explain
    /\ pc = "hit" => CacheOn /\ result_cache[text] # None /\ ~ args.explain
    /\ pc = "execute" => ~ args.explain /\ (CacheOn => result_cache[text] = None)

SessionInv == TypeInv /\ Loaded /\ Position /\ Named /\ Cached /\ Turned /\ Fresh /\ ExecutedOnce
-----------------------------------------------------------------------------
(* The state now.                                                          *)

USE DEF environment, command

LEMMA SessionInitInv == SessionInit => SessionInv
<1> SUFFICES ASSUME SessionInit PROVE SessionInv
  OBVIOUS
<1> USE DEF SessionInit
<1>1. PICK n \in 1 .. MaxQueries : queries \in [1 .. n -> Query]
  OBVIOUS
<1>2. queries \in Seq(Query) /\ Len(queries) = n /\ n \in Nat /\ n >= 1
  BY <1>1, BoundAssumption
<1>3. TypeInv
  BY <1>2 DEF TypeInv
<1>4. Loaded /\ Position /\ Named /\ Cached /\ Turned
  BY <1>2, NoneAssumption DEF Loaded, Position, Named, Cached, Turned
<1>5. Fresh /\ ExecutedOnce
  BY DEF Fresh, ExecutedOnce
<1> QED
  BY <1>3, <1>4, <1>5 DEF SessionInv

(* The query in hand and its tables.                                       *)
LEMMA TextType ==
    ASSUME TypeInv
    PROVE  /\ text \in Query
           /\ TablesOf[text] \in Seq(Table) /\ Len(TablesOf[text]) \in {1, 2}
           /\ Tables(text) \subseteq Table
           /\ \A n \in 1 .. Len(TablesOf[text]) : TablesOf[text][n] \in Tables(text)
<1>1. text \in Query
  BY DEF TypeInv, text
<1> QED
  BY <1>1, TablesAssumption DEF Tables

(* The query in hand does not change before the next one.                  *)
LEMMA SameText ==
    ASSUME UNCHANGED <<command, current>>
    PROVE  text' = text /\ CacheOn' = CacheOn /\ StopsAtSizes' = StopsAtSizes
BY DEF text, CacheOn, StopsAtSizes

LEMMA AnswerType ==
    ASSUME TypeInv, Loaded, pc \in {"convert", "plan", "explain", "hit", "execute"}
    PROVE  Answer(text, table_rows) \in Answers /\ Answer(text, table_rows).query = text
<1> DEFINE k == Len(TablesOf[text])
           f == [n \in 1 .. k |-> table_rows[TablesOf[text][n]]]
<1>1. k \in {1, 2}
  BY TextType
<1>2. \A n \in 1 .. k : table_rows[TablesOf[text][n]] \in Content
  BY TextType DEF TypeInv, Loaded
<1>3. f \in [1 .. k -> Content]
  BY <1>2
<1>4. f \in UNION {[1 .. n -> Content] : n \in {1, 2}}
  BY <1>1, <1>3
<1> QED
  BY <1>4, TextType DEF Answer, Answers

(* As long as nobody has changed a table of the query, what is in hand is  *)
(* what the files hold.                                                    *)
LEMMA AnswerFresh ==
    ASSUME TypeInv, Loaded, pc \in {"convert", "plan", "explain", "hit", "execute"},
           Tables(text) \cap rewritten = {}
    PROVE  Answer(text, table_rows) = Answer(text, files)
<1>1. \A n \in 1 .. Len(TablesOf[text]) : table_rows[TablesOf[text][n]] = files[TablesOf[text][n]]
  BY TextType DEF TypeInv, Loaded
<1> QED
  BY <1>1 DEF Answer

-----------------------------------------------------------------------------
(* Steps that put nothing out.                                             *)

LEMMA QuietStep ==
    ASSUME SessionInv, UNCHANGED <<command, result_cache, printed>>
    PROVE  Named' /\ Cached' /\ ExecutedOnce' /\ (UNCHANGED <<files, rewritten>> => Fresh')
BY DEF SessionInv, Named, Cached, ExecutedOnce, Fresh, CacheOn, Rows, Answer, Tables

(* Somebody changes a file: the answers over the other tables are as they  *)
(* were.                                                                   *)
LEMMA RewriteStep == SessionInv /\ Rewrite => SessionInv'
<1> SUFFICES ASSUME SessionInv, Rewrite PROVE SessionInv'
  OBVIOUS
<1> USE DEF SessionInv
<1>1. PICK t \in Table, c \in Content \cup {Missing} :
          files' = [files EXCEPT ![t] = c] /\ rewritten' = rewritten \cup {t}
  BY DEF Rewrite
<1>2. UNCHANGED <<command, current, pc, table_rows, result_cache, printed, exit>>
  BY DEF Rewrite
<1>3. TypeInv'
  BY <1>1, <1>2 DEF TypeInv
<1>4. Loaded'
  BY <1>1, <1>2, SameText DEF TypeInv, Loaded, Tables
<1>5. Position' /\ Turned'
  BY <1>2, SameText DEF Position, Turned
<1>6. Fresh'
  <2> SUFFICES ASSUME NEW n \in 1 .. Len(printed), Rows(n), Tables(queries[n]) \cap rewritten' = {}
               PROVE  printed[n].answer = Answer(queries[n], files')
    BY <1>2 DEF Fresh, Rows, Tables
  <2>1. printed[n].answer = Answer(queries[n], files) /\ t \notin Tables(queries[n])
    BY <1>1 DEF Fresh
  <2>2. \A m \in 1 .. Len(TablesOf[queries[n]]) :
            files'[TablesOf[queries[n]][m]] = files[TablesOf[queries[n]][m]]
    BY <1>1, <2>1 DEF Tables, TypeInv
  <2> QED
    BY <2>1, <2>2 DEF Answer
<1> QED
  BY <1>2, <1>3, <1>4, <1>5, <1>6, QuietStep

(* Parsing, loading, converting, planning and their errors.                *)
Quiet == \/ Parse \/ ParseError \/ LoadFrom \/ LoadJoin \/ LoadError
         \/ Convert \/ Plan \/ PlanError \/ Refuse \/ ExecuteError

LEMMA QuietChanges ==
    Quiet => /\ UNCHANGED <<environment, command, current, result_cache, printed>>
             /\ pc # "exited"
BY DEF Quiet, Parse, ParseError, LoadFrom, LoadJoin, LoadError, Convert, Plan, PlanError,
       Refuse, ExecuteError

(* A table that is read holds what its file holds.                         *)
LEMMA LoadStep ==
    ASSUME TypeInv, Loaded, NEW t \in Table, Load(t), UNCHANGED environment
    PROVE  /\ table_rows' \in [Table -> Content \cup {None}]
           /\ table_rows'[t] # None
           /\ \A u \in Table : table_rows[u] # None => table_rows'[u] # None
           /\ \A u \in Table : table_rows'[u] # None /\ u \notin rewritten' => table_rows'[u] = files'[u]
<1>1. files[t] \in Content /\ table_rows' = [table_rows EXCEPT ![t] = files[t]]
  BY DEF TypeInv, Load
<1> QED
  BY <1>1, ContentAssumption DEF TypeInv, Loaded

LEMMA QuietInv == SessionInv /\ Quiet => SessionInv'
<1> SUFFICES ASSUME SessionInv, Quiet PROVE SessionInv'
  OBVIOUS
<1> USE DEF SessionInv
<1>1. /\ UNCHANGED <<environment, command, current, result_cache, printed>>
      /\ pc # "exited"
  BY QuietChanges
<1>2. Named' /\ Cached' /\ ExecutedOnce' /\ Fresh'
  BY <1>1, QuietStep
<1>3. text' = text /\ CacheOn' = CacheOn /\ StopsAtSizes' = StopsAtSizes
  BY <1>1, SameText
<1>4. ASSUME TypeInv', Loaded', Position', Turned' PROVE SessionInv'
  BY <1>2, <1>4
<1>5. CASE Parse
  <2>1. TypeInv' /\ Position'
    BY <1>1, <1>3, <1>5 DEF TypeInv, Position, Parse
  <2>2. Loaded' /\ Turned'
    BY <1>1, <1>3, <1>5 DEF Loaded, Turned, Parse
  <2> QED
    BY <1>4, <2>1, <2>2
<1>6. CASE ParseError \/ LoadError \/ PlanError \/ Refuse \/ ExecuteError
  <2>1. pc' = "exited" /\ exit' = 1 /\ UNCHANGED table_rows
    BY <1>6 DEF ParseError, LoadError, PlanError, Refuse, ExecuteError, Raise
  <2>2. TypeInv' /\ Position'
    BY <1>1, <1>3, <2>1, NoneAssumption DEF TypeInv, Position
  <2>3. Loaded' /\ Turned'
    BY <1>1, <2>1 DEF Loaded, Turned
  <2> QED
    BY <1>4, <2>2, <2>3
<1>7. CASE LoadFrom
  <2> DEFINE t == TablesOf[text][1]
  <2>1. t \in Table /\ Load(t)
    BY <1>7, TextType DEF LoadFrom
  <2>2. /\ table_rows' \in [Table -> Content \cup {None}] /\ table_rows'[t] # None
        /\ \A u \in Table : table_rows'[u] # None /\ u \notin rewritten' => table_rows'[u] = files'[u]
    BY <1>1, <2>1, LoadStep
  <2>3. TypeInv' /\ Position'
    BY <1>1, <1>3, <1>7, <2>2 DEF TypeInv, Position, LoadFrom
  <2>4. Loaded'
    BY <1>3, <1>7, <2>2, TextType DEF Loaded, LoadFrom, Tables
  <2>5. Turned'
    BY <1>7 DEF Turned, LoadFrom
  <2> QED
    BY <1>4, <2>3, <2>4, <2>5
<1>8. CASE LoadJoin
  <2> DEFINE t == TablesOf[text][2]
  <2>1. Len(TablesOf[text]) = 2 /\ TablesOf[text][1] \in Table
    BY <1>8, TextType DEF LoadJoin, Loaded
  <2>2. t \in Table /\ Load(t)
    BY <1>8, <2>1, TextType DEF LoadJoin
  <2>3. /\ table_rows' \in [Table -> Content \cup {None}] /\ table_rows'[t] # None
        /\ \A u \in Table : table_rows[u] # None => table_rows'[u] # None
        /\ \A u \in Table : table_rows'[u] # None /\ u \notin rewritten' => table_rows'[u] = files'[u]
    BY <1>1, <2>2, LoadStep
  <2>4. TypeInv' /\ Position'
    BY <1>1, <1>3, <1>8, <2>3 DEF TypeInv, Position, LoadJoin
  <2>5. Loaded'
    BY <1>3, <1>8, <2>1, <2>3 DEF Loaded, LoadJoin, Tables
  <2>6. Turned'
    BY <1>8 DEF Turned, LoadJoin
  <2> QED
    BY <1>4, <2>4, <2>5, <2>6
<1>9. CASE Convert \/ Plan
  <2>1. UNCHANGED <<table_rows, exit>>
    BY <1>9 DEF Convert, Plan
  <2>2. TypeInv'
    BY <1>1, <1>9, <2>1 DEF TypeInv, Convert, Plan
  <2>3. Position'
    BY <1>1, <1>3, <1>9, <2>1 DEF Position, Convert, Plan, StopsAtSizes
  <2>4. Loaded'
    BY <1>1, <1>3, <1>9, <2>1 DEF Loaded, Convert, Plan
  <2>5. Turned'
    BY <1>1, <1>3, <1>9 DEF Turned, Convert, Plan
  <2> QED
    BY <1>4, <2>2, <2>3, <2>4, <2>5
<1> QED
  BY <1>5, <1>6, <1>7, <1>8, <1>9 DEF Quiet
-----------------------------------------------------------------------------
(* Steps that put something out.                                           *)

LEMMA AppendOutput ==
    ASSUME TypeInv, Position, pc # "exited", NEW o \in Outputs, printed' = Append(printed, o)
    PROVE  /\ printed' \in Seq(Outputs)
           /\ current \in Nat /\ Len(printed) = current - 1 /\ Len(printed') = current
           /\ 1 .. Len(printed') = 1 .. Len(printed) \cup {current}
           /\ current \notin 1 .. Len(printed)
           /\ \A n \in 1 .. Len(printed) : printed'[n] = printed[n]
           /\ printed'[current] = o
<1>1. /\ printed \in Seq(Outputs) /\ current \in Nat /\ current >= 1 /\ Len(printed) = current - 1
  BY DEF TypeInv, Position
<1> QED
  BY <1>1

(* An output of its own query that is fresh, and that is a hit just when   *)
(* the answer was stored before, keeps what is said about outputs.         *)
LEMMA OutputStep ==
    ASSUME SessionInv, pc # "exited", NEW o \in Outputs, printed' = Append(printed, o),
           UNCHANGED <<environment, command>>,
           o.answer.query = text,
           o.kind \in {"rows", "hit", "analyze"} /\ Tables(text) \cap rewritten = {}
              => o.answer = Answer(text, files),
           \A m \in 1 .. Len(printed) :
              queries[m] = text /\ printed[m].kind = "rows" /\ ~ args.no_cache
                 => o.kind = "hit" /\ o.answer = printed[m].answer,
           o.kind = "hit" => CacheOn /\ \E k \in 1 .. Len(printed) : printed[k] = [o EXCEPT !.kind = "rows"]
    PROVE  Named' /\ Fresh' /\ ExecutedOnce'
<1> USE DEF SessionInv
<1>1. /\ current \in Nat /\ Len(printed) = current - 1 /\ Len(printed') = current
      /\ 1 .. Len(printed') = 1 .. Len(printed) \cup {current}
      /\ current \notin 1 .. Len(printed)
      /\ \A n \in 1 .. Len(printed) : printed'[n] = printed[n]
      /\ printed'[current] = o
  BY AppendOutput
<1>2. Named'
  BY <1>1 DEF Named, text
<1>3. Fresh'
  <2> SUFFICES ASSUME NEW n \in 1 .. Len(printed'), Rows(n)', Tables(queries[n]) \cap rewritten = {}
               PROVE  printed'[n].answer = Answer(queries[n], files)
    BY DEF Fresh, Tables, Answer
  <2>1. CASE n = current
    BY <1>1, <2>1 DEF Rows, text
  <2>2. CASE n \in 1 .. Len(printed)
    BY <1>1, <2>2 DEF Rows, Fresh
  <2> QED
    BY <1>1, <2>1, <2>2
<1>4. ExecutedOnce'
  <2> SUFFICES ASSUME NEW m \in 1 .. Len(printed'), NEW n \in 1 .. Len(printed')
               PROVE  /\ m < n /\ queries[m] = queries[n] /\ printed'[m].kind = "rows" /\ ~ args.no_cache
                         => printed'[n].kind = "hit" /\ printed'[n].answer = printed'[m].answer
                      /\ printed'[n].kind = "hit"
                         => CacheOn /\ \E k \in 1 .. n - 1 : printed'[k] = [printed'[n] EXCEPT !.kind = "rows"]
    BY DEF ExecutedOnce, CacheOn
  <2>1. CASE n = current
    <3>1. m < n => m \in 1 .. Len(printed)
      BY <1>1, <2>1
    <3>2. 1 .. n - 1 = 1 .. Len(printed)
      BY <1>1, <2>1
    <3>3. queries[n] = text /\ printed'[n] = o
      BY <1>1, <2>1 DEF text
    <3>4. m < n /\ queries[m] = queries[n] /\ printed'[m].kind = "rows" /\ ~ args.no_cache
             => printed'[n].kind = "hit" /\ printed'[n].answer = printed'[m].answer
      BY <1>1, <3>1, <3>3
    <3>5. printed'[n].kind = "hit"
             => CacheOn /\ \E k \in 1 .. n - 1 : printed'[k] = [printed'[n] EXCEPT !.kind = "rows"]
      BY <1>1, <3>2, <3>3
    <3> QED
      BY <3>4, <3>5
  <2>2. CASE n \in 1 .. Len(printed)
    <3>1. m < n => m \in 1 .. Len(printed)
      BY <1>1, <2>2
    <3>2. \A k \in 1 .. n - 1 : k \in 1 .. Len(printed)
      BY <1>1, <2>2
    <3>3. m < n /\ queries[m] = queries[n] /\ printed'[m].kind = "rows" /\ ~ args.no_cache
             => printed'[n].kind = "hit" /\ printed'[n].answer = printed'[m].answer
      <4> SUFFICES ASSUME m < n, queries[m] = queries[n], printed'[m].kind = "rows",
                          ~ args.no_cache
                   PROVE  printed'[n].kind = "hit" /\ printed'[n].answer = printed'[m].answer
        OBVIOUS
      <4>1. printed'[m] = printed[m] /\ printed'[n] = printed[n]
        BY <1>1, <2>2, <3>1
      <4>2. m \in 1 .. Len(printed) /\ n \in 1 .. Len(printed) /\ printed[m].kind = "rows"
        BY <4>1, <2>2, <3>1
      <4>3. printed[n].kind = "hit" /\ printed[n].answer = printed[m].answer
        BY <4>2, Zenon DEF ExecutedOnce
      <4> QED
        BY <4>1, <4>3
    <3>4. printed'[n].kind = "hit"
             => CacheOn /\ \E k \in 1 .. n - 1 : printed'[k] = [printed'[n] EXCEPT !.kind = "rows"]
      BY <1>1, <2>2, <3>2 DEF ExecutedOnce
    <3> QED
      BY <3>3, <3>4
  <2> QED
    BY <1>1, <2>1, <2>2
<1> QED
  BY <1>2, <1>3, <1>4

(* The loop goes on, with no table in hand, or ends with exit code 0.      *)
LEMMA NextQueryStep ==
    ASSUME SessionInv, pc \in {"explain", "hit", "execute"}, NEW o \in Outputs,
           printed' = Append(printed, o), NextQuery, UNCHANGED <<environment, command>>,
           result_cache' \in [Query -> Answers \cup {None}]
    PROVE  TypeInv' /\ Loaded' /\ Position' /\ Turned'
<1> USE DEF SessionInv
<1>1. /\ printed' \in Seq(Outputs) /\ Len(printed') = current /\ Len(printed) = current - 1
      /\ current \in 1 .. Len(queries) /\ Len(queries) \in Nat
  BY AppendOutput DEF TypeInv
<1>2. ~ StopsAtSizes /\ exit = None
  BY DEF Position
<1>3. TypeInv'
  BY <1>1, <1>2 DEF TypeInv, NextQuery
<1>4. Loaded' /\ Turned'
  BY DEF Loaded, Turned, NextQuery
<1>5. Position'
  BY <1>1, <1>2, NoneAssumption DEF Position, NextQuery, StopsAtSizes
<1> QED
  BY <1>3, <1>4, <1>5

(* The cache is left alone and the output is no execution.                 *)
LEMMA CachedKept ==
    ASSUME SessionInv, pc # "exited", NEW o \in Outputs, printed' = Append(printed, o),
           UNCHANGED <<command, result_cache>>, o.kind # "rows"
    PROVE  Cached'
<1>1. /\ 1 .. Len(printed') = 1 .. Len(printed) \cup {current}
      /\ current \notin 1 .. Len(printed)
      /\ \A n \in 1 .. Len(printed) : printed'[n] = printed[n]
      /\ printed'[current] = o
  BY AppendOutput DEF SessionInv
<1> QED
  BY <1>1 DEF SessionInv, Cached, CacheOn

(* Nothing of this text has been stored where the program executes,        *)
(* explains or stops.                                                      *)
LEMMA NothingStored ==
    ASSUME SessionInv, \/ pc = "execute" \/ pc = "explain"
                       \/ pc = "convert" /\ StopsAtSizes
    PROVE  \A m \in 1 .. Len(printed) :
              ~ (queries[m] = text /\ printed[m].kind = "rows" /\ ~ args.no_cache)
<1> SUFFICES ASSUME NEW m \in 1 .. Len(printed), queries[m] = text, printed[m].kind = "rows",
                    ~ args.no_cache
             PROVE  FALSE
  OBVIOUS
<1> USE DEF SessionInv
<1>1. ~ args.explain /\ ~ args.explain_analyze /\ result_cache[text] = printed[m].answer
  BY DEF Cached
<1>2. printed[m].answer \in Answers
  <2>1. printed \in Seq(Outputs)
    BY DEF TypeInv
  <2>2. printed[m] \in Outputs
    BY <2>1
  <2> QED
    BY <2>2 DEF Outputs
<1>3. pc = "execute"
  BY <1>1 DEF Turned, Position
<1> QED
  BY <1>1, <1>2, <1>3, NoneAssumption DEF Turned, CacheOn

LEMMA PrintSizesStep == SessionInv /\ PrintSizes => SessionInv'
<1> SUFFICES ASSUME SessionInv, PrintSizes PROVE SessionInv'
  OBVIOUS
<1> USE DEF SessionInv
<1> DEFINE o == [kind |-> "sizes", answer |-> Answer(text, table_rows)]
<1>1. /\ pc = "convert" /\ StopsAtSizes /\ printed' = Append(printed, o)
      /\ exit' = 0 /\ pc' = "exited"
      /\ UNCHANGED <<environment, command, current, table_rows, result_cache>>
  BY DEF PrintSizes, StopsAtSizes
<1>2. o \in Outputs /\ o.kind = "sizes" /\ o.answer.query = text
  BY <1>1, AnswerType DEF Outputs
<1> HIDE DEF o
<1>3. Named' /\ Fresh' /\ ExecutedOnce'
  BY <1>1, <1>2, NothingStored, OutputStep
<1>4. Cached'
  BY <1>1, <1>2, CachedKept
<1>5. printed' \in Seq(Outputs) /\ Len(printed') = current
  BY <1>1, <1>2, AppendOutput
<1>6. TypeInv' /\ Loaded' /\ Position' /\ Turned'
  BY <1>1, <1>5, NoneAssumption, SameText DEF TypeInv, Loaded, Position, Turned
<1> QED
  BY <1>3, <1>4, <1>6

LEMMA ExplainStep == SessionInv /\ Explain => SessionInv'
<1> SUFFICES ASSUME SessionInv, Explain PROVE SessionInv'
  OBVIOUS
<1> USE DEF SessionInv
<1> DEFINE o == [kind |-> "plan", answer |-> Answer(text, table_rows)]
<1>1. /\ pc = "explain" /\ printed' = Append(printed, o) /\ NextQuery
      /\ UNCHANGED <<environment, command, result_cache>>
  BY DEF Explain
<1>2. o \in Outputs /\ o.kind = "plan" /\ o.answer.query = text
  BY <1>1, AnswerType DEF Outputs
<1> HIDE DEF o
<1>3. Named' /\ Fresh' /\ ExecutedOnce'
  BY <1>1, <1>2, NothingStored, OutputStep
<1>4. Cached'
  BY <1>1, <1>2, CachedKept
<1>5. TypeInv' /\ Loaded' /\ Position' /\ Turned'
  BY <1>1, <1>2, NextQueryStep DEF TypeInv
<1> QED
  BY <1>3, <1>4, <1>5

LEMMA AnalyzeStep == SessionInv /\ Analyze => SessionInv'
<1> SUFFICES ASSUME SessionInv, Analyze PROVE SessionInv'
  OBVIOUS
<1> USE DEF SessionInv
<1> DEFINE o == [kind |-> "analyze", answer |-> Answer(text, table_rows)]
<1>1. /\ pc = "execute" /\ printed' = Append(printed, o) /\ NextQuery
      /\ UNCHANGED <<environment, command, result_cache>>
  BY DEF Analyze
<1>2. o \in Outputs /\ o.kind = "analyze" /\ o.answer.query = text
  BY <1>1, AnswerType DEF Outputs
<1>3. Tables(text) \cap rewritten = {} => o.answer = Answer(text, files)
  BY <1>1, AnswerFresh
<1> HIDE DEF o
<1>4. Named' /\ Fresh' /\ ExecutedOnce'
  BY <1>1, <1>2, <1>3, NothingStored, OutputStep
<1>5. Cached'
  BY <1>1, <1>2, CachedKept
<1>6. TypeInv' /\ Loaded' /\ Position' /\ Turned'
  BY <1>1, <1>2, NextQueryStep DEF TypeInv
<1> QED
  BY <1>4, <1>5, <1>6

(* A hit repeats the execution of the same text that filled the cache.     *)
LEMMA HitStep == SessionInv /\ Hit => SessionInv'
<1> SUFFICES ASSUME SessionInv, Hit PROVE SessionInv'
  OBVIOUS
<1> USE DEF SessionInv
<1> DEFINE o == [kind |-> "hit", answer |-> result_cache[text]]
<1>1. /\ pc = "hit" /\ printed' = Append(printed, o) /\ NextQuery
      /\ UNCHANGED <<environment, command, result_cache>>
  BY DEF Hit
<1>2. text \in Query /\ CacheOn /\ result_cache[text] # None
  BY <1>1, TextType DEF Turned
<1>3. PICK k \in 1 .. Len(printed) :
          queries[k] = text /\ printed[k] = [kind |-> "rows", answer |-> result_cache[text]]
  BY <1>2 DEF Cached
<1>4. o \in Outputs /\ o.answer.query = text
  BY <1>2, <1>3 DEF TypeInv, Outputs, Named
<1>5. Tables(text) \cap rewritten = {} => o.answer = Answer(text, files)
  BY <1>3 DEF Fresh, Rows
<1>6. \A m \in 1 .. Len(printed) :
          queries[m] = text /\ printed[m].kind = "rows" /\ ~ args.no_cache
             => o.kind = "hit" /\ o.answer = printed[m].answer
  BY DEF Cached
<1>7. printed[k] = [o EXCEPT !.kind = "rows"]
  BY <1>3
<1>8. o.kind = "hit"
  OBVIOUS
<1> HIDE DEF o
<1>9. Named' /\ Fresh' /\ ExecutedOnce'
  BY <1>1, <1>2, <1>4, <1>5, <1>6, <1>7, OutputStep
<1>10. Cached'
  BY <1>1, <1>4, <1>8, CachedKept
<1>11. TypeInv' /\ Loaded' /\ Position' /\ Turned'
  BY <1>1, <1>4, NextQueryStep DEF TypeInv
<1> QED
  BY <1>9, <1>10, <1>11

(* An execution that may be stored is the first of its text.               *)
LEMMA ExecuteStep == SessionInv /\ Execute => SessionInv'
<1> SUFFICES ASSUME SessionInv, Execute PROVE SessionInv'
  OBVIOUS
<1> USE DEF SessionInv
<1> DEFINE a == Answer(text, table_rows)
           o == [kind |-> "rows", answer |-> a]
<1>1. /\ pc = "execute" /\ printed' = Append(printed, o) /\ NextQuery /\ ~ args.explain_analyze
      /\ UNCHANGED <<environment, command>>
      /\ result_cache' = IF args.no_cache THEN result_cache ELSE [result_cache EXCEPT ![text] = a]
  BY DEF Execute
<1>2. a \in Answers /\ a.query = text /\ text \in Query
  BY <1>1, AnswerType, TextType
<1>3. Tables(text) \cap rewritten = {} => a = Answer(text, files)
  BY <1>1, AnswerFresh
<1> HIDE DEF a
<1>4. o \in Outputs /\ o.kind = "rows" /\ o.answer = a
  BY <1>2 DEF Outputs
<1>5. Named' /\ Fresh' /\ ExecutedOnce'
  BY <1>1, <1>2, <1>3, <1>4, NothingStored, OutputStep
<1>6. TypeInv' /\ Loaded' /\ Position' /\ Turned'
  BY <1>1, <1>2, <1>4, NextQueryStep DEF TypeInv
<1>7. Cached'
  <2>1. /\ 1 .. Len(printed') = 1 .. Len(printed) \cup {current}
        /\ current \notin 1 .. Len(printed)
        /\ \A n \in 1 .. Len(printed) : printed'[n] = printed[n]
        /\ printed'[current] = o /\ queries[current] = text
    BY <1>1, <1>4, AppendOutput DEF text
  <2>2. ~ args.explain
    BY <1>1 DEF Turned
  <2>3. CASE args.no_cache
    <3>1. result_cache' = result_cache
      BY <1>1, <2>3
    <3> QED
      BY <1>1, <2>1, <2>2, <2>3, <3>1 DEF Cached, CacheOn
  <2>4. CASE ~ args.no_cache
    <3>1. /\ result_cache'[text] = a
          /\ \A q \in Query : q # text => result_cache'[q] = result_cache[q]
      BY <1>1, <1>2, <2>4 DEF TypeInv
    <3>2. CacheOn' /\ CacheOn
      BY <1>1, <2>4 DEF CacheOn
    <3>3. \A q \in Query : result_cache'[q] # None =>
             \E n \in 1 .. Len(printed') :
                queries[n] = q /\ printed'[n] = [kind |-> "rows", answer |-> result_cache'[q]]
      BY <2>1, <3>1, SMTT(30) DEF Cached
    <3>4. ASSUME NEW n \in 1 .. Len(printed), printed[n].kind = "rows"
          PROVE  result_cache'[queries[n]] = printed[n].answer
      <4>1. queries[n] # text
        BY <1>1, <2>4, <3>4, NothingStored
      <4>2. queries[n] \in Query
        BY <2>1 DEF TypeInv, Position
      <4> QED
        BY <2>4, <3>1, <3>4, <4>1, <4>2 DEF Cached
    <3>5. \A n \in 1 .. Len(printed') : printed'[n].kind = "rows" =>
             result_cache'[queries[n]] = printed'[n].answer
      BY <1>4, <2>1, <3>1, <3>4
    <3> QED
      BY <1>1, <2>2, <3>2, <3>3, <3>5 DEF Cached
  <2> QED
    BY <2>3, <2>4
<1> QED
  BY <1>5, <1>6, <1>7

-----------------------------------------------------------------------------
(* Theorems.                                                               *)

LEMMA StepInv == SessionInv /\ [SessionNext]_sessionVars => SessionInv'
<1> SUFFICES ASSUME SessionInv, [SessionNext]_sessionVars PROVE SessionInv'
  OBVIOUS
<1>1. CASE Quiet
  BY <1>1, QuietInv
<1>2. CASE Rewrite
  BY <1>2, RewriteStep
<1>3. CASE PrintSizes \/ Explain \/ Analyze \/ Hit \/ Execute
  BY <1>3, PrintSizesStep, ExplainStep, AnalyzeStep, HitStep, ExecuteStep
<1>4. CASE Exited \/ UNCHANGED sessionVars
  <2>1. UNCHANGED sessionVars
    BY <1>4 DEF Exited
  <2>2. text' = text /\ CacheOn' = CacheOn /\ StopsAtSizes' = StopsAtSizes
    BY <2>1, SameText DEF sessionVars
  <2>3. TypeInv' /\ Loaded' /\ Position' /\ Turned'
    BY <2>1, <2>2 DEF sessionVars, SessionInv, TypeInv, Loaded, Position, Turned, Tables
  <2> QED
    BY <2>1, <2>3, QuietStep DEF sessionVars, SessionInv
<1> QED
  BY <1>1, <1>2, <1>3, <1>4 DEF SessionNext, Main, Quiet

(* The inductive invariant holds in every state the program reaches.       *)
THEOREM SessionInvariance == SessionSpec => []SessionInv
BY SessionInitInv, StepInv, PTL DEF SessionSpec

(* The cache is invisible while no file changes: the nth output is what    *)
(* the nth query answers over the files as they are, executed or not.      *)
THEOREM FreshTheorem == SessionSpec => []Fresh
<1>1. SessionInv => Fresh
  BY DEF SessionInv
<1> QED
  BY <1>1, SessionInvariance, PTL

(* A text is executed once; every later output of it repeats the first.    *)
THEOREM ExecutedOnceTheorem == SessionSpec => []ExecutedOnce
<1>1. SessionInv => ExecutedOnce
  BY DEF SessionInv
<1> QED
  BY <1>1, SessionInvariance, PTL

(* The exit code says how many queries have had their output.              *)
THEOREM ExitCodeTheorem == SessionSpec => []ExitCode
<1>1. SessionInv => ExitCode
  BY DEF SessionInv, Position, Named, ExitCode, StopsAtSizes
<1> QED
  BY <1>1, SessionInvariance, PTL
=============================================================================
