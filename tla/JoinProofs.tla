----------------------------- MODULE JoinProofs -----------------------------
(***************************************************************************)
(* Proofs about the joins.                                                 *)
(*                                                                         *)
(* First VecJoin, for tables, batches and lanes of any size, either        *)
(* algorithm and either build side: the types, that pairs come out in the  *)
(* order of probe rows then build rows, so none twice, and that they are   *)
(* exactly the pairs whose keys the algorithm holds alike, which are those *)
(* that SQL's = calls equal as long as texts are faithful.  The inductive  *)
(* invariant says which build rows stand in the hash table or the arrays,  *)
(* which probe rows have been visited, what the compare pass has found so  *)
(* far, and that the pairs handed up and those still buffered are together *)
(* the pairs of the probe rows visited.                                    *)
(*                                                                         *)
(* Then JoinQuery, for all relations, contents and statements: what is     *)
(* rejected, that the plan answers the statement with and without the      *)
(* optimizer, what ORDER BY an alias sorts by, and what is pushed down.    *)
(***************************************************************************)
EXTENDS VecJoin, JoinQuery, WellFoundedInduction, FiniteSetTheorems, TLAPS

-----------------------------------------------------------------------------
(* VecJoin.                                                                *)

(* The probe row and the build row of a pair.                              *)
ProbeOf(pair) == IF swapped THEN pair[2] ELSE pair[1]
BuildOf(pair) == IF swapped THEN pair[1] ELSE pair[2]

Before(x, y) == \/ ProbeOf(x) < ProbeOf(y)
                \/ ProbeOf(x) = ProbeOf(y) /\ BuildOf(x) < BuildOf(y)

Ascending(s)      == \A n, m \in 1 .. Len(s) : n < m => s[n] < s[m]
AscendingPairs(s) == \A n, m \in 1 .. Len(s) : n < m => Before(s[n], s[m])

(* The keys that the algorithm holds alike.                                *)
Alike(k, l) == IF algorithm = "hash" THEN Text[k] = Text[l] ELSE k = l

(* The build rows that probe row p is paired with.                         *)
Partners(p) == {b \in BuildRows : /\ BuildKeys[b] # NULL /\ ProbeKeys[p] # NULL
                                  /\ Alike(BuildKeys[b], ProbeKeys[p])}

(* The pairs of the probe rows already visited.                            *)
Visited(p)   == p < probe_next /\ p \notin probe_chunk
VisitedPairs == {x \in from_rows \X join_rows :
                    Visited(ProbeOf(x)) /\ BuildOf(x) \in Partners(ProbeOf(x))}

(* The pairs buffered and not yet handed up.                               *)
Waiting == {output_buffer[n] : n \in output_cursor + 1 .. Len(output_buffer)}

ProbeSize == Cardinality(DOMAIN ProbeKeys)

-----------------------------------------------------------------------------
(* The types, one part for each group of variables.                        *)
InputTypes ==
    /\ \E n \in 0 .. MaxFrom : from_keys \in [0 .. n - 1 -> Key \cup {NULL}]
    /\ \E n \in 0 .. MaxJoin : join_keys \in [0 .. n - 1 -> Key \cup {NULL}]
    /\ from_rows \subseteq DOMAIN from_keys /\ join_rows \subseteq DOMAIN join_keys
    /\ algorithm \in Algorithms /\ swapped \in BOOLEAN

BuildTypes ==
    /\ build_todo \subseteq BuildRows
    /\ hash_table \in [{Text[k] : k \in Key} -> Seq(BuildRows)]
    /\ build_keys \in Seq(Key) /\ build_rows \in Seq(BuildRows)

ProbeTypes ==
    /\ probe_next \in Nat /\ probe_next <= ProbeSize
    /\ probe_chunk \subseteq ProbeRows

LoopTypes ==
    /\ key \in Key \cup {NULL} /\ lane \in Nat /\ lane <= Len(build_keys)
    /\ mask \subseteq 1 .. Len(build_keys) /\ matches \in Seq(1 .. Len(build_keys))

OutputTypes ==
    /\ output_buffer \in Seq(from_rows \X join_rows)
    /\ output_cursor \in 0 .. Len(output_buffer)
    /\ result \in Seq(from_rows \X join_rows)

PcType == pc \in {"open", "next", "probe", "compare", "done"}

(* The inductive invariant.                                                *)

(* The rows built so far stand in their buckets, or in the arrays.         *)
Built ==
    /\ pc # "open" => build_todo = {}
    /\ \A b \in BuildRows \ build_todo, c \in build_todo : b < c
    /\ algorithm = "hash" =>
         \A t \in {Text[k] : k \in Key} :
            /\ Ascending(hash_table[t])
            /\ \A b \in BuildRows :
                 (\E n \in 1 .. Len(hash_table[t]) : hash_table[t][n] = b)
                    <=> b \notin build_todo /\ BuildKeys[b] # NULL /\ Text[BuildKeys[b]] = t
    /\ algorithm = "loop" =>
         /\ Len(build_keys) = Len(build_rows)
         /\ Ascending(build_rows)
         /\ \A n \in 1 .. Len(build_rows) : build_keys[n] = BuildKeys[build_rows[n]]
         /\ \A b \in BuildRows :
              (\E n \in 1 .. Len(build_rows) : build_rows[n] = b)
                 <=> b \notin build_todo /\ BuildKeys[b] # NULL

(* The probe rows come in order.                                           *)
Probed ==
    /\ pc \in {"open", "next", "done"} => probe_chunk = {}
    /\ \A p \in probe_chunk : p < probe_next
    /\ \A p \in ProbeRows, q \in probe_chunk : Visited(p) => p < q
    /\ pc = "done" => probe_next = ProbeSize

(* The lanes compared so far, those still in the mask being the last.      *)
Compared ==
    pc = "compare" =>
        /\ algorithm = "loop" /\ probe_chunk # {}
        /\ key = ProbeKeys[Least(probe_chunk)] /\ key # NULL
        /\ Ascending(matches)
        /\ \A n \in 1 .. Len(build_keys) :
             n \in mask \/ (\E i \in 1 .. Len(matches) : matches[i] = n)
                <=> n <= lane /\ build_keys[n] = key
        /\ \A i \in 1 .. Len(matches), n \in mask : matches[i] < n

(* The pairs handed up and those waiting are the pairs visited, in order.  *)
Output ==
    /\ AscendingPairs(result) /\ AscendingPairs(output_buffer)
    /\ \A n \in 1 .. Len(result), x \in Waiting : Before(result[n], x)
    /\ Delivered \cup Waiting = VisitedPairs
    /\ pc = "open" => probe_next = 0
    /\ pc \in {"probe", "compare"} => output_cursor = 0
    /\ pc = "done" => output_buffer = << >>

IInv == TypeOK /\ Built /\ Probed /\ Compared /\ Output

-----------------------------------------------------------------------------
(* Facts about naturals, sequences and the inputs.                         *)

(* A non-empty set of naturals has a least element.                        *)
LEMMA LeastIn ==
    ASSUME NEW S \in SUBSET Nat, S # {}
    PROVE  Least(S) \in S /\ \A y \in S : Least(S) <= y
<1>1. PICK x \in S : \A y \in S : ~ (<<y, x>> \in OpToRel(<, Nat))
  BY WFMin, NatLessThanWellFounded
<1>2. \A y \in S : ~ (y < x)
  BY <1>1, Zenon DEF OpToRel
<1>3. \A y \in S : x <= y
  BY <1>2
<1> QED
  BY <1>3 DEF Least

(* Concatenation: the parts keep their elements.                           *)
LEMMA ConcatFacts ==
    ASSUME NEW T, NEW s \in Seq(T), NEW t \in Seq(T)
    PROVE  /\ s \o t \in Seq(T) /\ Len(s \o t) = Len(s) + Len(t)
           /\ Len(s) \in Nat /\ Len(t) \in Nat
           /\ \A n \in 1 .. Len(s) : (s \o t)[n] = s[n]
           /\ \A n \in 1 .. Len(t) : (s \o t)[Len(s) + n] = t[n]
           /\ \A n \in 1 .. Len(s) + Len(t) :
                \/ n \in 1 .. Len(s)
                \/ n - Len(s) \in 1 .. Len(t) /\ (s \o t)[n] = t[n - Len(s)]
<1>1. /\ s \o t \in Seq(T) /\ Len(s \o t) = Len(s) + Len(t)
      /\ Len(s) \in Nat /\ Len(t) \in Nat
  OBVIOUS
<1>2. /\ \A n \in 1 .. Len(s) : (s \o t)[n] = s[n]
      /\ \A n \in 1 .. Len(t) : (s \o t)[Len(s) + n] = t[n]
  OBVIOUS
<1>3. ASSUME NEW n \in 1 .. Len(s) + Len(t), n \notin 1 .. Len(s)
      PROVE  n - Len(s) \in 1 .. Len(t) /\ (s \o t)[n] = t[n - Len(s)]
  <2>1. n - Len(s) \in 1 .. Len(t) /\ Len(s) + (n - Len(s)) = n
    BY <1>1, <1>3
  <2> QED
    BY <1>2, <2>1
<1> QED
  BY <1>1, <1>2, <1>3

(* A table's rows are an initial segment of the naturals.                  *)
LEMMA Inputs ==
    ASSUME TypeOK
    PROVE  /\ ProbeSize \in Nat /\ DOMAIN ProbeKeys = 0 .. ProbeSize - 1
           /\ ProbeRows \subseteq 0 .. ProbeSize - 1 /\ ProbeRows \subseteq Nat
           /\ \A p \in ProbeRows : ProbeKeys[p] \in Key \cup {NULL}
           /\ BuildRows \subseteq Nat /\ BuildRows \subseteq DOMAIN BuildKeys
           /\ \A b \in BuildRows : BuildKeys[b] \in Key \cup {NULL}
           /\ build_todo \subseteq Nat /\ probe_chunk \subseteq Nat
           /\ from_rows \subseteq 0 .. MaxFrom - 1 /\ join_rows \subseteq 0 .. MaxJoin - 1
<1>1. PICK m \in 0 .. MaxFrom : from_keys \in [0 .. m - 1 -> Key \cup {NULL}]
  BY DEF TypeOK
<1>2. PICK n \in 0 .. MaxJoin : join_keys \in [0 .. n - 1 -> Key \cup {NULL}]
  BY DEF TypeOK
<1>3. MaxFrom \in Nat /\ MaxJoin \in Nat
  BY SizeAssumption
<1>4. Cardinality(0 .. m - 1) = m /\ Cardinality(0 .. n - 1) = n
  BY <1>3, FS_Interval
<1>5. from_rows \subseteq 0 .. m - 1 /\ join_rows \subseteq 0 .. n - 1 /\ swapped \in BOOLEAN
      /\ build_todo \subseteq BuildRows /\ probe_chunk \subseteq ProbeRows
  BY <1>1, <1>2 DEF TypeOK
<1>6. CASE swapped
  BY <1>1, <1>2, <1>3, <1>4, <1>5, <1>6 DEF ProbeSize, ProbeKeys, ProbeRows, BuildKeys, BuildRows
<1>7. CASE ~ swapped
  BY <1>1, <1>2, <1>3, <1>4, <1>5, <1>7 DEF ProbeSize, ProbeKeys, ProbeRows, BuildKeys, BuildRows
<1> QED
  BY <1>6, <1>7

(* A pair consists of a probe row and a build row.                         *)
LEMMA PairFacts ==
    ASSUME TypeOK
    PROVE  /\ \A x \in from_rows \X join_rows :
                ProbeOf(x) \in ProbeRows /\ BuildOf(x) \in BuildRows /\ x = Pair(ProbeOf(x), BuildOf(x))
           /\ \A p \in ProbeRows, b \in BuildRows :
                Pair(p, b) \in from_rows \X join_rows /\ ProbeOf(Pair(p, b)) = p /\ BuildOf(Pair(p, b)) = b
<1>1. swapped \in BOOLEAN
  BY DEF TypeOK
<1>2. CASE swapped
  BY <1>2 DEF ProbeOf, BuildOf, ProbeRows, BuildRows, Pair
<1>3. CASE ~ swapped
  BY <1>3 DEF ProbeOf, BuildOf, ProbeRows, BuildRows, Pair
<1> QED
  BY <1>1, <1>2, <1>3

(* The inputs never change, nor does what is defined by them alone.        *)
LEMMA InputsFixed ==
    ASSUME UNCHANGED inputs
    PROVE  /\ UNCHANGED <<from_keys, join_keys, from_rows, join_rows, algorithm, swapped>>
           /\ ProbeRows' = ProbeRows /\ BuildRows' = BuildRows
           /\ ProbeKeys' = ProbeKeys /\ BuildKeys' = BuildKeys
           /\ ProbeSize' = ProbeSize
           /\ \A p : Partners(p)' = Partners(p)
BY DEF inputs, ProbeRows, BuildRows, ProbeKeys, BuildKeys, ProbeSize, Partners, Alike

-----------------------------------------------------------------------------
LEMMA InitInv == Init => IInv
<1> SUFFICES ASSUME Init PROVE IInv
  OBVIOUS
<1> USE DEF Init
<1>1. TypeOK
  <2>1. swapped \in BOOLEAN
    OBVIOUS
  <2>2. BuildRows \subseteq BuildRows
    OBVIOUS
  <2>3. Len(<< >>) = 0 /\ \A T : << >> \in Seq(T)
    OBVIOUS
  <2>4. Cardinality(DOMAIN ProbeKeys) \in Nat
    <3>1. PICK m \in 0 .. MaxFrom : from_keys \in [0 .. m - 1 -> Key \cup {NULL}]
      OBVIOUS
    <3>2. PICK n \in 0 .. MaxJoin : join_keys \in [0 .. n - 1 -> Key \cup {NULL}]
      OBVIOUS
    <3>3. Cardinality(0 .. m - 1) = m /\ Cardinality(0 .. n - 1) = n
      <4> HIDE DEF Init
      <4>1. MaxFrom \in Nat /\ MaxJoin \in Nat
        BY SizeAssumption
      <4> QED
        BY <4>1, FS_Interval
    <3> QED
      BY <3>1, <3>2, <3>3, SizeAssumption DEF ProbeKeys
  <2>5. hash_table \in [{Text[k] : k \in Key} -> Seq(BuildRows)]
    BY <2>3
  <2>6. /\ build_keys \in Seq(Key) /\ build_rows \in Seq(BuildRows)
        /\ mask \subseteq 1 .. Len(build_keys) /\ matches \in Seq(1 .. Len(build_keys))
        /\ output_buffer \in Seq(from_rows \X join_rows)
        /\ result \in Seq(from_rows \X join_rows)
        /\ lane \in Nat /\ lane <= Len(build_keys) /\ output_cursor \in 0 .. Len(output_buffer)
    BY <2>3
  <2>7. /\ probe_next \in Nat /\ probe_next <= Cardinality(DOMAIN ProbeKeys)
        /\ probe_chunk \subseteq ProbeRows /\ key \in Key \cup {NULL} /\ build_todo \subseteq BuildRows
    BY <2>4
  <2>8. /\ \E n \in 0 .. MaxFrom : from_keys \in [0 .. n - 1 -> Key \cup {NULL}]
        /\ \E n \in 0 .. MaxJoin : join_keys \in [0 .. n - 1 -> Key \cup {NULL}]
        /\ from_rows \subseteq DOMAIN from_keys /\ join_rows \subseteq DOMAIN join_keys
        /\ algorithm \in Algorithms
        /\ pc \in {"open", "next", "probe", "compare", "done"}
    OBVIOUS
  <2> HIDE DEF Init
  <2> QED
    BY <2>1, <2>5, <2>6, <2>7, <2>8 DEF TypeOK
<1>2. Built
  <2>1. \A t \in {Text[k] : k \in Key} : hash_table[t] = << >>
    OBVIOUS
  <2> QED
    BY <2>1 DEF Built, Ascending
<1>3. Probed
  BY DEF Probed
<1>4. Compared
  BY DEF Compared
<1>5. Output
  <2>1. Delivered = {} /\ Waiting = {}
    BY DEF Delivered, Waiting
  <2>2. VisitedPairs = {}
    <3>1. \A x \in from_rows \X join_rows : ~ Visited(ProbeOf(x))
      BY <1>1, PairFacts, Inputs DEF Visited
    <3> QED
      BY <3>1 DEF VisitedPairs
  <2> QED
    BY <2>1, <2>2 DEF Output, AscendingPairs
<1> QED
  BY <1>1, <1>2, <1>3, <1>4, <1>5 DEF IInv

-----------------------------------------------------------------------------
(* Parts of the invariant that a step leaves alone.                        *)

LEMMA Types ==
    TypeOK <=> InputTypes /\ BuildTypes /\ ProbeTypes /\ LoopTypes /\ OutputTypes /\ PcType
BY Zenon DEF TypeOK, InputTypes, BuildTypes, ProbeTypes, LoopTypes, OutputTypes, PcType, ProbeSize

LEMMA TypesPrime ==
    TypeOK' <=> InputTypes' /\ BuildTypes' /\ ProbeTypes' /\ LoopTypes' /\ OutputTypes' /\ PcType'
BY Types, PTL

LEMMA InputTypesKept ==
    ASSUME TypeOK, UNCHANGED inputs
    PROVE  InputTypes'
BY Types DEF InputTypes, inputs

LEMMA BuildTypesKept ==
    ASSUME TypeOK, UNCHANGED <<inputs, build>>
    PROVE  BuildTypes'
BY Types, InputsFixed DEF BuildTypes, build

LEMMA ProbeTypesKept ==
    ASSUME TypeOK, UNCHANGED <<inputs, probe>>
    PROVE  ProbeTypes'
BY Types, InputsFixed DEF ProbeTypes, probe

LEMMA LoopTypesKept ==
    ASSUME TypeOK, UNCHANGED <<loop, build_keys>>
    PROVE  LoopTypes'
BY Types DEF LoopTypes, loop

LEMMA OutputTypesKept ==
    ASSUME TypeOK, UNCHANGED <<inputs, output, result>>
    PROVE  OutputTypes'
BY Types, InputsFixed DEF OutputTypes, output

LEMMA BuiltKept ==
    ASSUME Built, UNCHANGED <<inputs, build>>, pc # "open", pc' # "open"
    PROVE  Built'
<1>1. /\ UNCHANGED <<build_todo, hash_table, build_keys, build_rows, algorithm>>
      /\ BuildRows' = BuildRows /\ BuildKeys' = BuildKeys
  BY InputsFixed DEF build
<1> QED
  BY <1>1 DEF Built, Ascending

LEMMA ProbedKept ==
    ASSUME Probed, UNCHANGED <<inputs, probe>>,
           pc' \in {"open", "next", "done"} => probe_chunk = {},
           pc' = "done" => pc = "done"
    PROVE  Probed'
<1>1. /\ UNCHANGED <<probe_next, probe_chunk>>
      /\ ProbeRows' = ProbeRows /\ ProbeSize' = ProbeSize
  BY InputsFixed DEF probe
<1> QED
  BY <1>1 DEF Probed, Visited

LEMMA OutputKept ==
    ASSUME Output, UNCHANGED <<inputs, probe, output, result>>,
           pc' = "open" => pc = "open",
           pc' \in {"probe", "compare"} => pc \in {"probe", "compare"},
           pc' = "done" => pc = "done"
    PROVE  Output'
<1>1. /\ UNCHANGED <<probe_next, probe_chunk, output_buffer, output_cursor, result>>
      /\ UNCHANGED <<from_rows, join_rows, swapped>>
      /\ \A p : Partners(p)' = Partners(p)
  BY InputsFixed DEF probe, output
<1>2. Delivered' = Delivered /\ Waiting' = Waiting
  BY <1>1 DEF Delivered, Waiting
<1>3. VisitedPairs' = VisitedPairs
  BY <1>1 DEF VisitedPairs, Visited, ProbeOf, BuildOf
<1>4. /\ AscendingPairs(result)' = AscendingPairs(result)
      /\ AscendingPairs(output_buffer)' = AscendingPairs(output_buffer)
  BY <1>1 DEF AscendingPairs, Before, ProbeOf, BuildOf
<1>5. \A n \in 1 .. Len(result), x \in Waiting : Before(result[n], x)' = Before(result[n], x)
  BY <1>1 DEF Before, ProbeOf, BuildOf
<1>6. \A n \in 1 .. Len(result'), x \in Waiting' : Before(result[n], x)'
  BY <1>1, <1>2, <1>5 DEF Output
<1> QED
  BY <1>1, <1>2, <1>3, <1>4, <1>6 DEF Output

-----------------------------------------------------------------------------
(* open.                                                                   *)

(* The next build row, and what remains when it is taken.                  *)
LEMMA NextBuildRow ==
    ASSUME TypeOK, Built, build_todo # {}, NEW r, r = Least(build_todo),
           NEW rest, rest = build_todo \ {r}
    PROVE  /\ r \in build_todo /\ r \in BuildRows /\ BuildKeys[r] \in Key \cup {NULL}
           /\ \A b \in BuildRows : b \notin rest <=> b \notin build_todo \/ b = r
           /\ \A b \in BuildRows \ build_todo : b < r
           /\ \A b \in BuildRows \ rest, c \in rest : b < c
<1>1. /\ r \in build_todo /\ \A y \in build_todo : r <= y
      /\ build_todo \subseteq Nat /\ BuildRows \subseteq Nat /\ build_todo \subseteq BuildRows
      /\ \A b \in BuildRows : BuildKeys[b] \in Key \cup {NULL}
  BY LeastIn, Inputs DEF TypeOK
<1>2. \A b \in BuildRows \ build_todo, c \in build_todo : b < c
  BY DEF Built
<1>3. ASSUME NEW b \in BuildRows \ rest, NEW c \in rest PROVE b < c
  <2>1. c \in build_todo /\ c # r /\ r <= c /\ c \in Nat /\ r \in Nat
    BY <1>1
  <2>2. CASE b = r
    BY <2>1, <2>2
  <2>3. CASE b \notin build_todo
    BY <1>2, <2>1, <2>3
  <2> QED
    BY <2>2, <2>3
<1> QED
  BY <1>1, <1>2, <1>3

LEMMA BuildNullStep == IInv /\ BuildNull => IInv'
<1> SUFFICES ASSUME IInv, BuildNull PROVE IInv'
  OBVIOUS
<1>0. TypeOK /\ Built /\ Probed /\ Compared /\ Output
  BY DEF IInv
<1> DEFINE r == Least(build_todo)
<1>1. /\ r \in build_todo /\ \A y \in build_todo : r <= y
      /\ build_todo \subseteq Nat /\ BuildRows \subseteq Nat /\ build_todo \subseteq BuildRows
  BY <1>0, LeastIn, Inputs DEF BuildNull, TypeOK
<1>2. /\ UNCHANGED <<inputs, probe, loop, output, result, pc, hash_table, build_keys, build_rows>>
      /\ BuildKeys[r] = NULL /\ build_todo' = build_todo \ {r} /\ pc = "open"
  BY DEF BuildNull
<1>3. /\ BuildRows' = BuildRows /\ BuildKeys' = BuildKeys /\ ProbeKeys' = ProbeKeys
      /\ ProbeRows' = ProbeRows /\ algorithm' = algorithm
      /\ UNCHANGED <<from_keys, join_keys, from_rows, join_rows, algorithm, swapped>>
  BY <1>2, InputsFixed
<1> HIDE DEF r
<1>4. TypeOK'
  BY <1>0, <1>1, <1>2, <1>3 DEF TypeOK, probe, loop, output
<1>5. Built'
  <2>1. \A b \in BuildRows : b \notin build_todo' <=> b \notin build_todo \/ b = r
    BY <1>1, <1>2
  <2>2. \A b \in BuildRows \ build_todo', c \in build_todo' : b < c
    BY <1>0, <1>1, <1>2, NextBuildRow DEF r
  <2> QED
    BY <1>0, <1>1, <1>2, <1>3, <2>1, <2>2 DEF Built, Ascending
<1>6. Probed'
  BY <1>0, <1>2, ProbedKept DEF Probed
<1>7. Compared'
  BY <1>2 DEF Compared
<1>8. Output'
  BY <1>0, <1>2, OutputKept
<1> QED
  BY <1>4, <1>5, <1>6, <1>7, <1>8 DEF IInv

LEMMA BuildDoneStep == IInv /\ BuildDone => IInv'
<1> SUFFICES ASSUME IInv, BuildDone PROVE IInv'
  OBVIOUS
<1>0. TypeOK /\ Built /\ Probed /\ Compared /\ Output
  BY DEF IInv
<1>1. /\ UNCHANGED <<inputs, build, probe, loop, output, result>>
      /\ pc = "open" /\ pc' = "next" /\ build_todo = {}
  BY DEF BuildDone
<1>2. /\ BuildRows' = BuildRows /\ BuildKeys' = BuildKeys /\ ProbeKeys' = ProbeKeys
      /\ ProbeRows' = ProbeRows /\ algorithm' = algorithm
      /\ UNCHANGED <<from_keys, join_keys, from_rows, join_rows, algorithm, swapped>>
      /\ UNCHANGED <<build_todo, hash_table, build_keys, build_rows>>
  BY <1>1, InputsFixed DEF build
<1>3. TypeOK'
  BY <1>0, <1>1, <1>2 DEF TypeOK, probe, loop, output
<1>4. Built'
  BY <1>0, <1>1, <1>2 DEF Built, Ascending
<1>5. Probed'
  BY <1>0, <1>1, ProbedKept DEF Probed
<1>6. Compared'
  BY <1>1 DEF Compared
<1>7. Output'
  BY <1>0, <1>1, OutputKept
<1> QED
  BY <1>3, <1>4, <1>5, <1>6, <1>7 DEF IInv

LEMMA AppendFacts ==
    ASSUME NEW T, NEW s \in Seq(T), NEW e \in T
    PROVE  /\ Append(s, e) \in Seq(T) /\ Len(Append(s, e)) = Len(s) + 1 /\ Len(s) \in Nat
           /\ \A n \in 1 .. Len(s) : Append(s, e)[n] = s[n]
           /\ Append(s, e)[Len(s) + 1] = e
           /\ \A n \in 1 .. Len(s) + 1 : n \in 1 .. Len(s) \/ n = Len(s) + 1
OBVIOUS

(* A sequence over a set is one over any larger set.                       *)
LEMMA SeqWider ==
    ASSUME NEW T, NEW S \in SUBSET T, NEW s \in Seq(S)
    PROVE  s \in Seq(T)
<1>1. s \in [1 .. Len(s) -> S] /\ Len(s) \in Nat
  OBVIOUS
<1>2. s \in [1 .. Len(s) -> T]
  BY <1>1
<1> QED
  BY <1>1, <1>2

(* A number greater than all may be appended, and becomes an element.      *)
LEMMA AppendAscending ==
    ASSUME NEW s \in Seq(Nat), NEW e \in Nat, Ascending(s),
           \A n \in 1 .. Len(s) : s[n] < e
    PROVE  /\ Ascending(Append(s, e))
           /\ \A x : (\E n \in 1 .. Len(Append(s, e)) : Append(s, e)[n] = x)
                       <=> x = e \/ \E n \in 1 .. Len(s) : s[n] = x
<1> DEFINE t == Append(s, e)
<1>1. /\ Len(t) = Len(s) + 1 /\ Len(s) \in Nat /\ t[Len(s) + 1] = e
      /\ \A n \in 1 .. Len(s) : t[n] = s[n]
      /\ \A n \in 1 .. Len(s) + 1 : n \in 1 .. Len(s) \/ n = Len(s) + 1
  BY AppendFacts
<1> HIDE DEF t
<1>2. Ascending(t)
  BY <1>1 DEF Ascending
<1>3. ASSUME NEW x
      PROVE  (\E n \in 1 .. Len(t) : t[n] = x) <=> x = e \/ \E n \in 1 .. Len(s) : s[n] = x
  <2>1. Len(s) + 1 \in 1 .. Len(t) /\ \A n \in 1 .. Len(s) : n \in 1 .. Len(t)
    BY <1>1
  <2> QED
    BY <1>1, <2>1
<1> QED
  BY <1>2, <1>3 DEF t

LEMMA BuildBucketStep == IInv /\ BuildBucket => IInv'
<1> SUFFICES ASSUME IInv, BuildBucket PROVE IInv'
  OBVIOUS
<1>0. TypeOK /\ Built /\ Probed /\ Compared /\ Output
  BY DEF IInv
<1> DEFINE r == Least(build_todo)
           text == Text[BuildKeys[r]]
<1>1. /\ r \in build_todo /\ \A y \in build_todo : r <= y
      /\ build_todo \subseteq Nat /\ BuildRows \subseteq Nat /\ build_todo \subseteq BuildRows
      /\ \A b \in BuildRows : BuildKeys[b] \in Key \cup {NULL}
  BY <1>0, LeastIn, Inputs DEF BuildBucket, TypeOK
<1>2. /\ UNCHANGED <<inputs, probe, loop, output, result, pc, build_keys, build_rows>>
      /\ BuildKeys[r] # NULL /\ build_todo' = build_todo \ {r} /\ pc = "open" /\ algorithm = "hash"
      /\ hash_table' = [hash_table EXCEPT ![text] = Append(@, r)]
  BY DEF BuildBucket
<1>3. /\ BuildRows' = BuildRows /\ BuildKeys' = BuildKeys /\ ProbeKeys' = ProbeKeys
      /\ ProbeRows' = ProbeRows /\ algorithm' = algorithm
      /\ UNCHANGED <<from_keys, join_keys, from_rows, join_rows, algorithm, swapped>>
  BY <1>2, InputsFixed
<1> HIDE DEF r
<1>4. /\ text \in {Text[k] : k \in Key}
      /\ hash_table \in [{Text[k] : k \in Key} -> Seq(BuildRows)]
  BY <1>0, <1>1, <1>2 DEF TypeOK
<1> HIDE DEF text
<1>5. /\ hash_table'[text] = Append(hash_table[text], r)
      /\ \A t \in {Text[k] : k \in Key} : t # text => hash_table'[t] = hash_table[t]
      /\ hash_table[text] \in Seq(BuildRows) /\ hash_table[text] \in Seq(Nat)
  <2>1. hash_table[text] \in Seq(BuildRows)
    BY <1>4
  <2>2. hash_table[text] \in Seq(Nat)
    BY <1>1, <2>1, SeqWider
  <2>3. /\ hash_table'[text] = Append(hash_table[text], r)
        /\ \A t \in {Text[k] : k \in Key} : t # text => hash_table'[t] = hash_table[t]
    BY <1>2, <1>4
  <2> QED
    BY <2>1, <2>2, <2>3
<1>6. TypeOK'
  <2>1. hash_table' \in [{Text[k] : k \in Key} -> Seq(BuildRows)]
    BY <1>1, <1>2, <1>4, <1>5, AppendFacts
  <2> QED
    BY <1>0, <1>1, <1>2, <1>3, <2>1 DEF TypeOK, probe, loop, output
<1>7. Built'
  <2>1. \A b \in BuildRows : b \notin build_todo' <=> b \notin build_todo \/ b = r
    BY <1>1, <1>2
  <2>2. \A b \in BuildRows \ build_todo', c \in build_todo' : b < c
    BY <1>0, <1>1, <1>2, NextBuildRow DEF r
  <2>3. \A n \in 1 .. Len(hash_table[text]) : hash_table[text][n] < r
    <3> TAKE n \in 1 .. Len(hash_table[text])
    <3>1. hash_table[text][n] \in BuildRows
      BY <1>5
    <3>2. hash_table[text][n] \notin build_todo
      BY <1>0, <1>2, <1>4, <3>1 DEF Built
    <3> QED
      BY <1>0, <1>1, <3>1, <3>2 DEF Built
  <2>4. /\ Ascending(Append(hash_table[text], r))
        /\ \A x : (\E n \in 1 .. Len(Append(hash_table[text], r)) : Append(hash_table[text], r)[n] = x)
                     <=> x = r \/ \E n \in 1 .. Len(hash_table[text]) : hash_table[text][n] = x
    BY <1>0, <1>1, <1>2, <1>4, <1>5, <2>3, AppendAscending DEF Built
  <2>5. ASSUME NEW t \in {Text[k] : k \in Key}
        PROVE  /\ Ascending(hash_table'[t])
               /\ \A b \in BuildRows :
                    (\E n \in 1 .. Len(hash_table'[t]) : hash_table'[t][n] = b)
                       <=> b \notin build_todo' /\ BuildKeys[b] # NULL /\ Text[BuildKeys[b]] = t
    <3>1. /\ Ascending(hash_table[t])
          /\ \A b \in BuildRows :
               (\E n \in 1 .. Len(hash_table[t]) : hash_table[t][n] = b)
                  <=> b \notin build_todo /\ BuildKeys[b] # NULL /\ Text[BuildKeys[b]] = t
      BY <1>0, <1>2 DEF Built
    <3>2. CASE t = text
      BY <1>1, <1>2, <1>5, <2>1, <2>4, <3>1, <3>2 DEF text
    <3>3. CASE t # text
      BY <1>1, <1>2, <1>5, <2>1, <3>1, <3>3 DEF text
    <3> QED
      BY <3>2, <3>3
  <2>6. \A t \in {Text[k] : k \in Key} :
          /\ Ascending(hash_table[t])'
          /\ \A b \in BuildRows :
               (\E n \in 1 .. Len(hash_table'[t]) : hash_table'[t][n] = b)
                  <=> b \notin build_todo' /\ BuildKeys[b] # NULL /\ Text[BuildKeys[b]] = t
    BY <2>5 DEF Ascending
  <2> QED
    BY <1>2, <1>3, <2>2, <2>6 DEF Built
<1>8. Probed'
  BY <1>0, <1>2, ProbedKept DEF Probed
<1>9. Compared'
  BY <1>2 DEF Compared
<1>10. Output'
  BY <1>0, <1>2, OutputKept
<1> QED
  BY <1>6, <1>7, <1>8, <1>9, <1>10 DEF IInv

LEMMA BuildArraysStep == IInv /\ BuildArrays => IInv'
<1> SUFFICES ASSUME IInv, BuildArrays PROVE IInv'
  OBVIOUS
<1>0. TypeOK /\ Built /\ Probed /\ Compared /\ Output
  BY DEF IInv
<1> DEFINE r == Least(build_todo)
<1>1. /\ r \in build_todo /\ \A y \in build_todo : r <= y
      /\ build_todo \subseteq Nat /\ BuildRows \subseteq Nat /\ build_todo \subseteq BuildRows
      /\ \A b \in BuildRows : BuildKeys[b] \in Key \cup {NULL}
  BY <1>0, LeastIn, Inputs DEF BuildArrays, TypeOK
<1>2. /\ UNCHANGED <<inputs, probe, loop, output, result, pc, hash_table>>
      /\ BuildKeys[r] # NULL /\ build_todo' = build_todo \ {r} /\ pc = "open" /\ algorithm = "loop"
      /\ build_keys' = Append(build_keys, BuildKeys[r]) /\ build_rows' = Append(build_rows, r)
  BY DEF BuildArrays
<1>3. /\ BuildRows' = BuildRows /\ BuildKeys' = BuildKeys /\ ProbeKeys' = ProbeKeys
      /\ ProbeRows' = ProbeRows /\ algorithm' = algorithm
      /\ UNCHANGED <<from_keys, join_keys, from_rows, join_rows, algorithm, swapped>>
  BY <1>2, InputsFixed
<1> HIDE DEF r
<1>4. /\ build_keys \in Seq(Key) /\ build_rows \in Seq(BuildRows) /\ build_rows \in Seq(Nat)
      /\ r \in BuildRows /\ BuildKeys[r] \in Key
  <2>1. build_keys \in Seq(Key) /\ build_rows \in Seq(BuildRows)
    BY <1>0 DEF TypeOK
  <2>2. build_rows \in Seq(Nat)
    BY <1>1, <2>1, SeqWider
  <2> QED
    BY <1>1, <1>2, <2>1, <2>2
<1>5. /\ build_keys' \in Seq(Key) /\ build_rows' \in Seq(BuildRows)
      /\ Len(build_keys') = Len(build_keys) + 1 /\ Len(build_keys) \in Nat
      /\ Len(build_rows') = Len(build_rows) + 1 /\ Len(build_rows) \in Nat
      /\ \A n \in 1 .. Len(build_keys) : build_keys'[n] = build_keys[n]
      /\ \A n \in 1 .. Len(build_rows) : build_rows'[n] = build_rows[n]
      /\ build_keys'[Len(build_keys) + 1] = BuildKeys[r]
      /\ build_rows'[Len(build_rows) + 1] = r
  BY <1>2, <1>4, AppendFacts
<1>6. TypeOK'
  <2>1. UNCHANGED <<key, lane, mask, matches, probe_next, probe_chunk, output_buffer, output_cursor>>
    BY <1>2 DEF loop, probe, output
  <2>2. lane \in Nat /\ lane <= Len(build_keys) /\ mask \subseteq 1 .. Len(build_keys)
        /\ matches \in Seq(1 .. Len(build_keys))
    BY <1>0 DEF TypeOK
  <2>3. 1 .. Len(build_keys) \subseteq 1 .. Len(build_keys') /\ lane <= Len(build_keys')
    BY <1>5, <2>2
  <2>4. mask \subseteq 1 .. Len(build_keys') /\ matches \in Seq(1 .. Len(build_keys'))
    BY <2>2, <2>3, SeqWider
  <2>5. LoopTypes'
    BY <1>0, <2>1, <2>3, <2>4, Types DEF LoopTypes
  <2>6. BuildTypes'
    BY <1>0, <1>2, <1>3, <1>5, Types DEF BuildTypes
  <2>7. InputTypes' /\ ProbeTypes' /\ OutputTypes' /\ PcType'
    BY <1>0, <1>2, InputTypesKept, ProbeTypesKept, OutputTypesKept, Types DEF PcType
  <2> QED
    BY <2>5, <2>6, <2>7, TypesPrime
<1>7. Built'
  <2>1. \A b \in BuildRows : b \notin build_todo' <=> b \notin build_todo \/ b = r
    BY <1>1, <1>2
  <2>2. \A b \in BuildRows \ build_todo', c \in build_todo' : b < c
    BY <1>0, <1>1, <1>2, NextBuildRow DEF r
  <2>3. \A n \in 1 .. Len(build_rows) : build_rows[n] < r
    <3> TAKE n \in 1 .. Len(build_rows)
    <3>1. build_rows[n] \in BuildRows
      BY <1>4
    <3>2. build_rows[n] \notin build_todo
      BY <1>0, <1>2, <3>1 DEF Built
    <3> QED
      BY <1>0, <1>1, <3>1, <3>2 DEF Built
  <2>4. /\ Ascending(build_rows')
        /\ \A x : (\E n \in 1 .. Len(build_rows') : build_rows'[n] = x)
                     <=> x = r \/ \E n \in 1 .. Len(build_rows) : build_rows[n] = x
    BY <1>0, <1>1, <1>2, <1>4, <2>3, AppendAscending DEF Built
  <2>5. Ascending(build_rows)'
    BY <2>4 DEF Ascending
  <2>6. \A b \in BuildRows :
          (\E n \in 1 .. Len(build_rows') : build_rows'[n] = b)
             <=> b \notin build_todo' /\ BuildKeys[b] # NULL
    BY <1>0, <1>2, <2>1, <2>4 DEF Built
  <2>7. Len(build_keys') = Len(build_rows')
    BY <1>0, <1>2, <1>5 DEF Built
  <2>8. \A n \in 1 .. Len(build_rows') : build_keys'[n] = BuildKeys[build_rows'[n]]
    BY <1>0, <1>2, <1>5 DEF Built
  <2> QED
    BY <1>2, <1>3, <2>2, <2>5, <2>6, <2>7, <2>8 DEF Built
<1>8. Probed'
  BY <1>0, <1>2, ProbedKept DEF Probed
<1>9. Compared'
  BY <1>2 DEF Compared
<1>10. Output'
  BY <1>0, <1>2, OutputKept
<1> QED
  BY <1>6, <1>7, <1>8, <1>9, <1>10 DEF IInv

-----------------------------------------------------------------------------
(* nextChunk: steps of the compare pass.                                   *)

LEMMA CompareBeginStep == IInv /\ CompareBegin => IInv'
<1> SUFFICES ASSUME IInv, CompareBegin PROVE IInv'
  OBVIOUS
<1>0. TypeOK /\ Built /\ Probed /\ Compared /\ Output
  BY DEF IInv
<1>1. /\ UNCHANGED <<inputs, build, probe, output, result>>
      /\ pc = "probe" /\ pc' = "compare" /\ probe_chunk # {} /\ algorithm = "loop"
      /\ key' = ProbeKeys[Least(probe_chunk)] /\ key' # NULL
      /\ lane' = 0 /\ mask' = {} /\ matches' = << >>
  BY DEF CompareBegin
<1>2. /\ UNCHANGED <<build_keys, probe_chunk, algorithm>> /\ ProbeKeys' = ProbeKeys
  BY <1>1, InputsFixed DEF build, probe
<1>3. Least(probe_chunk) \in ProbeRows /\ ProbeKeys[Least(probe_chunk)] \in Key \cup {NULL}
  BY <1>0, <1>1, Inputs, LeastIn DEF TypeOK
<1>4. build_keys \in Seq(Key) /\ Len(build_keys) \in Nat
  BY <1>0 DEF TypeOK
<1>5. LoopTypes'
  BY <1>1, <1>2, <1>3, <1>4 DEF LoopTypes
<1>6. TypeOK'
  BY <1>0, <1>1, <1>5, TypesPrime, InputTypesKept, BuildTypesKept, ProbeTypesKept, OutputTypesKept DEF PcType
<1>7. Built' /\ Probed' /\ Output'
  BY <1>0, <1>1, BuiltKept, ProbedKept, OutputKept
<1>8. Compared'
  BY <1>1, <1>2, <1>4 DEF Compared, Ascending
<1> QED
  BY <1>6, <1>7, <1>8 DEF IInv

(* The facts of the compare pass that its steps share.                     *)
LEMMA InPass ==
    ASSUME TypeOK, Compared, pc = "compare"
    PROVE  /\ Len(build_keys) \in Nat /\ lane \in Nat /\ lane <= Len(build_keys)
           /\ Lanes \in Nat \ {0}
           /\ mask \subseteq 1 .. Len(build_keys) /\ matches \in Seq(1 .. Len(build_keys))
           /\ matches \in Seq(Nat) /\ Len(matches) \in Nat
           /\ \A i \in 1 .. Len(matches) : matches[i] \in 1 .. Len(build_keys) /\ matches[i] <= lane
<1>1. /\ build_keys \in Seq(Key) /\ lane \in Nat /\ lane <= Len(build_keys)
      /\ mask \subseteq 1 .. Len(build_keys) /\ matches \in Seq(1 .. Len(build_keys))
  BY DEF TypeOK
<1>2. Len(build_keys) \in Nat /\ Len(matches) \in Nat
      /\ \A i \in 1 .. Len(matches) : matches[i] \in 1 .. Len(build_keys)
  BY <1>1
<1>3. matches \in Seq(Nat)
  BY <1>1, <1>2, SeqWider
<1>4. \A i \in 1 .. Len(matches) : matches[i] <= lane
  BY <1>2 DEF Compared
<1> QED
  BY <1>1, <1>2, <1>3, <1>4, SizeAssumption

LEMMA CompareLanesStep == IInv /\ CompareLanes => IInv'
<1> SUFFICES ASSUME IInv, CompareLanes PROVE IInv'
  OBVIOUS
<1>0. TypeOK /\ Built /\ Probed /\ Compared /\ Output
  BY DEF IInv
<1>1. /\ UNCHANGED <<inputs, build, probe, output, result>> /\ UNCHANGED <<pc, key, matches>>
      /\ pc = "compare" /\ mask = {} /\ lane + Lanes <= Len(build_keys)
      /\ mask' = {i \in lane + 1 .. lane + Lanes : build_keys[i] = key}
      /\ lane' = lane + Lanes
  BY DEF CompareLanes
<1>2. /\ UNCHANGED <<build_keys, probe_chunk, algorithm>> /\ ProbeKeys' = ProbeKeys
  BY <1>1, InputsFixed DEF build, probe
<1>3. /\ Len(build_keys) \in Nat /\ lane \in Nat /\ lane <= Len(build_keys) /\ Lanes \in Nat \ {0}
      /\ \A i \in 1 .. Len(matches) : matches[i] \in 1 .. Len(build_keys) /\ matches[i] <= lane
  BY <1>0, <1>1, InPass
<1>4. LoopTypes'
  <2>1. mask' \subseteq 1 .. Len(build_keys) /\ lane' \in Nat /\ lane' <= Len(build_keys)
    BY <1>1, <1>3
  <2> QED
    BY <1>0, <1>1, <1>2, <2>1, Types DEF LoopTypes
<1>5. TypeOK'
  BY <1>0, <1>1, <1>4, TypesPrime, Types, InputTypesKept, BuildTypesKept, ProbeTypesKept, OutputTypesKept
  DEF PcType
<1>6. Built' /\ Probed' /\ Output'
  BY <1>0, <1>1, BuiltKept, ProbedKept, OutputKept
<1>7. Compared'
  <2>1. \A n \in 1 .. Len(build_keys) :
          (\E i \in 1 .. Len(matches) : matches[i] = n) <=> n <= lane /\ build_keys[n] = key
    BY <1>0, <1>1 DEF Compared
  <2>2. \A n \in 1 .. Len(build_keys) :
          n \in mask' \/ (\E i \in 1 .. Len(matches) : matches[i] = n)
             <=> n <= lane' /\ build_keys[n] = key
    BY <1>1, <1>3, <2>1
  <2>3. \A i \in 1 .. Len(matches), n \in mask' : matches[i] < n
    BY <1>1, <1>3
  <2> QED
    BY <1>0, <1>1, <1>2, <2>2, <2>3 DEF Compared, Ascending
<1> QED
  BY <1>5, <1>6, <1>7 DEF IInv

LEMMA TakeLaneStep == IInv /\ TakeLane => IInv'
<1> SUFFICES ASSUME IInv, TakeLane PROVE IInv'
  OBVIOUS
<1>0. TypeOK /\ Built /\ Probed /\ Compared /\ Output
  BY DEF IInv
<1> DEFINE l == Least(mask)
<1>1. /\ UNCHANGED <<inputs, build, probe, output, result>> /\ UNCHANGED <<pc, key, lane>>
      /\ pc = "compare" /\ mask # {}
      /\ matches' = Append(matches, l) /\ mask' = mask \ {l}
  BY DEF TakeLane
<1>2. /\ UNCHANGED <<build_keys, probe_chunk, algorithm>> /\ ProbeKeys' = ProbeKeys
  BY <1>1, InputsFixed DEF build, probe
<1>3. /\ Len(build_keys) \in Nat /\ mask \subseteq 1 .. Len(build_keys)
      /\ matches \in Seq(1 .. Len(build_keys)) /\ matches \in Seq(Nat) /\ Len(matches) \in Nat
  BY <1>0, <1>1, InPass
<1>4. l \in mask /\ \A y \in mask : l <= y
  BY <1>1, <1>3, LeastIn
<1> HIDE DEF l
<1>5. LoopTypes'
  <2>1. matches' \in Seq(1 .. Len(build_keys))
    BY <1>1, <1>3, <1>4, AppendFacts
  <2> QED
    BY <1>0, <1>1, <1>2, <2>1, Types DEF LoopTypes
<1>6. TypeOK'
  BY <1>0, <1>1, <1>5, TypesPrime, Types, InputTypesKept, BuildTypesKept, ProbeTypesKept, OutputTypesKept
  DEF PcType
<1>7. Built' /\ Probed' /\ Output'
  BY <1>0, <1>1, BuiltKept, ProbedKept, OutputKept
<1>8. Compared'
  <2>1. /\ Ascending(matches)
        /\ \A i \in 1 .. Len(matches), n \in mask : matches[i] < n
        /\ \A n \in 1 .. Len(build_keys) :
             n \in mask \/ (\E i \in 1 .. Len(matches) : matches[i] = n)
                <=> n <= lane /\ build_keys[n] = key
    BY <1>0, <1>1 DEF Compared
  <2>2. \A i \in 1 .. Len(matches) : matches[i] < l
    BY <1>4, <2>1
  <2>3. /\ Ascending(matches')
        /\ \A x : (\E i \in 1 .. Len(matches') : matches'[i] = x)
                    <=> x = l \/ \E i \in 1 .. Len(matches) : matches[i] = x
    BY <1>1, <1>3, <1>4, <2>1, <2>2, AppendAscending
  <2>4. \A n \in 1 .. Len(build_keys) :
          n \in mask' \/ (\E i \in 1 .. Len(matches') : matches'[i] = n)
             <=> n <= lane /\ build_keys[n] = key
    BY <1>1, <1>4, <2>1, <2>3
  <2>5. ASSUME NEW i \in 1 .. Len(matches'), NEW n \in mask' PROVE matches'[i] < n
    <3>1. n \in mask /\ n # l /\ l <= n /\ n \in Nat /\ l \in Nat
      BY <1>1, <1>3, <1>4
    <3>2. matches'[i] = l \/ \E j \in 1 .. Len(matches) : matches[j] = matches'[i]
      BY <2>3
    <3> QED
      BY <2>1, <3>1, <3>2
  <2>6. Ascending(matches)'
    BY <2>3 DEF Ascending
  <2> QED
    BY <1>0, <1>1, <1>2, <2>4, <2>5, <2>6 DEF Compared
<1> QED
  BY <1>6, <1>7, <1>8 DEF IInv

LEMMA CompareTailStep == IInv /\ CompareTail => IInv'
<1> SUFFICES ASSUME IInv, CompareTail PROVE IInv'
  OBVIOUS
<1>0. TypeOK /\ Built /\ Probed /\ Compared /\ Output
  BY DEF IInv
<1>1. /\ UNCHANGED <<inputs, build, probe, output, result>> /\ UNCHANGED <<pc, key, mask>>
      /\ pc = "compare" /\ mask = {} /\ lane < Len(build_keys)
      /\ matches' = IF build_keys[lane + 1] = key THEN Append(matches, lane + 1) ELSE matches
      /\ lane' = lane + 1
  BY DEF CompareTail
<1>2. /\ UNCHANGED <<build_keys, probe_chunk, algorithm>> /\ ProbeKeys' = ProbeKeys
  BY <1>1, InputsFixed DEF build, probe
<1>3. /\ Len(build_keys) \in Nat /\ lane \in Nat /\ lane + 1 \in 1 .. Len(build_keys)
      /\ matches \in Seq(1 .. Len(build_keys)) /\ matches \in Seq(Nat)
      /\ \A i \in 1 .. Len(matches) : matches[i] \in 1 .. Len(build_keys) /\ matches[i] < lane + 1
  BY <1>0, <1>1, InPass
<1>4. LoopTypes'
  <2>1. Append(matches, lane + 1) \in Seq(1 .. Len(build_keys))
    BY <1>3, AppendFacts
  <2>2. matches' \in Seq(1 .. Len(build_keys))
    BY <1>1, <1>3, <2>1
  <2>3. lane' \in Nat /\ lane' <= Len(build_keys)
    BY <1>1, <1>3
  <2> QED
    BY <1>0, <1>1, <1>2, <2>2, <2>3, Types DEF LoopTypes
<1>5. TypeOK'
  BY <1>0, <1>1, <1>4, TypesPrime, Types, InputTypesKept, BuildTypesKept, ProbeTypesKept, OutputTypesKept
  DEF PcType
<1>6. Built' /\ Probed' /\ Output'
  BY <1>0, <1>1, BuiltKept, ProbedKept, OutputKept
<1>7. Compared'
  <2>1. /\ Ascending(matches)
        /\ \A n \in 1 .. Len(build_keys) :
             (\E i \in 1 .. Len(matches) : matches[i] = n) <=> n <= lane /\ build_keys[n] = key
    BY <1>0, <1>1 DEF Compared
  <2>2. /\ Ascending(Append(matches, lane + 1))
        /\ \A x : (\E i \in 1 .. Len(Append(matches, lane + 1)) : Append(matches, lane + 1)[i] = x)
                    <=> x = lane + 1 \/ \E i \in 1 .. Len(matches) : matches[i] = x
    <3>1. lane + 1 \in Nat /\ \A i \in 1 .. Len(matches) : matches[i] < lane + 1
      BY <1>3
    <3>2. matches \in Seq(Nat) /\ Ascending(matches)
      BY <1>3, <2>1
    <3> QED
      BY <3>1, <3>2, AppendAscending
  <2>3. Ascending(matches') /\ \A n \in 1 .. Len(build_keys) :
          (\E i \in 1 .. Len(matches') : matches'[i] = n) <=> n <= lane' /\ build_keys[n] = key
    <3>1. \A n \in 1 .. Len(build_keys) : n <= lane + 1 <=> n <= lane \/ n = lane + 1
      BY <1>3
    <3>2. CASE build_keys[lane + 1] = key
      BY <1>1, <2>1, <2>2, <3>1, <3>2
    <3>3. CASE build_keys[lane + 1] # key
      BY <1>1, <2>1, <3>1, <3>3
    <3> QED
      BY <3>2, <3>3
  <2>4. Ascending(matches)'
    BY <2>3 DEF Ascending
  <2> QED
    BY <1>0, <1>1, <1>2, <2>3, <2>4 DEF Compared
<1> QED
  BY <1>5, <1>6, <1>7 DEF IInv

-----------------------------------------------------------------------------
(* nextChunk: steps that visit a probe row.                                *)

(* The next probe row, and the rows visited once it is taken.              *)
LEMMA NextProbeRow ==
    ASSUME TypeOK, Probed, probe_chunk # {}, NEW r, r = Least(probe_chunk)
    PROVE  /\ r \in probe_chunk /\ r \in ProbeRows /\ ProbeKeys[r] \in Key \cup {NULL}
           /\ r < probe_next
           /\ \A p \in ProbeRows : Visited(p) => p < r
           /\ \A p \in ProbeRows : p < probe_next /\ p \notin probe_chunk \ {r} <=> Visited(p) \/ p = r
           /\ \A p \in ProbeRows, q \in probe_chunk \ {r} :
                p < probe_next /\ p \notin probe_chunk \ {r} => p < q
<1>1. /\ probe_chunk \subseteq ProbeRows /\ ProbeRows \subseteq Nat /\ probe_chunk \subseteq Nat
      /\ \A p \in ProbeRows : ProbeKeys[p] \in Key \cup {NULL}
  BY Inputs DEF TypeOK
<1>2. r \in probe_chunk /\ \A y \in probe_chunk : r <= y
  BY <1>1, LeastIn
<1>3. r \in ProbeRows /\ ProbeKeys[r] \in Key \cup {NULL}
  BY <1>1, <1>2
<1>4. r < probe_next /\ \A p \in ProbeRows : Visited(p) => p < r
  BY <1>2 DEF Probed
<1>5. \A p \in ProbeRows : p < probe_next /\ p \notin probe_chunk \ {r} <=> Visited(p) \/ p = r
  BY <1>2, <1>4 DEF Visited
<1>6. ASSUME NEW p \in ProbeRows, NEW q \in probe_chunk \ {r}, Visited(p) \/ p = r PROVE p < q
  <2>1. CASE Visited(p)
    BY <2>1 DEF Probed
  <2>2. CASE p = r
    BY <1>1, <1>2, <2>2
  <2> QED
    BY <1>6, <2>1, <2>2
<1> QED
  BY <1>2, <1>3, <1>4, <1>5, <1>6

(* What taking a probe row does to the order of the probe.                 *)
LEMMA ProbeRowTaken ==
    ASSUME TypeOK, Probed, probe_chunk # {}, UNCHANGED <<inputs, probe_next>>,
           probe_chunk' = probe_chunk \ {Least(probe_chunk)}, pc' = "probe"
    PROVE  /\ ProbeTypes' /\ Probed'
           /\ \A p \in ProbeRows : Visited(p)' <=> Visited(p) \/ p = Least(probe_chunk)
<1> DEFINE r == Least(probe_chunk)
<1>1. /\ r \in probe_chunk /\ r < probe_next
      /\ \A p \in ProbeRows : p < probe_next /\ p \notin probe_chunk \ {r} <=> Visited(p) \/ p = r
      /\ \A p \in ProbeRows, q \in probe_chunk \ {r} :
           p < probe_next /\ p \notin probe_chunk \ {r} => p < q
  BY NextProbeRow
<1>2. probe_next' = probe_next /\ probe_chunk' = probe_chunk \ {r} /\ ProbeRows' = ProbeRows
      /\ ProbeSize' = ProbeSize
  BY InputsFixed
<1> HIDE DEF r
<1>3. ProbeTypes'
  BY <1>2, Types DEF ProbeTypes
<1>4. \A p \in ProbeRows : Visited(p)' <=> Visited(p) \/ p = r
  BY <1>1, <1>2 DEF Visited
<1>5. Probed'
  <2>1. \A p \in probe_chunk' : p < probe_next'
    BY <1>2 DEF Probed
  <2>2. \A p \in ProbeRows, q \in probe_chunk' : Visited(p)' => p < q
    BY <1>1, <1>2 DEF Visited
  <2> QED
    BY <1>2, <2>1, <2>2 DEF Probed
<1> QED
  BY <1>3, <1>4, <1>5 DEF r

(* The order of pairs does not depend on the step.                         *)
LEMMA BufferOrder ==
    ASSUME UNCHANGED swapped, AscendingPairs(output_buffer')
    PROVE  AscendingPairs(output_buffer)'
<1>1. CASE swapped
  BY <1>1 DEF AscendingPairs, Before, ProbeOf, BuildOf
<1>2. CASE ~ swapped
  BY <1>2 DEF AscendingPairs, Before, ProbeOf, BuildOf
<1> QED
  BY <1>1, <1>2

LEMMA ResultOrder ==
    ASSUME UNCHANGED swapped, AscendingPairs(result')
    PROVE  AscendingPairs(result)'
<1>1. CASE swapped
  BY <1>1 DEF AscendingPairs, Before, ProbeOf, BuildOf
<1>2. CASE ~ swapped
  BY <1>2 DEF AscendingPairs, Before, ProbeOf, BuildOf
<1> QED
  BY <1>1, <1>2

LEMMA ResultBefore ==
    ASSUME UNCHANGED swapped, \A n \in 1 .. Len(result'), x \in Waiting' : Before(result'[n], x)
    PROVE  \A n \in 1 .. Len(result'), x \in Waiting' : Before(result[n], x)'
<1>1. CASE swapped
  BY <1>1 DEF Before, ProbeOf, BuildOf
<1>2. CASE ~ swapped
  BY <1>2 DEF Before, ProbeOf, BuildOf
<1> QED
  BY <1>1, <1>2

(* When a probe row is taken and paired with an ascending sequence s of    *)
(* its partners, the output stays in order and complete.                   *)
LEMMA PairsBuffered ==
    ASSUME TypeOK, Probed, Output, probe_chunk # {}, UNCHANGED <<inputs, probe_next>>,
           pc \in {"probe", "compare"}, pc' = "probe",
           NEW r, r = Least(probe_chunk), probe_chunk' = probe_chunk \ {r},
           NEW s \in Seq(BuildRows), Ascending(s),
           \A b \in BuildRows : (\E n \in 1 .. Len(s) : s[n] = b) <=> b \in Partners(r),
           UNCHANGED <<output_cursor, result>>,
           output_buffer' = output_buffer \o [n \in 1 .. Len(s) |-> Pair(r, s[n])]
    PROVE  OutputTypes' /\ Output'
<1> DEFINE t == [n \in 1 .. Len(s) |-> Pair(r, s[n])]
           PairSet == from_rows \X join_rows
<1>1. /\ r \in ProbeRows /\ r \in Nat /\ ProbeRows \subseteq Nat /\ BuildRows \subseteq Nat
      /\ \A p \in ProbeRows : Visited(p) => p < r
  BY NextProbeRow, Inputs
<1>2. /\ \A p \in ProbeRows : Visited(p)' <=> Visited(p) \/ p = r
      /\ UNCHANGED <<from_rows, join_rows, swapped>>
      /\ \A p : Partners(p)' = Partners(p)
      /\ PairSet' = PairSet
  BY ProbeRowTaken, InputsFixed
<1>3. /\ Len(s) \in Nat /\ \A n \in 1 .. Len(s) : s[n] \in BuildRows
  OBVIOUS
<1>4. /\ \A n \in 1 .. Len(s) : /\ t[n] \in PairSet /\ t[n] = Pair(r, s[n])
                                 /\ ProbeOf(t[n]) = r /\ BuildOf(t[n]) = s[n]
      /\ t \in Seq(PairSet) /\ Len(t) = Len(s)
  <2>1. \A n \in 1 .. Len(s) : t[n] = Pair(r, s[n])
    OBVIOUS
  <2>2. \A n \in 1 .. Len(s) : Pair(r, s[n]) \in PairSet /\ ProbeOf(Pair(r, s[n])) = r
                               /\ BuildOf(Pair(r, s[n])) = s[n]
    BY <1>1, <1>3, PairFacts
  <2>3. t \in [1 .. Len(s) -> PairSet]
    BY <2>2
  <2> HIDE DEF t
  <2>4. t \in Seq(PairSet) /\ Len(t) = Len(s)
    BY <1>3, <2>3
  <2> QED
    BY <2>1, <2>2, <2>4
<1>5. output_buffer' = output_buffer \o t
  OBVIOUS
<1> HIDE DEF t
<1>6. /\ output_buffer \in Seq(PairSet) /\ result \in Seq(PairSet)
      /\ output_cursor = 0 /\ output_cursor' = 0 /\ result' = result
  BY DEF TypeOK, Output
<1>7. /\ output_buffer' \in Seq(PairSet) /\ Len(output_buffer') = Len(output_buffer) + Len(s)
      /\ Len(output_buffer) \in Nat
      /\ \A n \in 1 .. Len(output_buffer) : output_buffer'[n] = output_buffer[n]
      /\ \A n \in 1 .. Len(s) : output_buffer'[Len(output_buffer) + n] = t[n]
      /\ \A n \in 1 .. Len(output_buffer') :
           \/ n \in 1 .. Len(output_buffer)
           \/ n - Len(output_buffer) \in 1 .. Len(s) /\ output_buffer'[n] = t[n - Len(output_buffer)]
  <2>1. /\ output_buffer \o t \in Seq(PairSet)
        /\ Len(output_buffer \o t) = Len(output_buffer) + Len(t) /\ Len(output_buffer) \in Nat
        /\ \A n \in 1 .. Len(output_buffer) : (output_buffer \o t)[n] = output_buffer[n]
        /\ \A n \in 1 .. Len(t) : (output_buffer \o t)[Len(output_buffer) + n] = t[n]
        /\ \A n \in 1 .. Len(output_buffer) + Len(t) :
             \/ n \in 1 .. Len(output_buffer)
             \/ n - Len(output_buffer) \in 1 .. Len(t)
                /\ (output_buffer \o t)[n] = t[n - Len(output_buffer)]
    BY <1>4, <1>6, ConcatFacts
  <2> QED
    BY <1>4, <1>5, <2>1
<1>8. OutputTypes'
  BY <1>2, <1>6, <1>7 DEF OutputTypes
<1>10. \A x \in VisitedPairs, n \in 1 .. Len(s) : Before(x, t[n])
  BY <1>1, <1>4, PairFacts DEF VisitedPairs, Before
<1>11. /\ \A n \in 1 .. Len(output_buffer) : output_buffer[n] \in Waiting
       /\ \A n \in 1 .. Len(result) : result[n] \in Delivered
       /\ Delivered \subseteq VisitedPairs /\ Waiting \subseteq VisitedPairs
  BY <1>6, <1>7 DEF Waiting, Delivered, Output
<1>12. \A x : x \in Waiting' <=> x \in Waiting \/ \E n \in 1 .. Len(s) : x = t[n]
  <2>1. \A n \in 1 .. Len(s) : Len(output_buffer) + n \in 1 .. Len(output_buffer')
    BY <1>3, <1>7
  <2>2. Waiting = {output_buffer[n] : n \in 1 .. Len(output_buffer)}
    BY <1>6 DEF Waiting
  <2>3. Waiting' = {output_buffer'[n] : n \in 1 .. Len(output_buffer')}
    BY <1>6 DEF Waiting
  <2>4. \A n \in 1 .. Len(output_buffer) : n \in 1 .. Len(output_buffer')
    BY <1>3, <1>7
  <2>5. ASSUME NEW x \in Waiting' PROVE x \in Waiting \/ \E n \in 1 .. Len(s) : x = t[n]
    <3>1. PICK n \in 1 .. Len(output_buffer') : x = output_buffer'[n]
      BY <2>3
    <3>2. CASE n \in 1 .. Len(output_buffer)
      BY <1>7, <2>2, <3>1, <3>2
    <3>3. CASE n - Len(output_buffer) \in 1 .. Len(s) /\ output_buffer'[n] = t[n - Len(output_buffer)]
      BY <3>1, <3>3
    <3> QED
      BY <1>7, <3>2, <3>3
  <2>6. ASSUME NEW x \in Waiting PROVE x \in Waiting'
    <3>1. PICK n \in 1 .. Len(output_buffer) : x = output_buffer[n]
      BY <2>2
    <3> QED
      BY <1>7, <2>3, <2>4, <3>1
  <2>7. ASSUME NEW n \in 1 .. Len(s) PROVE t[n] \in Waiting'
    BY <1>7, <2>1, <2>3
  <2> QED
    BY <2>5, <2>6, <2>7
<1>13. \A x : x \in VisitedPairs' <=> x \in VisitedPairs \/ \E n \in 1 .. Len(s) : x = t[n]
  <2>1. \A x : x \in VisitedPairs' <=>
          /\ x \in PairSet /\ (Visited(ProbeOf(x)) \/ ProbeOf(x) = r)
          /\ BuildOf(x) \in Partners(ProbeOf(x))
    <3>1. \A x : ProbeOf(x)' = ProbeOf(x) /\ BuildOf(x)' = BuildOf(x)
      BY <1>2 DEF ProbeOf, BuildOf
    <3>2. \A x \in PairSet : ProbeOf(x) \in ProbeRows
      BY PairFacts
    <3>3. \A x : x \in VisitedPairs' <=>
            /\ x \in PairSet /\ Visited(ProbeOf(x))' /\ BuildOf(x) \in Partners(ProbeOf(x))
      BY <1>2, <3>1 DEF VisitedPairs
    <3> QED
      BY <1>2, <3>1, <3>2, <3>3
  <2>2. \A x \in PairSet : ProbeOf(x) = r /\ BuildOf(x) \in Partners(ProbeOf(x))
                           <=> \E n \in 1 .. Len(s) : x = t[n]
    <3> TAKE x \in PairSet
    <3>1. x = Pair(ProbeOf(x), BuildOf(x)) /\ BuildOf(x) \in BuildRows
      BY PairFacts
    <3>2. ASSUME ProbeOf(x) = r, BuildOf(x) \in Partners(r) PROVE \E n \in 1 .. Len(s) : x = t[n]
      <4>1. PICK n \in 1 .. Len(s) : s[n] = BuildOf(x)
        BY <3>1, <3>2
      <4>2. x = t[n]
        BY <1>4, <3>1, <3>2, <4>1, Zenon
      <4> QED
        BY <4>2
    <3>3. ASSUME NEW n \in 1 .. Len(s), x = t[n]
          PROVE  ProbeOf(x) = r /\ BuildOf(x) \in Partners(r)
      <4>1. ProbeOf(x) = r /\ BuildOf(x) = s[n] /\ s[n] \in BuildRows
        BY <1>3, <1>4, <3>3, Zenon
      <4> QED
        BY <4>1
    <3> QED
      BY <3>2, <3>3
  <2>3. \A n \in 1 .. Len(s) : t[n] \in PairSet
    BY <1>4
  <2> QED
    BY <2>1, <2>2, <2>3 DEF VisitedPairs
<1>14. Delivered' \cup Waiting' = VisitedPairs'
  BY <1>6, <1>12, <1>13 DEF Output, Delivered
<1>15. AscendingPairs(output_buffer')
  <2>1. ASSUME NEW n \in 1 .. Len(output_buffer'), NEW m \in 1 .. Len(output_buffer'), n < m
        PROVE  Before(output_buffer'[n], output_buffer'[m])
    <3>1. CASE n \in 1 .. Len(output_buffer) /\ m \in 1 .. Len(output_buffer)
      BY <1>7, <2>1, <3>1 DEF Output, AscendingPairs
    <3>2. CASE n \in 1 .. Len(output_buffer) /\ m \notin 1 .. Len(output_buffer)
      BY <1>7, <1>10, <1>11, <3>2
    <3>3. CASE n \notin 1 .. Len(output_buffer)
      <4>1. /\ n - Len(output_buffer) \in 1 .. Len(s) /\ m - Len(output_buffer) \in 1 .. Len(s)
            /\ n - Len(output_buffer) < m - Len(output_buffer)
            /\ output_buffer'[n] = t[n - Len(output_buffer)]
            /\ output_buffer'[m] = t[m - Len(output_buffer)]
        BY <1>3, <1>7, <2>1, <3>3
      <4>2. s[n - Len(output_buffer)] < s[m - Len(output_buffer)]
        BY <4>1 DEF Ascending
      <4> QED
        BY <1>4, <4>1, <4>2 DEF Before
    <3> QED
      BY <3>1, <3>2, <3>3
  <2> QED
    BY <2>1 DEF AscendingPairs
<1>16. \A n \in 1 .. Len(result), x \in Waiting' : Before(result[n], x)
  BY <1>10, <1>11, <1>12 DEF Output
<1>17. /\ AscendingPairs(output_buffer)' /\ AscendingPairs(result)'
       /\ \A n \in 1 .. Len(result'), x \in Waiting' : Before(result[n], x)'
  <2>1. AscendingPairs(output_buffer)'
    BY <1>2, <1>15, BufferOrder
  <2>2. AscendingPairs(result)'
    <3>1. AscendingPairs(result')
      BY <1>6 DEF Output
    <3> QED
      BY <1>2, <3>1, ResultOrder
  <2>3. \A n \in 1 .. Len(result'), x \in Waiting' : Before(result[n], x)'
    BY <1>2, <1>6, <1>16, ResultBefore
  <2> QED
    BY <2>1, <2>2, <2>3
<1> QED
  BY <1>6, <1>8, <1>14, <1>17 DEF Output

LEMMA ProbeNullStep == IInv /\ ProbeNull => IInv'
<1> SUFFICES ASSUME IInv, ProbeNull PROVE IInv'
  OBVIOUS
<1>0. TypeOK /\ Built /\ Probed /\ Compared /\ Output
  BY DEF IInv
<1> DEFINE r == Least(probe_chunk)
<1>1. /\ UNCHANGED <<inputs, pc, build, probe_next, loop, output, result>>
      /\ UNCHANGED <<output_buffer, output_cursor, build_keys>>
      /\ pc = "probe" /\ pc' = "probe" /\ probe_chunk # {} /\ ProbeKeys[r] = NULL
      /\ probe_chunk' = probe_chunk \ {r}
  BY DEF ProbeNull, output, build
<1>2. /\ ProbeTypes' /\ Probed'
      /\ \A p \in ProbeRows : Visited(p)' <=> Visited(p) \/ p = r
  BY <1>0, <1>1, ProbeRowTaken
<1>3. Partners(r) = {}
  BY <1>1 DEF Partners
<1> HIDE DEF r
<1>4. TypeOK'
  BY <1>0, <1>1, <1>2, TypesPrime, Types, InputTypesKept, BuildTypesKept, LoopTypesKept, OutputTypesKept
  DEF PcType
<1>5. Built'
  BY <1>0, <1>1, BuiltKept
<1>6. Compared'
  BY <1>1 DEF Compared
<1>7. Output'
  <2>1. /\ UNCHANGED <<from_rows, join_rows, swapped>> /\ \A p : Partners(p)' = Partners(p)
    BY <1>1, InputsFixed
  <2>2. VisitedPairs' = VisitedPairs
    <3>1. \A x \in from_rows \X join_rows : ProbeOf(x) \in ProbeRows
      BY <1>0, PairFacts
    <3>2. \A x : ProbeOf(x)' = ProbeOf(x) /\ BuildOf(x)' = BuildOf(x)
      BY <2>1 DEF ProbeOf, BuildOf
    <3>3. VisitedPairs' = {x \in from_rows \X join_rows :
                              Visited(ProbeOf(x))' /\ BuildOf(x) \in Partners(ProbeOf(x))}
      BY <2>1, <3>2 DEF VisitedPairs
    <3> QED
      BY <1>2, <1>3, <3>1, <3>2, <3>3 DEF VisitedPairs
  <2>3. Delivered' = Delivered /\ Waiting' = Waiting
    BY <1>1 DEF Delivered, Waiting
  <2>4. /\ AscendingPairs(result)' = AscendingPairs(result)
        /\ AscendingPairs(output_buffer)' = AscendingPairs(output_buffer)
    BY <1>1, <2>1 DEF AscendingPairs, Before, ProbeOf, BuildOf
  <2>5. \A n \in 1 .. Len(result), x \in Waiting : Before(result[n], x)' = Before(result[n], x)
    BY <1>1, <2>1 DEF Before, ProbeOf, BuildOf
  <2>6. \A n \in 1 .. Len(result'), x \in Waiting' : Before(result[n], x)'
    BY <1>0, <1>1, <2>3, <2>5 DEF Output
  <2> QED
    BY <1>0, <1>1, <2>2, <2>3, <2>4, <2>6 DEF Output
<1> QED
  BY <1>2, <1>4, <1>5, <1>6, <1>7 DEF IInv

LEMMA ProbeBucketStep == IInv /\ ProbeBucket => IInv'
<1> SUFFICES ASSUME IInv, ProbeBucket PROVE IInv'
  OBVIOUS
<1>0. TypeOK /\ Built /\ Probed /\ Compared /\ Output
  BY DEF IInv
<1> DEFINE r == Least(probe_chunk)
           text == Text[ProbeKeys[r]]
           bucket == hash_table[text]
<1>1. /\ UNCHANGED <<inputs, pc, build, probe_next, loop, output_cursor, result>>
      /\ UNCHANGED build_keys
      /\ pc = "probe" /\ pc' = "probe" /\ probe_chunk # {} /\ algorithm = "hash"
      /\ ProbeKeys[r] # NULL
      /\ output_buffer' = output_buffer \o [n \in 1 .. Len(bucket) |-> Pair(r, bucket[n])]
      /\ probe_chunk' = probe_chunk \ {r}
  BY DEF ProbeBucket, build
<1>2. ProbeTypes' /\ Probed'
  BY <1>0, <1>1, ProbeRowTaken
<1>3. r \in ProbeRows /\ ProbeKeys[r] \in Key
  BY <1>0, <1>1, NextProbeRow
<1>4. text \in {Text[k] : k \in Key} /\ bucket \in Seq(BuildRows)
  BY <1>0, <1>3 DEF TypeOK
<1>5. /\ Ascending(bucket)
      /\ \A b \in BuildRows : (\E n \in 1 .. Len(bucket) : bucket[n] = b) <=> b \in Partners(r)
  <2>1. /\ Ascending(bucket) /\ build_todo = {}
        /\ \A b \in BuildRows : (\E n \in 1 .. Len(bucket) : bucket[n] = b)
             <=> b \notin build_todo /\ BuildKeys[b] # NULL /\ Text[BuildKeys[b]] = text
    BY <1>0, <1>1, <1>4 DEF Built
  <2>2. \A b \in BuildRows : b \in Partners(r) <=> BuildKeys[b] # NULL /\ Text[BuildKeys[b]] = text
    BY <1>1 DEF Partners, Alike
  <2> QED
    BY <2>1, <2>2
<1> HIDE DEF r, text, bucket
<1>6. OutputTypes' /\ Output'
  BY <1>0, <1>1, <1>4, <1>5, PairsBuffered DEF r
<1>7. TypeOK'
  BY <1>0, <1>1, <1>2, <1>6, TypesPrime, Types, InputTypesKept, BuildTypesKept, LoopTypesKept DEF PcType
<1>8. Built'
  BY <1>0, <1>1, BuiltKept
<1>9. Compared'
  BY <1>1 DEF Compared
<1> QED
  BY <1>2, <1>6, <1>7, <1>8, <1>9 DEF IInv

LEMMA CompareEndStep == IInv /\ CompareEnd => IInv'
<1> SUFFICES ASSUME IInv, CompareEnd PROVE IInv'
  OBVIOUS
<1>0. TypeOK /\ Built /\ Probed /\ Compared /\ Output
  BY DEF IInv
<1> DEFINE r == Least(probe_chunk)
           s == [n \in 1 .. Len(matches) |-> build_rows[matches[n]]]
<1>1. /\ UNCHANGED <<inputs, build, probe_next, loop, output_cursor, result>>
      /\ UNCHANGED build_keys
      /\ pc = "compare" /\ pc' = "probe" /\ mask = {} /\ lane >= Len(build_keys)
      /\ output_buffer' = output_buffer \o
                          [n \in 1 .. Len(matches) |-> Pair(r, build_rows[matches[n]])]
      /\ probe_chunk' = probe_chunk \ {r}
  BY DEF CompareEnd, build
<1>2. /\ probe_chunk # {} /\ algorithm = "loop" /\ key = ProbeKeys[r] /\ key # NULL
      /\ Ascending(matches)
      /\ \A n \in 1 .. Len(build_keys) :
           (\E i \in 1 .. Len(matches) : matches[i] = n) <=> n <= lane /\ build_keys[n] = key
  BY <1>0, <1>1 DEF Compared
<1>3. /\ Len(build_keys) \in Nat /\ lane \in Nat /\ Len(matches) \in Nat
      /\ \A i \in 1 .. Len(matches) : matches[i] \in 1 .. Len(build_keys)
  BY <1>0, <1>1, InPass
<1>4. /\ build_todo = {} /\ Len(build_rows) = Len(build_keys) /\ Ascending(build_rows)
      /\ \A n \in 1 .. Len(build_rows) : build_keys[n] = BuildKeys[build_rows[n]]
      /\ \A b \in BuildRows : (\E n \in 1 .. Len(build_rows) : build_rows[n] = b) <=> BuildKeys[b] # NULL
      /\ build_rows \in Seq(BuildRows)
  BY <1>0, <1>1, <1>2 DEF Built, TypeOK
<1>5. \A n \in 1 .. Len(build_rows) : build_rows[n] \in BuildRows
  BY <1>4
<1>6. /\ s \in Seq(BuildRows) /\ Len(s) = Len(matches)
      /\ \A n \in 1 .. Len(matches) : s[n] = build_rows[matches[n]]
  <2>1. s \in [1 .. Len(matches) -> BuildRows]
    BY <1>3, <1>4, <1>5
  <2>2. \A n \in 1 .. Len(matches) : s[n] = build_rows[matches[n]]
    OBVIOUS
  <2> HIDE DEF s
  <2> QED
    BY <1>3, <2>1, <2>2
<1>7. output_buffer' = output_buffer \o [n \in 1 .. Len(s) |-> Pair(r, s[n])]
  BY <1>1, <1>6
<1> HIDE DEF r, s
<1>8. Ascending(s)
  <2> SUFFICES ASSUME NEW n \in 1 .. Len(s), NEW m \in 1 .. Len(s), n < m
               PROVE  s[n] < s[m]
    BY DEF Ascending
  <2>1. /\ matches[n] < matches[m]
        /\ matches[n] \in 1 .. Len(build_rows) /\ matches[m] \in 1 .. Len(build_rows)
    BY <1>2, <1>3, <1>4, <1>6 DEF Ascending
  <2> QED
    BY <1>4, <1>6, <2>1 DEF Ascending
<1>9. \A b \in BuildRows : (\E n \in 1 .. Len(s) : s[n] = b) <=> b \in Partners(r)
  <2> TAKE b \in BuildRows
  <2>1. b \in Partners(r) <=> BuildKeys[b] # NULL /\ BuildKeys[b] = key
    BY <1>2 DEF Partners, Alike
  <2>2. ASSUME NEW n \in 1 .. Len(s), s[n] = b PROVE b \in Partners(r)
    <3>1. matches[n] \in 1 .. Len(build_keys) /\ b = build_rows[matches[n]]
      BY <1>3, <1>6, <2>2
    <3>2. build_keys[matches[n]] = key
      BY <1>2, <1>6, <3>1
    <3> QED
      BY <1>2, <1>4, <2>1, <3>1, <3>2
  <2>3. ASSUME b \in Partners(r) PROVE \E n \in 1 .. Len(s) : s[n] = b
    <3>1. PICK i \in 1 .. Len(build_rows) : build_rows[i] = b
      BY <1>4, <2>1, <2>3
    <3>2. i <= lane /\ build_keys[i] = key
      BY <1>1, <1>3, <1>4, <2>1, <2>3, <3>1
    <3>3. PICK n \in 1 .. Len(matches) : matches[n] = i
      BY <1>2, <1>4, <3>1, <3>2
    <3> QED
      BY <1>6, <3>1, <3>3
  <2> QED
    BY <2>2, <2>3
<1>10. ProbeTypes' /\ Probed'
  BY <1>0, <1>1, <1>2, ProbeRowTaken DEF r
<1>11. OutputTypes' /\ Output'
  BY <1>0, <1>1, <1>2, <1>6, <1>7, <1>8, <1>9, PairsBuffered DEF r
<1>12. TypeOK'
  BY <1>0, <1>1, <1>10, <1>11, TypesPrime, Types, InputTypesKept, BuildTypesKept, LoopTypesKept DEF PcType
<1>13. Built'
  BY <1>0, <1>1, BuiltKept
<1>14. Compared'
  BY <1>1 DEF Compared
<1> QED
  BY <1>10, <1>11, <1>12, <1>13, <1>14 DEF IInv

-----------------------------------------------------------------------------
(* nextChunk: steps between the chunks.                                    *)

LEMMA ProbeDoneStep == IInv /\ ProbeDone => IInv'
<1> SUFFICES ASSUME IInv, ProbeDone PROVE IInv'
  OBVIOUS
<1>0. TypeOK /\ Built /\ Probed /\ Compared /\ Output
  BY DEF IInv
<1>1. /\ UNCHANGED <<inputs, build, probe, loop, output, result>> /\ UNCHANGED build_keys
      /\ pc = "probe" /\ pc' = "next" /\ probe_chunk = {}
  BY DEF ProbeDone, build
<1>2. TypeOK'
  BY <1>0, <1>1, TypesPrime, InputTypesKept, BuildTypesKept, ProbeTypesKept, LoopTypesKept, OutputTypesKept
  DEF PcType
<1>3. Built' /\ Probed' /\ Output'
  BY <1>0, <1>1, BuiltKept, ProbedKept, OutputKept
<1>4. Compared'
  BY <1>1 DEF Compared
<1> QED
  BY <1>2, <1>3, <1>4 DEF IInv

(* When the buffer is cleared at its end and no probe row is taken yet,    *)
(* the output stays in order and complete.                                 *)
LEMMA BufferCleared ==
    ASSUME TypeOK, Output, output_cursor >= Len(output_buffer), UNCHANGED <<inputs, result>>,
           output_buffer' = << >>, output_cursor' = 0,
           \A p \in ProbeRows : Visited(p)' <=> Visited(p),
           pc' = "open" => probe_next' = 0
    PROVE  OutputTypes' /\ Output'
<1>1. /\ UNCHANGED <<from_rows, join_rows, swapped>> /\ \A p : Partners(p)' = Partners(p)
  BY InputsFixed
<1>2. /\ result \in Seq(from_rows \X join_rows) /\ Len(output_buffer) \in Nat
      /\ output_cursor \in Nat
  BY DEF TypeOK
<1>3. OutputTypes'
  <2>1. Len(<< >>) = 0 /\ << >> \in Seq(from_rows \X join_rows)
    OBVIOUS
  <2> QED
    BY <1>1, <1>2, <2>1 DEF OutputTypes
<1>4. Waiting = {} /\ Waiting' = {}
  <2>1. Len(output_buffer') = 0
    OBVIOUS
  <2> QED
    BY <1>2, <2>1 DEF Waiting
<1>5. Delivered' = Delivered
  BY DEF Delivered
<1>6. VisitedPairs' = VisitedPairs
  <2>1. \A x \in from_rows \X join_rows : ProbeOf(x) \in ProbeRows
    BY PairFacts
  <2>2. \A x : ProbeOf(x)' = ProbeOf(x) /\ BuildOf(x)' = BuildOf(x)
    BY <1>1 DEF ProbeOf, BuildOf
  <2>3. VisitedPairs' = {x \in from_rows \X join_rows :
                            Visited(ProbeOf(x))' /\ BuildOf(x) \in Partners(ProbeOf(x))}
    BY <1>1, <2>2 DEF VisitedPairs
  <2> QED
    BY <2>1, <2>2, <2>3 DEF VisitedPairs
<1>7. AscendingPairs(result)'
  BY <1>1 DEF Output, AscendingPairs, Before, ProbeOf, BuildOf
<1>8. AscendingPairs(output_buffer)'
  BY DEF AscendingPairs
<1>9. \A n \in 1 .. Len(result'), x \in Waiting' : Before(result[n], x)'
  BY <1>4
<1>10. Delivered' \cup Waiting' = VisitedPairs'
  BY <1>4, <1>5, <1>6 DEF Output
<1> QED
  BY <1>3, <1>7, <1>8, <1>9, <1>10 DEF Output

LEMMA PullProbeStep == IInv /\ PullProbe => IInv'
<1> SUFFICES ASSUME IInv, PullProbe PROVE IInv'
  OBVIOUS
<1>0. TypeOK /\ Built /\ Probed /\ Compared /\ Output
  BY DEF IInv
<1> DEFINE count == Smaller(BatchSize, Cardinality(DOMAIN ProbeKeys) - probe_next)
<1>1. /\ UNCHANGED <<inputs, build, loop, result>> /\ UNCHANGED build_keys
      /\ pc = "next" /\ pc' = "probe" /\ output_cursor >= Len(output_buffer)
      /\ probe_next < ProbeSize /\ output_buffer' = << >> /\ output_cursor' = 0
      /\ probe_chunk' = (probe_next .. probe_next + count - 1) \cap ProbeRows
      /\ probe_next' = probe_next + count
  BY DEF PullProbe, build, ProbeSize
<1>2. /\ ProbeRows \subseteq Nat /\ ProbeSize \in Nat /\ probe_next \in Nat
      /\ BatchSize \in Nat \ {0}
  BY <1>0, Inputs, SizeAssumption DEF TypeOK
<1>3. count \in Nat /\ count > 0 /\ probe_next + count <= ProbeSize
  BY <1>1, <1>2 DEF Smaller, ProbeSize
<1> HIDE DEF count
<1>4. ProbeRows' = ProbeRows /\ ProbeSize' = ProbeSize
  BY <1>1, InputsFixed
<1>5. probe_chunk = {}
  BY <1>0, <1>1 DEF Probed
<1>6. \A p \in ProbeRows : Visited(p)' <=> Visited(p)
  BY <1>1, <1>2, <1>3, <1>5 DEF Visited
<1>7. ProbeTypes'
  BY <1>1, <1>2, <1>3, <1>4 DEF ProbeTypes
<1>8. Probed'
  <2>1. \A p \in probe_chunk' : p < probe_next'
    BY <1>1, <1>2, <1>3
  <2>2. \A p \in ProbeRows, q \in probe_chunk' : Visited(p)' => p < q
    <3>1. \A p \in ProbeRows : Visited(p)' => p < probe_next
      BY <1>6 DEF Visited
    <3>2. \A q \in probe_chunk' : probe_next <= q /\ q \in Nat
      BY <1>1, <1>2
    <3> QED
      BY <1>2, <3>1, <3>2
  <2> QED
    BY <1>1, <1>4, <2>1, <2>2 DEF Probed
<1>9. OutputTypes' /\ Output'
  BY <1>0, <1>1, <1>6, BufferCleared
<1>10. TypeOK'
  BY <1>0, <1>1, <1>7, <1>9, TypesPrime, InputTypesKept, BuildTypesKept, LoopTypesKept DEF PcType
<1>11. Built'
  BY <1>0, <1>1, BuiltKept
<1>12. Compared'
  BY <1>1 DEF Compared
<1> QED
  BY <1>8, <1>9, <1>10, <1>11, <1>12 DEF IInv

LEMMA ProbeExhaustedStep == IInv /\ ProbeExhausted => IInv'
<1> SUFFICES ASSUME IInv, ProbeExhausted PROVE IInv'
  OBVIOUS
<1>0. TypeOK /\ Built /\ Probed /\ Compared /\ Output
  BY DEF IInv
<1>1. /\ UNCHANGED <<inputs, build, probe, loop, result>> /\ UNCHANGED build_keys
      /\ UNCHANGED <<probe_next, probe_chunk>>
      /\ pc = "next" /\ pc' = "done" /\ output_cursor >= Len(output_buffer)
      /\ probe_next >= ProbeSize /\ output_buffer' = << >> /\ output_cursor' = 0
  BY DEF ProbeExhausted, build, probe, ProbeSize
<1>2. ProbeRows' = ProbeRows /\ ProbeSize' = ProbeSize
  BY <1>1, InputsFixed
<1>3. probe_next = ProbeSize
  <2>1. probe_next \in Nat /\ probe_next <= ProbeSize
    BY <1>0, Types DEF ProbeTypes
  <2>2. ProbeSize \in Nat
    BY <1>0, Inputs
  <2> QED
    BY <1>1, <2>1, <2>2
<1>4. \A p \in ProbeRows : Visited(p)' <=> Visited(p)
  BY <1>1 DEF Visited
<1>5. Probed'
  BY <1>0, <1>1, <1>2, <1>3 DEF Probed, Visited
<1>6. OutputTypes' /\ Output'
  BY <1>0, <1>1, <1>4, BufferCleared
<1>7. TypeOK'
  BY <1>0, <1>1, <1>6, TypesPrime, InputTypesKept, BuildTypesKept, ProbeTypesKept, LoopTypesKept DEF PcType
<1>8. Built'
  BY <1>0, <1>1, BuiltKept
<1>9. Compared'
  BY <1>1 DEF Compared
<1> QED
  BY <1>5, <1>6, <1>7, <1>8, <1>9 DEF IInv

(* A slice of a sequence.                                                  *)
LEMMA SliceFacts ==
    ASSUME NEW T, NEW s \in Seq(T), NEW a \in Nat, NEW k \in Nat, a + k <= Len(s)
    PROVE  /\ SubSeq(s, a + 1, a + k) \in Seq(T) /\ Len(SubSeq(s, a + 1, a + k)) = k
           /\ \A n \in 1 .. k : SubSeq(s, a + 1, a + k)[n] = s[a + n]
<1>1. Len(s) \in Nat /\ \A n \in 1 .. Len(s) : s[n] \in T
  OBVIOUS
<1>2. SubSeq(s, a + 1, a + k) = [n \in 1 .. k |-> s[a + n]]
  <2>1. SubSeq(s, a + 1, a + k) = [n \in 1 .. (1 + (a + k) - (a + 1)) |-> s[n + (a + 1) - 1]]
    OBVIOUS
  <2>2. 1 + (a + k) - (a + 1) = k /\ \A n \in 1 .. k : n + (a + 1) - 1 = a + n
    OBVIOUS
  <2> QED
    BY <2>1, <2>2
<1> DEFINE t == [n \in 1 .. k |-> s[a + n]]
<1>3. t \in [1 .. k -> T] /\ \A n \in 1 .. k : t[n] = s[a + n]
  BY <1>1
<1>4. SubSeq(s, a + 1, a + k) = t
  BY <1>2
<1> HIDE DEF t
<1>5. t \in Seq(T) /\ Len(t) = k
  BY <1>3
<1> QED
  BY <1>3, <1>4, <1>5

LEMMA EmitSliceStep == IInv /\ EmitSlice => IInv'
<1> SUFFICES ASSUME IInv, EmitSlice PROVE IInv'
  OBVIOUS
<1>0. TypeOK /\ Built /\ Probed /\ Compared /\ Output
  BY DEF IInv
<1> DEFINE batch == Smaller(BatchSize, Len(output_buffer) - output_cursor)
           slice == SubSeq(output_buffer, output_cursor + 1, output_cursor + batch)
           PairSet == from_rows \X join_rows
<1>1. /\ UNCHANGED <<inputs, build, probe, loop>> /\ UNCHANGED <<pc, build_keys, output_buffer>>
      /\ UNCHANGED <<probe_next, probe_chunk>>
      /\ pc = "next" /\ output_cursor < Len(output_buffer)
      /\ result' = result \o slice /\ output_cursor' = output_cursor + batch
  BY DEF EmitSlice, build, probe
<1>2. /\ output_buffer \in Seq(PairSet) /\ result \in Seq(PairSet)
      /\ output_cursor \in Nat /\ Len(output_buffer) \in Nat /\ BatchSize \in Nat \ {0}
  BY <1>0, SizeAssumption DEF TypeOK
<1>3. batch \in Nat /\ output_cursor + batch <= Len(output_buffer)
  BY <1>1, <1>2 DEF Smaller
<1> HIDE DEF batch
<1>4. /\ slice \in Seq(PairSet) /\ Len(slice) = batch
      /\ \A n \in 1 .. batch : slice[n] = output_buffer[output_cursor + n]
  <2> DEFINE from == output_cursor
             s == output_buffer
  <2>1. s \in Seq(PairSet) /\ from \in Nat /\ from + batch <= Len(s)
    BY <1>2, <1>3
  <2> HIDE DEF from, s, PairSet
  <2>2. /\ SubSeq(s, from + 1, from + batch) \in Seq(PairSet) /\ Len(SubSeq(s, from + 1, from + batch)) = batch
        /\ \A n \in 1 .. batch : SubSeq(s, from + 1, from + batch)[n] = s[from + n]
    BY <1>3, <2>1, SliceFacts
  <2> QED
    BY <2>2 DEF from, s
<1> HIDE DEF slice
<1>5. /\ result' \in Seq(PairSet) /\ Len(result') = Len(result) + batch /\ Len(result) \in Nat
      /\ \A n \in 1 .. Len(result) : result'[n] = result[n]
      /\ \A n \in 1 .. batch : result'[Len(result) + n] = output_buffer[output_cursor + n]
      /\ \A n \in 1 .. Len(result') :
           \/ n \in 1 .. Len(result)
           \/ /\ n - Len(result) \in 1 .. batch
              /\ result'[n] = output_buffer[output_cursor + (n - Len(result))]
  <2>1. /\ result \o slice \in Seq(PairSet)
        /\ Len(result \o slice) = Len(result) + Len(slice) /\ Len(result) \in Nat
        /\ \A n \in 1 .. Len(result) : (result \o slice)[n] = result[n]
        /\ \A n \in 1 .. Len(slice) : (result \o slice)[Len(result) + n] = slice[n]
        /\ \A n \in 1 .. Len(result) + Len(slice) :
             \/ n \in 1 .. Len(result)
             \/ n - Len(result) \in 1 .. Len(slice) /\ (result \o slice)[n] = slice[n - Len(result)]
    <3>1. result \in Seq(PairSet) /\ slice \in Seq(PairSet)
      BY <1>2, <1>4
    <3> HIDE DEF PairSet
    <3> QED
      BY <3>1, ConcatFacts
  <2> QED
    BY <1>1, <1>4, <2>1
<1>6. UNCHANGED <<from_rows, join_rows, swapped>> /\ \A p : Partners(p)' = Partners(p)
  BY <1>1, InputsFixed
<1>7. OutputTypes'
  BY <1>1, <1>2, <1>3, <1>5, <1>6 DEF OutputTypes
<1>8. VisitedPairs' = VisitedPairs
  BY <1>1, <1>6 DEF VisitedPairs, Visited, ProbeOf, BuildOf
<1>9. /\ \A n \in 1 .. batch : output_cursor + n \in output_cursor + 1 .. Len(output_buffer)
      /\ \A m \in output_cursor' + 1 .. Len(output_buffer) :
           /\ m \in output_cursor + 1 .. Len(output_buffer)
           /\ \A n \in 1 .. batch : output_cursor + n < m
      /\ \A m \in output_cursor + 1 .. Len(output_buffer) :
           \/ m \in output_cursor' + 1 .. Len(output_buffer)
           \/ m - output_cursor \in 1 .. batch /\ output_cursor + (m - output_cursor) = m
  BY <1>1, <1>2, <1>3
<1>10. Waiting' = {output_buffer[n] : n \in output_cursor' + 1 .. Len(output_buffer)}
  BY <1>1 DEF Waiting
<1>11. Waiting' \subseteq Waiting /\ \A n \in 1 .. batch : output_buffer[output_cursor + n] \in Waiting
  BY <1>9, <1>10 DEF Waiting
<1>12. \A x : x \in Delivered' <=>
         x \in Delivered \/ \E n \in 1 .. batch : x = output_buffer[output_cursor + n]
  <2>1. ASSUME NEW x \in Delivered'
        PROVE  x \in Delivered \/ \E n \in 1 .. batch : x = output_buffer[output_cursor + n]
    <3>1. PICK n \in 1 .. Len(result') : x = result'[n]
      BY DEF Delivered
    <3>2. CASE n \in 1 .. Len(result)
      BY <1>5, <3>1, <3>2 DEF Delivered
    <3>3. CASE n \notin 1 .. Len(result)
      BY <1>5, <3>1, <3>3
    <3> QED
      BY <3>2, <3>3
  <2>2. ASSUME NEW x \in Delivered PROVE x \in Delivered'
    <3>1. PICK n \in 1 .. Len(result) : x = result[n]
      BY DEF Delivered
    <3>2. n \in 1 .. Len(result') /\ x = result'[n]
      BY <1>3, <1>5, <3>1
    <3> QED
      BY <3>2 DEF Delivered
  <2>3. ASSUME NEW n \in 1 .. batch PROVE output_buffer[output_cursor + n] \in Delivered'
    <3>1. Len(result) + n \in 1 .. Len(result')
      BY <1>3, <1>5
    <3> QED
      BY <1>5, <3>1 DEF Delivered
  <2> QED
    BY <2>1, <2>2, <2>3
<1>13. \A x \in Waiting : x \in Waiting' \/ \E n \in 1 .. batch : x = output_buffer[output_cursor + n]
  <2> TAKE x \in Waiting
  <2>1. PICK m \in output_cursor + 1 .. Len(output_buffer) : x = output_buffer[m]
    BY DEF Waiting
  <2>2. CASE m \in output_cursor' + 1 .. Len(output_buffer)
    BY <1>10, <2>1, <2>2
  <2>3. CASE m - output_cursor \in 1 .. batch /\ output_cursor + (m - output_cursor) = m
    BY <2>1, <2>3
  <2> QED
    BY <1>9, <2>2, <2>3
<1>14. Delivered' \cup Waiting' = VisitedPairs'
  BY <1>0, <1>8, <1>11, <1>12, <1>13 DEF Output
<1>15. /\ AscendingPairs(output_buffer) /\ AscendingPairs(result)
       /\ \A n \in 1 .. Len(result), x \in Waiting : Before(result[n], x)
  BY <1>0 DEF Output
<1>16. \A n, m \in 1 .. Len(output_buffer) : n < m => Before(output_buffer[n], output_buffer[m])
  BY <1>15 DEF AscendingPairs
<1>17. AscendingPairs(result')
  <2>1. ASSUME NEW n \in 1 .. Len(result'), NEW m \in 1 .. Len(result'), n < m
        PROVE  Before(result'[n], result'[m])
    <3>1. CASE n \in 1 .. Len(result) /\ m \in 1 .. Len(result)
      BY <1>5, <1>15, <2>1, <3>1 DEF AscendingPairs
    <3>2. CASE n \in 1 .. Len(result) /\ m \notin 1 .. Len(result)
      <4>1. /\ m - Len(result) \in 1 .. batch
            /\ result'[m] = output_buffer[output_cursor + (m - Len(result))]
        BY <1>5, <3>2
      <4> QED
        BY <1>5, <1>11, <1>15, <3>2, <4>1
    <3>3. CASE n \notin 1 .. Len(result)
      <4>1. /\ n - Len(result) \in 1 .. batch /\ m - Len(result) \in 1 .. batch
            /\ n - Len(result) < m - Len(result)
            /\ result'[n] = output_buffer[output_cursor + (n - Len(result))]
            /\ result'[m] = output_buffer[output_cursor + (m - Len(result))]
        BY <1>3, <1>5, <2>1, <3>3
      <4>2. /\ output_cursor + (n - Len(result)) \in 1 .. Len(output_buffer)
            /\ output_cursor + (m - Len(result)) \in 1 .. Len(output_buffer)
            /\ output_cursor + (n - Len(result)) < output_cursor + (m - Len(result))
        <5> DEFINE from == output_cursor
                   k == n - Len(result)
                   l == m - Len(result)
        <5>1. /\ from \in Nat /\ Len(output_buffer) \in Nat /\ from + batch <= Len(output_buffer)
              /\ k \in 1 .. batch /\ l \in 1 .. batch /\ k < l /\ batch \in Nat
          BY <1>2, <1>3, <4>1
        <5> HIDE DEF from, k, l
        <5>2. from + k \in 1 .. Len(output_buffer) /\ from + l \in 1 .. Len(output_buffer) /\ from + k < from + l
          BY <5>1
        <5> QED
          BY <5>2 DEF from, k, l
      <4> QED
        BY <1>16, <4>1, <4>2
    <3> QED
      BY <3>1, <3>2, <3>3
  <2> QED
    BY <2>1 DEF AscendingPairs
<1>18. \A n \in 1 .. Len(result'), x \in Waiting' : Before(result'[n], x)
  <2> SUFFICES ASSUME NEW n \in 1 .. Len(result'), NEW x \in Waiting' PROVE Before(result'[n], x)
    OBVIOUS
  <2>1. CASE n \in 1 .. Len(result)
    BY <1>5, <1>11, <1>15, <2>1
  <2>2. CASE n \notin 1 .. Len(result)
    <3>1. /\ n - Len(result) \in 1 .. batch
          /\ result'[n] = output_buffer[output_cursor + (n - Len(result))]
      BY <1>5, <2>2
    <3>2. PICK m \in output_cursor' + 1 .. Len(output_buffer) : x = output_buffer[m]
      BY <1>10
    <3>3. /\ m \in 1 .. Len(output_buffer)
          /\ output_cursor + (n - Len(result)) \in 1 .. Len(output_buffer)
          /\ output_cursor + (n - Len(result)) < m
      BY <1>1, <1>2, <1>3, <3>1, <3>2
    <3> QED
      BY <1>16, <3>1, <3>2, <3>3
  <2> QED
    BY <2>1, <2>2
<1>19. Output'
  <2>1. AscendingPairs(result)' /\ AscendingPairs(output_buffer)'
    BY <1>1, <1>6, <1>15, <1>17, ResultOrder, BufferOrder
  <2>2. \A n \in 1 .. Len(result'), x \in Waiting' : Before(result[n], x)'
    BY <1>6, <1>18, ResultBefore
  <2> QED
    BY <1>0, <1>1, <1>14, <2>1, <2>2 DEF Output
<1>20. TypeOK'
  BY <1>0, <1>1, <1>7, TypesPrime, Types, InputTypesKept, BuildTypesKept, ProbeTypesKept, LoopTypesKept
  DEF PcType
<1>21. Built' /\ Probed'
  <2>1. pc # "open" /\ pc' # "open" /\ pc' # "done"
    BY <1>1
  <2>2. Built'
    BY <1>0, <1>1, <2>1, BuiltKept
  <2>3. probe_chunk = {}
    BY <1>0, <1>1 DEF Probed
  <2>4. Probed'
    BY <1>0, <1>1, <2>1, <2>3, ProbedKept
  <2> QED
    BY <2>2, <2>4
<1>22. Compared'
  BY <1>1 DEF Compared
<1> QED
  BY <1>19, <1>20, <1>21, <1>22 DEF IInv

-----------------------------------------------------------------------------
(* The theorems.                                                           *)

LEMMA StepInv == IInv /\ [Next]_vars => IInv'
<1> SUFFICES ASSUME IInv, [Next]_vars PROVE IInv'
  OBVIOUS
<1>1. CASE UNCHANGED vars
  <2>1. /\ UNCHANGED <<inputs, build, probe, loop, output>> /\ UNCHANGED <<pc, result, build_keys>>
    BY <1>1 DEF vars, build
  <2>2. TypeOK /\ Built /\ Probed /\ Compared /\ Output
    BY DEF IInv
  <2>3. TypeOK'
    BY <2>1, <2>2, TypesPrime, Types, InputTypesKept, BuildTypesKept, ProbeTypesKept, LoopTypesKept,
       OutputTypesKept DEF PcType
  <2>4. Built' /\ Compared'
    BY <1>1, <2>2 DEF vars, inputs, build, probe, loop, Built, Compared, Ascending, BuildRows,
       BuildKeys, ProbeKeys
  <2>5. Probed'
    BY <2>1, <2>2, ProbedKept DEF Probed
  <2>6. Output'
    BY <2>1, <2>2, OutputKept
  <2> QED
    BY <2>3, <2>4, <2>5, <2>6 DEF IInv
<1>2. CASE Next
  BY <1>1, <1>2, BuildNullStep, BuildBucketStep, BuildArraysStep, BuildDoneStep, PullProbeStep,
     ProbeExhaustedStep, ProbeNullStep, ProbeBucketStep, CompareBeginStep, CompareLanesStep,
     TakeLaneStep, CompareTailStep, CompareEndStep, ProbeDoneStep, EmitSliceStep DEF Next, Exhausted
<1> QED
  BY <1>1, <1>2

(* The invariant holds of every behaviour of the joins.                    *)
THEOREM Invariance == Spec => []IInv
<1>1. Init => IInv
  BY InitInv
<1>2. IInv /\ [Next]_vars => IInv'
  BY StepInv
<1> QED
  BY <1>1, <1>2, PTL DEF Spec

(* The types: a lane never runs past the keys, a cursor never past the     *)
(* buffer, and every pair is one of a FROM row and a JOIN row.             *)
THEOREM TypeCorrect == Spec => []TypeOK
<1>1. IInv => TypeOK
  BY DEF IInv
<1> QED
  BY <1>1, Invariance, PTL

(* A position in two digits orders by the first, then by the second.       *)
LEMMA TwoDigits ==
    ASSUME NEW M \in Nat, NEW p \in Nat, NEW q \in Nat, NEW b \in Nat, NEW c \in Nat, b < M,
           p < q \/ (p = q /\ b < c)
    PROVE  p * M + b < q * M + c
<1>1. CASE p < q
  <2>1. PICK d \in Nat : q = p + 1 + d
    <3>1. q - p - 1 \in Nat /\ q = p + 1 + (q - p - 1)
      BY <1>1
    <3> QED
      BY <3>1
  <2>2. q * M = p * M + M + d * M
    BY <2>1
  <2>3. p * M \in Nat /\ d * M \in Nat
    BY <2>1
  <2> QED
    BY <2>2, <2>3
<1>2. CASE p = q /\ b < c
  <2>1. p * M \in Nat
    OBVIOUS
  <2> QED
    BY <1>2, <2>1
<1> QED
  BY <1>1, <1>2

(* Ranks order the pairs as Before does.                                   *)
LEMMA RankOrder ==
    ASSUME TypeOK, NEW x \in from_rows \X join_rows, NEW y \in from_rows \X join_rows, Before(x, y)
    PROVE  Rank(x) \in Nat /\ Rank(y) \in Nat /\ Rank(x) < Rank(y)
<1>1. /\ from_rows \subseteq 0 .. MaxFrom - 1 /\ join_rows \subseteq 0 .. MaxJoin - 1
      /\ MaxFrom \in Nat /\ MaxJoin \in Nat
  BY Inputs, SizeAssumption
<1>2. /\ x[1] \in Nat /\ x[1] < MaxFrom /\ x[2] \in Nat /\ x[2] < MaxJoin
      /\ y[1] \in Nat /\ y[2] \in Nat
  <2>1. x[1] \in from_rows /\ x[2] \in join_rows /\ y[1] \in from_rows /\ y[2] \in join_rows
    OBVIOUS
  <2>2. /\ x[1] \in 0 .. MaxFrom - 1 /\ x[2] \in 0 .. MaxJoin - 1
        /\ y[1] \in 0 .. MaxFrom - 1 /\ y[2] \in 0 .. MaxJoin - 1
    BY <1>1, <2>1
  <2> QED
    BY <1>1, <2>2
<1>3. /\ x[2] * MaxFrom \in Nat /\ y[2] * MaxFrom \in Nat
      /\ x[1] * MaxJoin \in Nat /\ y[1] * MaxJoin \in Nat
  BY <1>1, <1>2
<1>4. CASE swapped
  <2>1. x[2] < y[2] \/ (x[2] = y[2] /\ x[1] < y[1])
    BY <1>4 DEF Before, ProbeOf, BuildOf
  <2>2. x[2] * MaxFrom + x[1] < y[2] * MaxFrom + y[1]
    BY <1>1, <1>2, <2>1, TwoDigits
  <2> QED
    BY <1>2, <1>3, <1>4, <2>2 DEF Rank
<1>5. CASE ~ swapped
  <2>1. x[1] < y[1] \/ (x[1] = y[1] /\ x[2] < y[2])
    BY <1>5 DEF Before, ProbeOf, BuildOf
  <2>2. x[1] * MaxJoin + x[2] < y[1] * MaxJoin + y[2]
    BY <1>1, <1>2, <2>1, TwoDigits
  <2> QED
    BY <1>2, <1>3, <1>5, <2>2 DEF Rank
<1> QED
  BY <1>4, <1>5

(* Two pairs come one before the other, so no two have the same rank.      *)
LEMMA OneBefore ==
    ASSUME TypeOK, NEW x \in from_rows \X join_rows, NEW y \in from_rows \X join_rows, x # y
    PROVE  (Before(x, y) \/ Before(y, x)) /\ Rank(x) # Rank(y)
<1>1. /\ ProbeOf(x) \in ProbeRows /\ BuildOf(x) \in BuildRows /\ x = Pair(ProbeOf(x), BuildOf(x))
      /\ ProbeOf(y) \in ProbeRows /\ BuildOf(y) \in BuildRows /\ y = Pair(ProbeOf(y), BuildOf(y))
  BY PairFacts
<1>2. ProbeRows \subseteq Nat /\ BuildRows \subseteq Nat
  BY Inputs
<1>3. ProbeOf(x) # ProbeOf(y) \/ BuildOf(x) # BuildOf(y)
  BY <1>1
<1>4. Before(x, y) \/ Before(y, x)
  <2>1. ProbeOf(x) \in Nat /\ ProbeOf(y) \in Nat /\ BuildOf(x) \in Nat /\ BuildOf(y) \in Nat
    BY <1>1, <1>2
  <2> QED
    BY <1>3, <2>1 DEF Before
<1> QED
  BY <1>4, RankOrder

(* Pairs come out in the order of probe rows, then build rows, so none     *)
(* comes out twice: nextChunk walks buckets and matches in build order and *)
(* cuts its buffer where the last slice ended.                             *)
THEOREM InOrderTheorem == Spec => []InOrder
<1>1. IInv => InOrder
  <2> SUFFICES ASSUME IInv, NEW n \in 1 .. Len(result) - 1
               PROVE  Rank(result[n]) < Rank(result[n + 1])
    BY DEF InOrder
  <2>0. TypeOK /\ AscendingPairs(result)
    BY DEF IInv, Output
  <2>1. n \in 1 .. Len(result) /\ n + 1 \in 1 .. Len(result) /\ n < n + 1
        /\ result \in Seq(from_rows \X join_rows)
    BY <2>0 DEF TypeOK
  <2>2. result[n] \in from_rows \X join_rows /\ result[n + 1] \in from_rows \X join_rows
    BY <2>1
  <2>3. Before(result[n], result[n + 1])
    BY <2>0, <2>1 DEF AscendingPairs
  <2> QED
    BY <2>0, <2>2, <2>3, RankOrder
<1> QED
  BY <1>1, Invariance, PTL

(* What the two algorithms compute whatever the keys are: at the end the   *)
(* pairs of rows whose keys have the same text (hash) or are the same      *)
(* (loop), neither being NULL.                                             *)
AlikePairs == {x \in from_rows \X join_rows : BuildOf(x) \in Partners(ProbeOf(x))}

DeliversAlike == pc = "done" => Delivered = AlikePairs

(* All of them are delivered when no probe row and no pair is left.        *)
LEMMA AllDelivered ==
    ASSUME IInv, probe_chunk = {}, probe_next = ProbeSize, output_cursor >= Len(output_buffer)
    PROVE  Delivered = AlikePairs
<1>0. TypeOK /\ Output
  BY DEF IInv
<1>1. \A p \in ProbeRows : Visited(p)
  BY <1>0, Inputs DEF Visited
<1>2. VisitedPairs = AlikePairs
  BY <1>0, <1>1, PairFacts DEF VisitedPairs, AlikePairs
<1>3. Waiting = {}
  <2>1. Len(output_buffer) \in Nat /\ output_cursor \in 0 .. Len(output_buffer)
    BY <1>0 DEF TypeOK
  <2>2. output_cursor + 1 .. Len(output_buffer) = {}
    BY <2>1
  <2> QED
    BY <2>2 DEF Waiting
<1> QED
  BY <1>0, <1>2, <1>3 DEF Output

(* Whatever the keys are: the hash join delivers the pairs whose keys have *)
(* one text, the loop join those whose keys are one value.                 *)
THEOREM DeliversAlikeTheorem == Spec => []DeliversAlike
<1>1. IInv => DeliversAlike
  <2> SUFFICES ASSUME IInv, pc = "done" PROVE Delivered = AlikePairs
    BY DEF DeliversAlike
  <2>1. probe_chunk = {} /\ probe_next = ProbeSize
    BY DEF IInv, Probed
  <2>2. output_cursor >= Len(output_buffer)
    <3>1. output_buffer = << >> /\ Len(<< >>) = 0 /\ output_cursor \in 0 .. Len(output_buffer)
      BY DEF IInv, Output, TypeOK
    <3> QED
      BY <3>1
  <2> QED
    BY <2>1, <2>2, AllDelivered
<1> QED
  BY <1>1, Invariance, PTL

(* The keys for which the algorithms that may be chosen are right: texts,  *)
(* or bits, tell apart just what SQL's = tells apart.  INTs and STRINGs    *)
(* are such keys; DOUBLEs, printed with 15 digits, are not.                *)
Faithful ==
    /\ "hash" \in Algorithms => \A k, l \in Key : Text[k] = Text[l] <=> <<k, l>> \in Equal
    /\ "loop" \in Algorithms => \A k, l \in Key : k = l <=> <<k, l>> \in Equal

(* Of such keys those held alike are those that are equal.                 *)
LEMMA AlikeIsEqual ==
    ASSUME Faithful, TypeOK
    PROVE  AlikePairs = Matching
<1>1. /\ \A p \in ProbeRows : ProbeKeys[p] \in Key \cup {NULL}
      /\ \A b \in BuildRows : BuildKeys[b] \in Key \cup {NULL}
      /\ algorithm \in Algorithms /\ algorithm \in {"hash", "loop"} /\ NULL \notin Key
  BY Inputs, AlgorithmAssumption, KeyAssumption DEF TypeOK
<1>2. \A k, l \in Key : Alike(k, l) <=> <<k, l>> \in Equal
  BY <1>1 DEF Alike, Faithful
<1>3. \A k, l \in Key : Alike(k, l) <=> Alike(l, k)
  BY DEF Alike
<1>4. \A k, l : <<k, l>> \in Equal => k \in Key /\ l \in Key
  BY EqualAssumption
<1>5. ASSUME NEW x \in from_rows \X join_rows
      PROVE  BuildOf(x) \in Partners(ProbeOf(x)) <=> <<from_keys[x[1]], join_keys[x[2]]>> \in Equal
  <2>1. ProbeOf(x) \in ProbeRows /\ BuildOf(x) \in BuildRows
    BY PairFacts
  <2>2. BuildOf(x) \in Partners(ProbeOf(x)) <=>
          /\ BuildKeys[BuildOf(x)] \in Key /\ ProbeKeys[ProbeOf(x)] \in Key
          /\ Alike(BuildKeys[BuildOf(x)], ProbeKeys[ProbeOf(x)])
    BY <1>1, <2>1 DEF Partners
  <2>3. CASE swapped
    <3>1. BuildKeys[BuildOf(x)] = from_keys[x[1]] /\ ProbeKeys[ProbeOf(x)] = join_keys[x[2]]
      BY <2>3 DEF BuildKeys, ProbeKeys, BuildOf, ProbeOf
    <3> QED
      BY <1>2, <1>4, <2>2, <3>1
  <2>4. CASE ~ swapped
    <3>1. BuildKeys[BuildOf(x)] = join_keys[x[2]] /\ ProbeKeys[ProbeOf(x)] = from_keys[x[1]]
      BY <2>4 DEF BuildKeys, ProbeKeys, BuildOf, ProbeOf
    <3> QED
      BY <1>2, <1>3, <1>4, <2>2, <3>1
  <2> QED
    BY <2>3, <2>4
<1> QED
  BY <1>5 DEF AlikePairs, Matching

(* With such keys the join delivers exactly the pairs that the ON          *)
(* condition asks for, whichever algorithm runs and whichever side builds. *)
THEOREM JoinExactTheorem ==
    ASSUME Faithful
    PROVE  Spec => []JoinExact
<1>1. IInv /\ DeliversAlike => JoinExact
  BY AlikeIsEqual DEF IInv, DeliversAlike, JoinExact
<1> QED
  BY <1>1, Invariance, DeliversAlikeTheorem, PTL

-----------------------------------------------------------------------------
(* Refinement: to its parent a join is a stream of the matching pairs.     *)

Ranks(pairs) == {Rank(pair) : pair \in pairs}

LEMMA InitStream ==
    ASSUME Init
    PROVE  Stream!Init
<1>1. result = << >> /\ pc = "open"
  BY DEF Init
<1>2. Delivered = {}
  BY <1>1 DEF Delivered
<1> QED
  BY <1>1, <1>2 DEF Stream!Init

(* A slice adds at least one pair behind those handed up.                  *)
LEMMA SliceGrows ==
    ASSUME TypeOK, EmitSlice
    PROVE  /\ Len(result) \in Nat /\ Len(result') \in Nat /\ Len(result) < Len(result')
           /\ \A n \in 1 .. Len(result) : result'[n] = result[n]
<1> DEFINE batch == Smaller(BatchSize, Len(output_buffer) - output_cursor)
           slice == SubSeq(output_buffer, output_cursor + 1, output_cursor + batch)
           PairSet == from_rows \X join_rows
<1>1. output_cursor < Len(output_buffer) /\ result' = result \o slice
  BY DEF EmitSlice
<1>2. /\ output_buffer \in Seq(PairSet) /\ result \in Seq(PairSet)
      /\ output_cursor \in Nat /\ Len(output_buffer) \in Nat /\ BatchSize \in Nat \ {0}
  BY SizeAssumption DEF TypeOK
<1>3. batch \in Nat \ {0} /\ output_cursor + batch <= Len(output_buffer)
  BY <1>1, <1>2 DEF Smaller
<1> HIDE DEF batch, PairSet
<1>4. slice \in Seq(PairSet) /\ Len(slice) = batch
  BY <1>2, <1>3, SliceFacts
<1> HIDE DEF slice
<1>5. /\ Len(result \o slice) = Len(result) + batch /\ Len(result) \in Nat
      /\ \A n \in 1 .. Len(result) : (result \o slice)[n] = result[n]
  <2>1. /\ Len(result \o slice) = Len(result) + Len(slice) /\ Len(result) \in Nat
        /\ \A n \in 1 .. Len(result) : (result \o slice)[n] = result[n]
    <3>1. result \in Seq(PairSet) /\ slice \in Seq(PairSet)
      BY <1>2, <1>4
    <3> QED
      BY <3>1, ConcatFacts
  <2> QED
    BY <1>4, <2>1
<1> QED
  BY <1>1, <1>3, <1>5

(* It holds the next matching pairs: the rest of the buffer comes later,   *)
(* and so do the pairs of probe rows that have not been visited.           *)
LEMMA SliceStreams ==
    ASSUME Faithful, IInv, IInv', EmitSlice
    PROVE  Stream!Emit
<1> USE DEF Stream!query
<1> DEFINE new == Delivered' \ Delivered
           PairSet == from_rows \X join_rows
<1>0. TypeOK /\ Probed /\ Output /\ Output' /\ TypeOK'
  BY DEF IInv
<1>1. /\ pc = "next" /\ pc' = "next" /\ UNCHANGED inputs /\ UNCHANGED <<probe_next, probe_chunk>>
      /\ probe_chunk = {}
  BY <1>0 DEF EmitSlice, probe, Probed
<1>2. /\ UNCHANGED <<from_keys, join_keys, from_rows, join_rows, swapped>>
      /\ ProbeSize' = ProbeSize /\ \A p : Partners(p)' = Partners(p)
  BY <1>1, InputsFixed
<1>3. Matching' = Matching /\ \A x : Rank(x)' = Rank(x)
  BY <1>2 DEF Matching, Rank
<1>4. VisitedPairs' = VisitedPairs /\ VisitedPairs \subseteq Matching /\ Matching \subseteq PairSet
  <2>1. VisitedPairs' = VisitedPairs
    BY <1>1, <1>2 DEF VisitedPairs, Visited, ProbeOf, BuildOf
  <2>2. VisitedPairs \subseteq AlikePairs
    BY DEF VisitedPairs, AlikePairs
  <2> QED
    BY <1>0, <2>1, <2>2, AlikeIsEqual DEF Matching
<1>5. Delivered' \cup Waiting' = VisitedPairs /\ Delivered \subseteq VisitedPairs
  BY <1>0, <1>4 DEF Output
<1>6. Delivered \subseteq Delivered'
  <2> SUFFICES ASSUME NEW x \in Delivered PROVE x \in Delivered'
    OBVIOUS
  <2>1. PICK n \in 1 .. Len(result) : x = result[n]
    BY DEF Delivered
  <2>2. n \in 1 .. Len(result') /\ x = result'[n]
    BY <1>0, <2>1, SliceGrows
  <2> QED
    BY <2>2 DEF Delivered
<1>7. new # {}
  <2> DEFINE last == Len(result')
  <2>1. last \in 1 .. Len(result') /\ \A n \in 1 .. Len(result) : n \in 1 .. Len(result') /\ n < last /\ result'[n] = result[n]
    BY <1>0, SliceGrows
  <2> HIDE DEF last
  <2>2. result'[last] \in Delivered'
    BY <2>1 DEF Delivered
  <2>3. \A n \in 1 .. Len(result) : Before(result'[n], result'[last])
    <3>1. AscendingPairs(result')
      BY <1>0, <1>2 DEF Output, AscendingPairs, Before, ProbeOf, BuildOf
    <3> QED
      BY <2>1, <3>1 DEF AscendingPairs
  <2>4. result'[last] \in PairSet
    BY <1>4, <1>5, <2>2
  <2>5. ~ Before(result'[last], result'[last])
    <3>1. ProbeOf(result'[last]) \in Nat /\ BuildOf(result'[last]) \in Nat
      BY <1>0, <2>4, PairFacts, Inputs
    <3> QED
      BY <3>1 DEF Before
  <2>6. result'[last] \notin Delivered
    BY <2>1, <2>3, <2>5 DEF Delivered
  <2> QED
    BY <2>2, <2>6
<1>8. ASSUME NEW x \in new, NEW y \in Matching \ Delivered'
      PROVE  Before(x, y)
  <2>1. x \in VisitedPairs /\ x \in PairSet /\ y \in PairSet
    BY <1>4, <1>5
  <2>2. CASE y \in VisitedPairs
    <3>1. y \in Waiting'
      BY <1>5, <2>2
    <3>2. PICK n \in 1 .. Len(result') : x = result'[n]
      BY DEF Delivered
    <3>3. Before(result[n], y)'
      BY <1>0, <3>1, <3>2 DEF Output
    <3>4. Before(result[n], y)' <=> Before(x, y)
      BY <1>2, <3>2 DEF Before, ProbeOf, BuildOf
    <3> QED
      BY <3>3, <3>4
  <2>3. CASE y \notin VisitedPairs
    <3>1. BuildOf(y) \in Partners(ProbeOf(y))
      BY <1>0, AlikeIsEqual DEF AlikePairs
    <3>2. ~ Visited(ProbeOf(y)) /\ Visited(ProbeOf(x))
      BY <2>1, <2>3, <3>1 DEF VisitedPairs
    <3>3. ProbeOf(x) \in Nat /\ ProbeOf(y) \in Nat /\ probe_next \in Nat
      BY <1>0, <2>1, PairFacts, Inputs DEF TypeOK
    <3> QED
      BY <1>1, <3>2, <3>3 DEF Visited, Before
  <2> QED
    BY <2>2, <2>3
<1> HIDE DEF PairSet
<1>9. Ranks(Delivered)' = Ranks(Delivered) \cup Ranks(new)
  <2>1. Delivered' = Delivered \cup new
    BY <1>6
  <2>2. Ranks(Delivered)' = Ranks(Delivered')
    BY <1>3 DEF Ranks
  <2> HIDE DEF new
  <2> QED
    BY <2>1, <2>2 DEF Ranks
<1>10. \A x, y \in Matching : Rank(x) = Rank(y) => x = y
  BY <1>0, <1>4, OneBefore DEF PairSet
<1>11. new \subseteq Matching /\ Delivered \subseteq Matching /\ new \cap Delivered = {}
  BY <1>4, <1>5
<1> HIDE DEF new
<1>12. Ranks(new) \subseteq Ranks(Matching) \ Ranks(Delivered)
  BY <1>10, <1>11 DEF Ranks
<1>13. \A r \in Ranks(new), q \in (Ranks(Matching) \ Ranks(Delivered)) \ Ranks(new) : r < q
  <2> TAKE r \in Ranks(new), q \in (Ranks(Matching) \ Ranks(Delivered)) \ Ranks(new)
  <2>1. PICK x \in new : r = Rank(x)
    BY DEF Ranks
  <2>2. PICK y \in Matching : q = Rank(y) /\ y \notin Delivered /\ y \notin new
    BY DEF Ranks
  <2>3. y \notin Delivered'
    BY <1>6, <2>2 DEF new
  <2>4. Before(x, y)
    BY <1>8, <2>2, <2>3
  <2> QED
    BY <1>0, <1>4, <1>11, <2>1, <2>2, <2>4, RankOrder DEF PairSet
<1>14. Ranks(new) # {}
  BY <1>7 DEF Ranks, new
<1>15. Stream!NextRows(Ranks(new))
  BY <1>12, <1>13 DEF Stream!NextRows, Ranks
<1>16. \A n : Stream!Fits(n)
  BY DEF Stream!Fits
<1>17. Ranks(Matching)' = Ranks(Matching)
  BY <1>3 DEF Ranks
<1>18. Ranks(new) \in SUBSET (Ranks(Matching) \ Ranks(Delivered))
  BY <1>12
<1> QED
  BY <1>1, <1>9, <1>14, <1>15, <1>16, <1>17, <1>18 DEF Stream!Emit, Ranks

LEMMA StreamStep ==
    ASSUME Faithful, IInv, IInv', [Next]_vars
    PROVE  [Stream!Next]_(Stream!stream)
<1> USE DEF Stream!stream, Stream!query
<1>1. CASE EmitSlice
  BY <1>1, SliceStreams DEF Stream!Next
<1>2. ASSUME UNCHANGED <<inputs, result>>
      PROVE  /\ {Rank(pair) : pair \in Matching}' = {Rank(pair) : pair \in Matching}
             /\ {Rank(pair) : pair \in Delivered}' = {Rank(pair) : pair \in Delivered}
  <2>1. UNCHANGED <<from_keys, join_keys, from_rows, join_rows, swapped>>
    BY <1>2, InputsFixed
  <2> QED
    BY <1>2, <2>1 DEF Matching, Delivered, Rank
<1>3. CASE ProbeExhausted
  <2>1. /\ pc = "next" /\ pc' = "done" /\ UNCHANGED <<inputs, result>>
        /\ output_cursor >= Len(output_buffer) /\ probe_next >= ProbeSize
    BY <1>3 DEF ProbeExhausted, ProbeSize
  <2>2. probe_chunk = {} /\ probe_next = ProbeSize
    <3>1. probe_chunk = {} /\ probe_next \in Nat /\ probe_next <= ProbeSize
      BY <2>1 DEF IInv, Probed, TypeOK, ProbeSize
    <3>2. ProbeSize \in Nat
      BY Inputs DEF IInv
    <3> QED
      BY <2>1, <3>1, <3>2
  <2>3. Delivered = Matching
    BY <2>1, <2>2, AllDelivered, AlikeIsEqual DEF IInv
  <2>4. Stream!Exhausted
    BY <2>3 DEF Stream!Exhausted
  <2>5. Stream!Finish
    BY <1>2, <2>1, <2>4 DEF Stream!Finish
  <2> QED
    BY <2>5 DEF Stream!Next
<1>4. CASE ~ EmitSlice /\ ~ ProbeExhausted
  <2>1. UNCHANGED <<inputs, result>> /\ (pc' = "done" <=> pc = "done")
    BY <1>4 DEF Next, vars, BuildNull, BuildBucket, BuildArrays, BuildDone, PullProbe, ProbeNull, ProbeBucket,
       CompareBegin, CompareLanes, TakeLane, CompareTail, CompareEnd, ProbeDone, Exhausted
  <2> QED
    BY <1>2, <2>1
<1> QED
  BY <1>1, <1>3, <1>4

(* The join implements the stream of rows that its parent expects: every   *)
(* chunk holds the next matching pairs, none twice and none skipped, and   *)
(* the end comes only when none is left.                                   *)
THEOREM Refinement ==
    ASSUME Faithful
    PROVE  Spec => Implements
<1>1. Init => Stream!Init
  BY InitStream
<1>2. IInv /\ IInv' /\ [Next]_vars => [Stream!Next]_(Stream!stream)
  BY StreamStep
<1> QED
  BY <1>1, <1>2, Invariance, PTL DEF Spec, Implements, Stream!Spec

-----------------------------------------------------------------------------
(* JoinQuery: the inductive invariant.                                     *)

Members(s) == {s[n] : n \in DOMAIN s}

BoundConjunct(c) == [n \in DOMAIN c |-> [left |-> Bound(c[n].left), right |-> Bound(c[n].right)]]
AllResolvable(c) == \A ref \in RefsOf(c) : Resolvable(ref)

Bound2 == {"push", "run", "done"}      \* all of the statement is bound
Bound1 == {"on"} \cup Bound2           \* all but the join condition

TypeInv ==
    /\ at \in {"open", "where", "error"} \cup Bound1
    /\ range_table \in [Slot -> Relations]
    /\ \A s \in Slot : rows[s] \subseteq [Columns(s) -> Value]
    /\ typed.select \in Selects /\ typed.select \in RefType /\ typed.where \in Seq(Seq(Equality))
    /\ typed.on \in RefType \X RefType
    /\ where \in Seq(Seq(Equality)) /\ Len(where) = Len(typed.where)
    /\ todo \in 1 .. Len(where) + 1
    /\ optimize \in BOOLEAN /\ ordered \in BOOLEAN

(* What has been bound is the resolution of what was typed.                *)
BoundSoFar ==
    /\ at = "open" => select = typed.select /\ todo = 1
    /\ at \in {"where"} \cup Bound1 =>
          /\ range_table[0].ref_name # range_table[1].ref_name
          /\ Resolvable(typed.select) /\ select = Resolved(typed.select)
    /\ at \in {"open", "where"} => \A n \in 1 .. Len(where) :
          IF n < todo THEN where[n] = BoundConjunct(typed.where[n]) /\ AllResolvable(typed.where[n])
          ELSE where[n] = typed.where[n]
    /\ at \in Bound1 => \A n \in 1 .. Len(where) :
          where[n] = BoundConjunct(typed.where[n]) /\ AllResolvable(typed.where[n])
    /\ at \in {"open", "where", "on"} => on = typed.on
    /\ at \in Bound1 /\ ordered => Resolvable(select) /\ order_key = Resolved(select)
    /\ at \in Bound2 =>
          /\ Resolvable(typed.on[1]) /\ Resolvable(typed.on[2]) /\ Meant(typed.on[1]) # Meant(typed.on[2])
          /\ on = <<Resolved(typed.on[1]), Resolved(typed.on[2])>>

(* The conjuncts of one side that have been visited are below the join,    *)
(* those of both or neither above it.                                      *)
Handled(class) == {where[n] : n \in {m \in 1 .. Len(where) :
                                        (at = "push" => m < todo) /\ Classify(where[m]) = class}}

Pushed ==
    /\ from_p \in Seq(Seq(Equality)) /\ join_p \in Seq(Seq(Equality)) /\ residual_p \in Seq(Seq(Equality))
    /\ at = "push" => optimize
    /\ at \notin Bound2 \/ ~ optimize => from_p = << >> /\ join_p = << >> /\ residual_p = << >>
    /\ at \in Bound2 /\ optimize =>
          /\ Members(from_p) = Handled("from")
          /\ Members(join_p) = {Restamped(c) : c \in Handled("join")}
          /\ Members(residual_p) = Handled("residual")

(* A valid statement can be rejected only for an unqualified select list   *)
(* whose alias ORDER BY names.                                             *)
Rejected == at = "error" => ~ Valid \/ (ordered /\ typed.select.table_name = Unqualified)

QueryInv == TypeInv /\ BoundSoFar /\ Pushed /\ Rejected /\ PlanExact /\ OrderExact

-----------------------------------------------------------------------------
(* References and what they resolve to.                                    *)

Operand == RefType \cup [literal : Value]

(* A record of three fields is a reference, one of a literal is none.      *)
LEMMA Kinds ==
    /\ \A x \in RefType : IsRef(x)
    /\ \A x \in [literal : Value] : ~ IsRef(x) /\ x.literal \in Int
BY ValueAssumption DEF RefType, IsRef

LEMMA OperandKinds ==
    ASSUME NEW x \in Operand
    PROVE  /\ IsRef(x) => x \in RefType
           /\ ~ IsRef(x) => x \in [literal : Value] /\ x.literal \in Int
BY Kinds DEF Operand

(* A resolvable reference has one candidate, the relation it means.        *)
LEMMA OneCandidate ==
    ASSUME NEW x, Resolvable(x)
    PROVE  /\ Candidates(x) = {Meant(x)} /\ Meant(x) \in Slot
           /\ x.table_name \in {Unqualified, range_table[Meant(x)].ref_name}
           /\ x.column_name \in Columns(Meant(x))
<1>1. IsFiniteSet(Slot) /\ Candidates(x) \subseteq Slot
  <2>1. IsFiniteSet({0})
    BY FS_Singleton
  <2>2. IsFiniteSet({0} \cup {1})
    BY <2>1, FS_AddElement
  <2>3. {0} \cup {1} = Slot
    BY DEF Slot
  <2> QED
    BY <2>2, <2>3 DEF Candidates
<1>2. IsFiniteSet(Candidates(x))
  BY <1>1, FS_Subset
<1>3. PICK s : Candidates(x) = {s}
  BY <1>2, FS_Singleton DEF Resolvable
<1>4. Meant(x) = s
  BY <1>3 DEF Meant
<1>5. Meant(x) \in Candidates(x)
  BY <1>3, <1>4
<1> QED
  BY <1>1, <1>3, <1>4, <1>5 DEF Candidates

(* Its resolution carries that slot and keeps the column.                  *)
LEMMA ResolvedFacts ==
    ASSUME NEW x \in RefType, Resolvable(x), range_table \in [Slot -> Relations]
    PROVE  /\ Resolved(x) \in RefType
           /\ Resolved(x).column_name = x.column_name
           /\ Resolved(x).relation_slot = Meant(x)
           /\ Resolved(x).table_name = IF x.table_name = Unqualified
                                       THEN range_table[Meant(x)].table_name ELSE x.table_name
<1> DEFINE slot == Meant(x)
           name == IF x.table_name = Unqualified THEN range_table[slot].table_name ELSE x.table_name
<1>1. slot \in Slot
  BY OneCandidate
<1>2. name \in STRING
  <2>1. range_table[slot] \in Relations
    BY <1>1
  <2>2. range_table[slot].table_name \in STRING
    BY <2>1, RelationAssumption
  <2> QED
    BY <2>2 DEF RefType
<1>3. Resolved(x) = [x EXCEPT !.relation_slot = slot, !.table_name = name]
  BY DEF Resolved, Meant
<1>4. Resolved(x) = [table_name |-> name, column_name |-> x.column_name, relation_slot |-> slot]
  BY <1>3 DEF RefType
<1> HIDE DEF slot, name
<1>5. [table_name |-> name, column_name |-> x.column_name, relation_slot |-> slot] \in RefType
  BY <1>1, <1>2 DEF RefType
<1> QED
  BY <1>4, <1>5 DEF slot, name

LEMMA BoundFacts ==
    ASSUME NEW x \in Operand, IsRef(x) => Resolvable(x), range_table \in [Slot -> Relations]
    PROVE  /\ Bound(x) \in Operand
           /\ IsRef(Bound(x)) <=> IsRef(x)
           /\ IsRef(x) => Bound(x) = Resolved(x)
           /\ ~ IsRef(x) => Bound(x) = x
<1>1. CASE IsRef(x)
  <2>1. x \in RefType
    BY <1>1, OperandKinds
  <2>2. Resolved(x) \in RefType
    BY <1>1, <2>1, ResolvedFacts
  <2> QED
    BY <1>1, <2>2, Kinds DEF Bound, Operand
<1>2. CASE ~ IsRef(x)
  BY <1>2 DEF Bound
<1> QED
  BY <1>1, <1>2

(* Bound and restamped conjuncts, equality by equality.                    *)
LEMMA Operands ==
    ASSUME NEW c \in Seq(Equality), NEW n \in DOMAIN c
    PROVE  /\ c[n].left \in RefType /\ c[n].left \in Operand /\ c[n].right \in Operand
           /\ c[n].left \in RefsOf(c)
           /\ IsRef(c[n].right) => c[n].right \in RefsOf(c)
<1>1. c[n] \in Equality
  BY DEF Seq
<1>2. c[n].left \in RefType /\ c[n].right \in Operand
  BY <1>1 DEF Equality, Operand
<1>3. IsRef(c[n].left)
  BY <1>2, Kinds
<1>4. {c[n].left, c[n].right} \subseteq UNION {{c[m].left, c[m].right} : m \in DOMAIN c}
  OBVIOUS
<1> QED
  BY <1>2, <1>3, <1>4 DEF RefsOf, Operand

LEMMA RefsAre ==
    ASSUME NEW c \in Seq(Equality), NEW x \in RefsOf(c)
    PROVE  /\ x \in RefType
           /\ \E n \in DOMAIN c : x = c[n].left \/ (x = c[n].right /\ IsRef(c[n].right))
<1>1. IsRef(x) /\ \E n \in DOMAIN c : x \in {c[n].left, c[n].right}
  BY DEF RefsOf
<1>2. PICK n \in DOMAIN c : x \in {c[n].left, c[n].right}
  BY <1>1
<1>3. x \in Operand
  BY <1>2, Operands
<1> QED
  BY <1>1, <1>2, <1>3, OperandKinds

-----------------------------------------------------------------------------
(* Looking a column up, and what it holds.                                 *)

Column(s, name, slot) == [of |-> s, column_name |-> name, relation_slot |-> slot]

LEMMA LookupScan ==
    ASSUME NEW s \in Slot, NEW ref, ref.column_name \in Columns(s) \cap Required, ref.relation_slot = 0
    PROVE  Lookup(ref, ScanSchema(s)) = {Column(s, ref.column_name, 0)}
<1> DEFINE col   == Column(s, ref.column_name, 0)
           same  == {c \in ScanSchema(s) : c.column_name = ref.column_name}
           exact == {c \in same : c.relation_slot = ref.relation_slot}
<1>1. col \in ScanSchema(s) /\ col.column_name = ref.column_name /\ col.relation_slot = 0
  BY DEF ScanSchema, Column
<1>2. \A c \in ScanSchema(s) : c.column_name = ref.column_name => c = col
  BY DEF ScanSchema, Column
<1>3. exact = {col}
  <2> HIDE DEF col
  <2> QED
    BY <1>1, <1>2
<1>4. exact # {}
  BY <1>3
<1> QED
  BY <1>3, <1>4 DEF Lookup

LEMMA LookupMerged ==
    ASSUME NEW s \in Slot, NEW ref, ref.column_name \in Columns(s) \cap Required, ref.relation_slot = s
    PROVE  Lookup(ref, MergedSchema) = {Column(s, ref.column_name, s)}
<1> DEFINE col   == Column(s, ref.column_name, s)
           same  == {c \in MergedSchema : c.column_name = ref.column_name}
           exact == {c \in same : c.relation_slot = ref.relation_slot}
<1>1. \A c : c \in MergedSchema <=>
        \E z \in Slot : \E name \in Columns(z) \cap Required : c = Column(z, name, z)
  <2>1. \A c \in ScanSchema(1) : [c EXCEPT !.relation_slot = 1] = Column(1, c.column_name, 1)
    BY DEF ScanSchema, Column
  <2>2. \A c : c \in ScanSchema(0) <=> \E name \in Columns(0) \cap Required : c = Column(0, name, 0)
    BY DEF ScanSchema, Column
  <2>3. \A c : (\E d \in ScanSchema(1) : c = [d EXCEPT !.relation_slot = 1])
               <=> \E name \in Columns(1) \cap Required : c = Column(1, name, 1)
    <3>1. \A name \in Columns(1) \cap Required :
            Column(1, name, 0) \in ScanSchema(1) /\ Column(1, name, 0).column_name = name
      BY DEF ScanSchema, Column
    <3>2. \A d \in ScanSchema(1) : d.column_name \in Columns(1) \cap Required
      BY DEF ScanSchema
    <3>3. ASSUME NEW d \in ScanSchema(1)
          PROVE  \E name \in Columns(1) \cap Required : [d EXCEPT !.relation_slot = 1] = Column(1, name, 1)
      BY <2>1, <3>2
    <3>4. ASSUME NEW name \in Columns(1) \cap Required
          PROVE  \E d \in ScanSchema(1) : Column(1, name, 1) = [d EXCEPT !.relation_slot = 1]
      <4>1. [Column(1, name, 0) EXCEPT !.relation_slot = 1] = Column(1, name, 1)
        BY <2>1, <3>1
      <4> QED
        BY <3>1, <4>1
    <3> QED
      BY <3>3, <3>4, Zenon
  <2> QED
    BY <2>2, <2>3 DEF MergedSchema, Slot
<1>2. \A z, name, slot : /\ Column(z, name, slot).column_name = name
                         /\ Column(z, name, slot).relation_slot = slot
  BY DEF Column
<1>3. col \in MergedSchema
  BY <1>1
<1>4. exact = {col}
  <2>1. \A c \in exact : c = col
    BY <1>1, <1>2
  <2> QED
    BY <1>2, <1>3, <2>1
<1>5. exact # {}
  BY <1>4
<1> QED
  BY <1>4, <1>5 DEF Lookup

Paired(pair)   == [s \in Slot |-> pair[s + 1]]
Alone(s, pair) == [x \in {s} |-> pair[s + 1]]

(* Above the join a bound operand is worth what the typed one means.       *)
LEMMA WorthMerged ==
    ASSUME NEW x \in Operand, IsRef(x) => Resolvable(x) /\ x.column_name \in Required,
           range_table \in [Slot -> Relations], NEW pair
    PROVE  Worth(Bound(x), MergedSchema, Paired(pair)) = Means(x, pair)
<1>1. CASE IsRef(x)
  <2>1. x \in RefType /\ Meant(x) \in Slot /\ x.column_name \in Columns(Meant(x))
    BY <1>1, OperandKinds, OneCandidate
  <2>2. /\ Bound(x) = Resolved(x) /\ IsRef(Bound(x))
        /\ Resolved(x).column_name = x.column_name /\ Resolved(x).relation_slot = Meant(x)
    BY <1>1, <2>1, BoundFacts, ResolvedFacts
  <2> DEFINE col == Column(Meant(x), x.column_name, Meant(x))
  <2>3. Lookup(Bound(x), MergedSchema) = {col}
    BY <1>1, <2>1, <2>2, LookupMerged
  <2>4. col.of = Meant(x) /\ col.column_name = x.column_name
    BY DEF Column
  <2> HIDE DEF col
  <2>5. (CHOOSE c \in Lookup(Bound(x), MergedSchema) : TRUE) = col
    BY <2>3
  <2>6. Worth(Bound(x), MergedSchema, Paired(pair)) = Paired(pair)[Meant(x)][x.column_name]
    BY <2>2, <2>4, <2>5 DEF Worth
  <2> QED
    BY <1>1, <2>1, <2>6 DEF Paired, Means
<1>2. CASE ~ IsRef(x)
  BY <1>2, BoundFacts DEF Worth, Means
<1> QED
  BY <1>1, <1>2

(* On the scan of relation s, an operand y with slot 0 is worth what the   *)
(* typed x means.                                                          *)
LEMMA WorthScan ==
    ASSUME NEW s \in Slot, NEW x \in Operand, NEW y,
           IsRef(x) => /\ Resolvable(x) /\ x.column_name \in Required /\ Meant(x) = s
                       /\ IsRef(y) /\ y.column_name = x.column_name /\ y.relation_slot = 0,
           ~ IsRef(x) => y = x,
           NEW pair
    PROVE  Worth(y, ScanSchema(s), Alone(s, pair)) = Means(x, pair)
<1>1. CASE IsRef(x)
  <2>1. x.column_name \in Columns(s)
    BY <1>1, OneCandidate
  <2> DEFINE col == Column(s, x.column_name, 0)
  <2>2. Lookup(y, ScanSchema(s)) = {col}
    BY <1>1, <2>1, LookupScan
  <2>3. col.of = s /\ col.column_name = x.column_name
    BY DEF Column
  <2> HIDE DEF col
  <2>4. (CHOOSE c \in Lookup(y, ScanSchema(s)) : TRUE) = col
    BY <2>2
  <2>5. Alone(s, pair)[s] = pair[s + 1]
    BY DEF Alone
  <2>6. Worth(y, ScanSchema(s), Alone(s, pair)) = Alone(s, pair)[s][x.column_name]
    BY <1>1, <2>3, <2>4 DEF Worth
  <2>7. Means(x, pair) = pair[s + 1][x.column_name]
    BY <1>1 DEF Means
  <2> QED
    BY <2>5, <2>6, <2>7
<1>2. CASE ~ IsRef(x)
  BY <1>2 DEF Worth, Means
<1> QED
  BY <1>1, <1>2

-----------------------------------------------------------------------------
(* The truth of one conjunct.                                              *)

Holds(c, pair) == \E m \in DOMAIN c : Means(c[m].left, pair) = Means(c[m].right, pair)
HoldsIn(c, schema, r) == \E m \in DOMAIN c : Worth(c[m].left, schema, r) = Worth(c[m].right, schema, r)

LEMMA PassesMembers ==
    ASSUME NEW conjuncts, NEW schema, NEW r
    PROVE  Passes(conjuncts, schema, r) <=> \A c \in Members(conjuncts) : HoldsIn(c, schema, r)
BY DEF Passes, Members, HoldsIn

(* What a typed conjunct needs to be evaluated.                            *)
Ready(c) == /\ c \in Seq(Equality) /\ AllResolvable(c) /\ range_table \in [Slot -> Relations]
            /\ \A ref \in RefsOf(c) : ref.column_name \in Required

LEMMA ReadyOperands ==
    ASSUME NEW c, Ready(c), NEW n \in DOMAIN c, NEW x \in {c[n].left, c[n].right}
    PROVE  /\ x \in Operand
           /\ IsRef(x) => x \in RefsOf(c) /\ Resolvable(x) /\ x.column_name \in Required
<1>1. c \in Seq(Equality)
  BY DEF Ready
<1>2. x \in Operand /\ (IsRef(x) => x \in RefsOf(c))
  BY <1>1, Operands
<1> QED
  BY <1>2 DEF Ready, AllResolvable

LEMMA BoundEqualities ==
    ASSUME NEW c
    PROVE  /\ DOMAIN BoundConjunct(c) = DOMAIN c
           /\ \A n \in DOMAIN c : /\ BoundConjunct(c)[n].left = Bound(c[n].left)
                                  /\ BoundConjunct(c)[n].right = Bound(c[n].right)
BY DEF BoundConjunct

LEMMA BoundTyped ==
    ASSUME NEW c \in Seq(Equality), AllResolvable(c), range_table \in [Slot -> Relations]
    PROVE  BoundConjunct(c) \in Seq(Equality) /\ DOMAIN BoundConjunct(c) = DOMAIN c
<1>1. \A n \in DOMAIN c : [left |-> Bound(c[n].left), right |-> Bound(c[n].right)] \in Equality
  <2> TAKE n \in DOMAIN c
  <2>1. /\ c[n].left \in RefType /\ c[n].right \in Operand /\ IsRef(c[n].left) /\ Resolvable(c[n].left)
        /\ IsRef(c[n].right) => Resolvable(c[n].right)
    BY Operands, Kinds DEF AllResolvable
  <2>2. Bound(c[n].left) \in RefType
    BY <2>1, ResolvedFacts DEF Bound
  <2>3. Bound(c[n].right) \in RefType \cup [literal : Value]
    BY <2>1, BoundFacts DEF Operand
  <2> QED
    BY <2>2, <2>3 DEF Equality
<1>2. Len(c) \in Nat /\ DOMAIN c = 1 .. Len(c)
  OBVIOUS
<1> QED
  BY <1>1, <1>2 DEF BoundConjunct

(* The references of a bound conjunct are the resolutions of the typed.    *)
LEMMA BoundRefs ==
    ASSUME NEW c, Ready(c)
    PROVE  /\ BoundConjunct(c) \in Seq(Equality)
           /\ RefsOf(BoundConjunct(c)) = {Resolved(x) : x \in RefsOf(c)}
           /\ Slots(BoundConjunct(c)) = {Meant(x) : x \in RefsOf(c)}
<1> DEFINE b == BoundConjunct(c)
<1>1. \A n \in DOMAIN c : /\ b[n].left = Resolved(c[n].left) /\ c[n].left \in RefsOf(c)
                          /\ b[n].right = IF IsRef(c[n].right) THEN Resolved(c[n].right) ELSE c[n].right
                          /\ IsRef(b[n].left)
                          /\ IsRef(b[n].right) <=> IsRef(c[n].right)
                          /\ IsRef(c[n].right) => c[n].right \in RefsOf(c)
  <2> TAKE n \in DOMAIN c
  <2>1. c[n].left \in RefType /\ c[n].left \in RefsOf(c) /\ IsRef(c[n].left)
    BY Operands, Kinds DEF Ready
  <2>2. /\ c[n].left \in Operand /\ (IsRef(c[n].left) => Resolvable(c[n].left))
        /\ c[n].right \in Operand /\ (IsRef(c[n].right) => c[n].right \in RefsOf(c) /\ Resolvable(c[n].right))
    BY ReadyOperands
  <2>3. range_table \in [Slot -> Relations]
    BY DEF Ready
  <2>4. b[n].left = Bound(c[n].left) /\ b[n].right = Bound(c[n].right)
    BY BoundEqualities
  <2>5. Bound(c[n].left) = Resolved(c[n].left) /\ Resolved(c[n].left) \in RefType
    BY <2>1, <2>2, <2>3, BoundFacts, ResolvedFacts
  <2>6. /\ IsRef(Bound(c[n].right)) <=> IsRef(c[n].right)
        /\ Bound(c[n].right) = IF IsRef(c[n].right) THEN Resolved(c[n].right) ELSE c[n].right
    BY <2>2, <2>3, BoundFacts
  <2> HIDE DEF b
  <2>7. IsRef(b[n].left)
    BY <2>4, <2>5, Kinds
  <2> QED
    BY <2>1, <2>2, <2>4, <2>5, <2>6, <2>7
<1>2. b \in Seq(Equality) /\ DOMAIN b = DOMAIN c
  BY BoundTyped DEF Ready
<1>3. \A y : y \in RefsOf(b) <=> \E n \in DOMAIN b : y \in {b[n].left, b[n].right} /\ IsRef(y)
  BY DEF RefsOf
<1>4. \A x \in RefsOf(c) : \E n \in DOMAIN c : x = c[n].left \/ (x = c[n].right /\ IsRef(c[n].right))
  BY RefsAre DEF Ready
<1> HIDE DEF b
<1>5. \A y \in RefsOf(b) : \E x \in RefsOf(c) : y = Resolved(x)
  BY <1>1, <1>2, <1>3
<1>6. \A x \in RefsOf(c) : Resolved(x) \in RefsOf(b)
  <2> TAKE x \in RefsOf(c)
  <2>1. PICK n \in DOMAIN c : x = c[n].left \/ (x = c[n].right /\ IsRef(c[n].right))
    BY <1>4
  <2> QED
    BY <2>1, <1>1, <1>2, <1>3
<1>7. RefsOf(b) = {Resolved(x) : x \in RefsOf(c)}
  BY <1>5, <1>6
<1>8. \A x \in RefsOf(c) : Resolved(x).relation_slot = Meant(x)
  BY ResolvedFacts, RefsAre DEF Ready, AllResolvable
<1>9. Slots(b) = {Meant(x) : x \in RefsOf(c)}
  BY <1>7, <1>8 DEF Slots
<1> QED
  BY <1>2, <1>7, <1>9 DEF b

(* Above the join a bound conjunct is true of a pair if the typed one is.  *)
LEMMA HoldsAbove ==
    ASSUME NEW c, Ready(c), NEW pair
    PROVE  HoldsIn(BoundConjunct(c), MergedSchema, Paired(pair)) <=> Holds(c, pair)
<1>1. \A n \in DOMAIN c : \A x \in {c[n].left, c[n].right} :
        Worth(Bound(x), MergedSchema, Paired(pair)) = Means(x, pair)
  <2> TAKE n \in DOMAIN c
  <2> TAKE x \in {c[n].left, c[n].right}
  <2>1. x \in Operand /\ (IsRef(x) => Resolvable(x) /\ x.column_name \in Required)
    BY ReadyOperands
  <2> QED
    BY <2>1, WorthMerged DEF Ready
<1> QED
  BY <1>1, BoundEqualities DEF HoldsIn, Holds

(* The operands of a conjunct b below the join stand for those of the      *)
(* typed conjunct c: same columns, slot 0.                                 *)
LowOperand(x, y) ==
    /\ IsRef(x) => IsRef(y) /\ y.column_name = x.column_name /\ y.relation_slot = 0
    /\ ~ IsRef(x) => y = x

Low(c, b) ==
    /\ DOMAIN b = DOMAIN c
    /\ \A n \in DOMAIN c : LowOperand(c[n].left, b[n].left) /\ LowOperand(c[n].right, b[n].right)

LEMMA HoldsBelow ==
    ASSUME NEW c, Ready(c), NEW b, Low(c, b), NEW s \in Slot, Slots(BoundConjunct(c)) = {s}, NEW pair
    PROVE  HoldsIn(b, ScanSchema(s), Alone(s, pair)) <=> Holds(c, pair)
<1>1. \A x \in RefsOf(c) : Meant(x) = s
  BY BoundRefs
<1>2. \A n \in DOMAIN c : \A x \in {c[n].left, c[n].right} : \A y : LowOperand(x, y) =>
        Worth(y, ScanSchema(s), Alone(s, pair)) = Means(x, pair)
  <2> TAKE n \in DOMAIN c
  <2> TAKE x \in {c[n].left, c[n].right}
  <2> TAKE y
  <2> HAVE LowOperand(x, y)
  <2>1. x \in Operand /\ (IsRef(x) => x \in RefsOf(c) /\ Resolvable(x) /\ x.column_name \in Required)
    BY ReadyOperands
  <2>2. /\ IsRef(x) => /\ Resolvable(x) /\ x.column_name \in Required /\ Meant(x) = s
                       /\ IsRef(y) /\ y.column_name = x.column_name /\ y.relation_slot = 0
        /\ ~ IsRef(x) => y = x
    BY <1>1, <2>1 DEF LowOperand
  <2> QED
    BY <2>1, <2>2, WorthScan
<1> QED
  BY <1>2 DEF HoldsIn, Holds, Low

(* A conjunct of the FROM side is as it should be, one of the JOIN side    *)
(* after restamping.                                                       *)
LEMMA Stamps ==
    ASSUME NEW c, Ready(c)
    PROVE  /\ Slots(BoundConjunct(c)) = {0} => Low(c, BoundConjunct(c))
           /\ Low(c, Restamped(BoundConjunct(c)))
           /\ Restamped(BoundConjunct(c)) \in Seq(Equality)
<1> DEFINE b == BoundConjunct(c)
           stamp(x) == IF IsRef(x) THEN [x EXCEPT !.relation_slot = 0] ELSE x
<1>0. b \in Seq(Equality) /\ DOMAIN b = DOMAIN c
  BY BoundRefs, BoundEqualities
<1>1. \A n \in DOMAIN c : \A x \in {c[n].left, c[n].right} :
        /\ x \in Operand
        /\ IsRef(x) => /\ x \in RefsOf(c) /\ Bound(x) = Resolved(x) /\ Resolved(x) \in RefType
                       /\ IsRef(Bound(x)) /\ Resolved(x).column_name = x.column_name
                       /\ Resolved(x).relation_slot = Meant(x)
        /\ ~ IsRef(x) => Bound(x) = x
  <2> TAKE n \in DOMAIN c
  <2> TAKE x \in {c[n].left, c[n].right}
  <2>1. x \in Operand /\ (IsRef(x) => x \in RefsOf(c) /\ Resolvable(x))
    BY ReadyOperands
  <2>2. range_table \in [Slot -> Relations]
    BY DEF Ready
  <2> QED
    BY <2>1, <2>2, BoundFacts, ResolvedFacts, OperandKinds
<1>2. ASSUME Slots(b) = {0} PROVE Low(c, b)
  <2>1. \A x \in RefsOf(c) : Meant(x) = 0
    BY <1>2, BoundRefs
  <2>2. \A n \in DOMAIN c : \A x \in {c[n].left, c[n].right} : LowOperand(x, Bound(x))
    BY <1>1, <2>1 DEF LowOperand
  <2> QED
    BY <2>2, BoundEqualities DEF Low
<1>3. \A n \in DOMAIN c : Restamped(b)[n] = [left |-> stamp(Bound(c[n].left)), right |-> stamp(Bound(c[n].right))]
  BY <1>0, BoundEqualities DEF Restamped
<1>4. DOMAIN Restamped(b) = DOMAIN c
  BY <1>0 DEF Restamped
<1>5. \A y \in RefType : /\ stamp(y) \in RefType /\ stamp(y).column_name = y.column_name
                         /\ stamp(y).relation_slot = 0 /\ IsRef(stamp(y))
  <2> TAKE y \in RefType
  <2>1. stamp(y) = [table_name |-> y.table_name, column_name |-> y.column_name, relation_slot |-> 0]
    BY Kinds DEF RefType
  <2>2. [table_name |-> y.table_name, column_name |-> y.column_name, relation_slot |-> 0] \in RefType
    BY DEF RefType, Slot
  <2> QED
    BY <2>1, <2>2, Kinds
<1>6. \A n \in DOMAIN c : \A x \in {c[n].left, c[n].right} :
        LowOperand(x, stamp(Bound(x))) /\ (IsRef(x) => stamp(Bound(x)) \in RefType) /\ stamp(Bound(x)) \in Operand
  <2> TAKE n \in DOMAIN c
  <2> TAKE x \in {c[n].left, c[n].right}
  <2>1. CASE IsRef(x)
    <3>1. Bound(x) \in RefType /\ Bound(x).column_name = x.column_name
      BY <1>1, <2>1
    <3> QED
      BY <2>1, <3>1, <1>5 DEF LowOperand, Operand
  <2>2. CASE ~ IsRef(x)
    BY <2>2, <1>1 DEF LowOperand
  <2> QED
    BY <2>1, <2>2
<1> HIDE DEF stamp
<1>7. Low(c, Restamped(b))
  BY <1>3, <1>4, <1>6 DEF Low
<1>8. \A n \in DOMAIN c : Restamped(b)[n] \in Equality
  <2> TAKE n \in DOMAIN c
  <2>1. IsRef(c[n].left)
    BY Operands, Kinds DEF Ready
  <2>2. stamp(Bound(c[n].left)) \in RefType /\ stamp(Bound(c[n].right)) \in RefType \cup [literal : Value]
    BY <1>6, <2>1 DEF Operand
  <2>3. [left |-> stamp(Bound(c[n].left)), right |-> stamp(Bound(c[n].right))] \in Equality
    BY <2>2 DEF Equality
  <2> QED
    BY <1>3, <2>3
<1>9. Restamped(b) \in Seq(Equality)
  <2>1. Len(c) \in Nat /\ DOMAIN c = 1 .. Len(c)
    BY DEF Ready
  <2>2. Restamped(b) = [n \in 1 .. Len(c) |-> Restamped(b)[n]]
    BY <1>0, <2>1 DEF Restamped
  <2> HIDE DEF b
  <2> QED
    BY <1>8, <2>1, <2>2
<1> QED
  BY <1>2, <1>7, <1>9

(* A conjunct "column = literal" whose literal lies outside of all values  *)
(* of the column is true of no pair.                                       *)
LEMMA OutsideIsFalse ==
    ASSUME NEW s \in Slot, NEW c \in Seq(Equality), Len(c) = 1, Meant(c[1].left) = s,
           c[1].left.column_name \in Columns(s), ~ IsRef(c[1].right),
           rows[s] \subseteq [Columns(s) -> Value],
           \/ \A row \in rows[s] : c[1].right.literal < row[c[1].left.column_name]
           \/ \A row \in rows[s] : c[1].right.literal > row[c[1].left.column_name],
           NEW pair \in rows[0] \X rows[1]
    PROVE  ~ Holds(c, pair)
<1>1. DOMAIN c = {1}
  BY DEF Seq
<1>2. IsRef(c[1].left) /\ c[1].right.literal \in Int
  BY <1>1, Operands, OperandKinds, Kinds
<1> DEFINE v == c[1].right.literal
           name == c[1].left.column_name
<1>3. pair[s + 1] \in rows[s]
  BY DEF Slot
<1>4. pair[s + 1][name] \in Int
  BY <1>3, ValueAssumption
<1>5. Means(c[1].left, pair) = pair[s + 1][name] /\ Means(c[1].right, pair) = v
  BY <1>2 DEF Means
<1>6. v # pair[s + 1][name]
  BY <1>2, <1>3, <1>4
<1> QED
  BY <1>1, <1>5, <1>6 DEF Holds

-----------------------------------------------------------------------------
(* The plan once all of the statement is bound.                            *)

LEMMA Mentioned ==
    ASSUME TypeInv, BoundSoFar, at \in Bound2
    PROVE  /\ DOMAIN where = 1 .. Len(where) /\ DOMAIN typed.where = 1 .. Len(where)
           /\ \A n \in 1 .. Len(where) : where[n] = BoundConjunct(typed.where[n]) /\ Ready(typed.where[n])
           /\ select = Resolved(typed.select) /\ Resolvable(typed.select)
           /\ select.column_name \in Required
           /\ \A z \in {1, 2} : /\ on[z] = Resolved(typed.on[z]) /\ Resolvable(typed.on[z])
                                /\ on[z].column_name = typed.on[z].column_name
                                /\ on[z].relation_slot = Meant(typed.on[z])
                                /\ on[z].column_name \in Required
           /\ on = <<on[1], on[2]>>
<1>1. /\ at \in {"where"} \cup Bound1 /\ at \in Bound1
      /\ range_table \in [Slot -> Relations]
  BY DEF Bound1, TypeInv
<1>2. DOMAIN where = 1 .. Len(where) /\ DOMAIN typed.where = 1 .. Len(where)
  BY DEF TypeInv
<1>3. \A n \in 1 .. Len(where) : /\ typed.where[n] \in Seq(Equality)
                                 /\ where[n] = BoundConjunct(typed.where[n]) /\ AllResolvable(typed.where[n])
  BY <1>1, <1>2 DEF TypeInv, BoundSoFar
<1>4. \A n \in 1 .. Len(where) : Ready(typed.where[n])
  <2> TAKE n \in 1 .. Len(where)
  <2>1. \A x \in RefsOf(typed.where[n]) : Resolved(x) \in RefsOf(where[n]) /\ Resolved(x).column_name = x.column_name
    <3> TAKE x \in RefsOf(typed.where[n])
    <3>1. x \in RefType /\ Resolvable(x)
      BY <1>3, RefsAre DEF AllResolvable
    <3>2. PICK m \in DOMAIN typed.where[n] :
             \/ x = typed.where[n][m].left
             \/ x = typed.where[n][m].right
      BY <1>3, RefsAre
    <3>3. Bound(x) = Resolved(x) /\ IsRef(Resolved(x)) /\ Resolved(x).column_name = x.column_name
      BY <1>1, <3>1, ResolvedFacts, Kinds DEF Bound
    <3>4. m \in DOMAIN where[n] /\ Resolved(x) \in {where[n][m].left, where[n][m].right}
      BY <1>3, <3>2, <3>3, BoundEqualities
    <3> QED
      BY <3>3, <3>4 DEF RefsOf
  <2>2. \A y \in RefsOf(where[n]) : y.column_name \in Required
    BY <1>2 DEF Required
  <2> QED
    BY <1>1, <1>3, <2>1, <2>2 DEF Ready
<1>5. /\ select = Resolved(typed.select) /\ Resolvable(typed.select)
      /\ on = <<Resolved(typed.on[1]), Resolved(typed.on[2])>>
      /\ Resolvable(typed.on[1]) /\ Resolvable(typed.on[2])
  BY <1>1 DEF BoundSoFar
<1>6. select.column_name \in Required /\ on[1].column_name \in Required /\ on[2].column_name \in Required
  BY DEF Required
<1>7. typed.on[1] \in RefType /\ typed.on[2] \in RefType
  BY DEF TypeInv
<1>8. \A z \in {1, 2} : on[z] = Resolved(typed.on[z]) /\ Resolvable(typed.on[z]) /\ typed.on[z] \in RefType
  BY <1>5, <1>7
<1>9. \A z \in {1, 2} : on[z].column_name = typed.on[z].column_name /\ on[z].relation_slot = Meant(typed.on[z])
  BY <1>1, <1>8, ResolvedFacts
<1>10. on = <<on[1], on[2]>>
  BY <1>5
<1> QED
  BY <1>2, <1>3, <1>4, <1>5, <1>6, <1>8, <1>9, <1>10

(* The key of each side is the column that ON names there.                 *)
LEMMA Keys ==
    ASSUME TypeInv, BoundSoFar, at \in Bound2
    PROVE  /\ \A s \in Slot : JoinKeys[s] \in Columns(s) \cap Required
           /\ \A pair : Means(typed.on[1], pair) = Means(typed.on[2], pair)
                        <=> pair[1][JoinKeys[0]] = pair[2][JoinKeys[1]]
<1>1. /\ typed.on[1] \in RefType /\ typed.on[2] \in RefType
      /\ Meant(typed.on[1]) \in Slot /\ Meant(typed.on[2]) \in Slot
      /\ Meant(typed.on[1]) # Meant(typed.on[2])
      /\ typed.on[1].column_name \in Columns(Meant(typed.on[1]))
      /\ typed.on[2].column_name \in Columns(Meant(typed.on[2]))
  <2>1. Resolvable(typed.on[1]) /\ Resolvable(typed.on[2]) /\ Meant(typed.on[1]) # Meant(typed.on[2])
    BY DEF BoundSoFar
  <2> QED
    BY <2>1, OneCandidate DEF TypeInv
<1>2. \A z \in {1, 2} : /\ on[z].relation_slot = Meant(typed.on[z])
                        /\ on[z].column_name = typed.on[z].column_name /\ on[z].column_name \in Required
  BY Mentioned
<1>3. \A z \in {1, 2} : JoinKeys[Meant(typed.on[z])] = typed.on[z].column_name
  <2> TAKE z \in {1, 2}
  <2>1. \A ref \in {on[1], on[2]} : ref.relation_slot = Meant(typed.on[z]) <=> ref = on[z]
    BY <1>1, <1>2
  <2>2. (CHOOSE ref \in {on[1], on[2]} : ref.relation_slot = Meant(typed.on[z])) = on[z]
    BY <2>1
  <2> QED
    BY <1>1, <1>2, <2>2 DEF JoinKeys
<1>4. \A z \in {1, 2} : \A pair : Means(typed.on[z], pair) = pair[Meant(typed.on[z]) + 1][typed.on[z].column_name]
  BY <1>1, Kinds DEF Means
<1>5. CASE Meant(typed.on[1]) = 0
  BY <1>1, <1>2, <1>3, <1>4, <1>5 DEF Slot
<1>6. CASE Meant(typed.on[1]) = 1
  BY <1>1, <1>2, <1>3, <1>4, <1>6 DEF Slot
<1> QED
  BY <1>1, <1>5, <1>6 DEF Slot

(* Where each conjunct of WHERE has gone.                                  *)
LEMMA Gone ==
    ASSUME QueryInv, at = "run"
    PROVE  /\ \A b : b \in Members(from_p) <=>
                 optimize /\ \E n \in 1 .. Len(where) : b = where[n] /\ Slots(where[n]) = {0}
           /\ \A b : b \in Members(join_p) <=>
                 optimize /\ \E n \in 1 .. Len(where) : b = Restamped(where[n]) /\ Slots(where[n]) = {1}
           /\ \A b : b \in Members(AboveJoin) <=>
                 \E n \in 1 .. Len(where) : b = where[n] /\ (optimize => Slots(where[n]) \notin {{0}, {1}})
<1>1. at \in Bound2
  BY DEF Bound2
<1>2. {0} # {1}
  <2>1. 0 \in {0} /\ 0 \notin {1}
    OBVIOUS
  <2> QED
    BY <2>1
<1>3. \A n \in 1 .. Len(where) : /\ Classify(where[n]) = "from" <=> Slots(where[n]) = {0}
                                 /\ Classify(where[n]) = "join" <=> Slots(where[n]) = {1}
                                 /\ Classify(where[n]) = "residual" <=> Slots(where[n]) \notin {{0}, {1}}
  BY <1>2 DEF Classify
<1>4. /\ \A b : b \in Handled("from") <=> \E n \in 1 .. Len(where) : b = where[n] /\ Slots(where[n]) = {0}
      /\ \A b : b \in Handled("join") <=> \E n \in 1 .. Len(where) : b = where[n] /\ Slots(where[n]) = {1}
      /\ \A b : b \in Handled("residual") <=>
            \E n \in 1 .. Len(where) : b = where[n] /\ Slots(where[n]) \notin {{0}, {1}}
  <2>1. \A class : \A b : b \in Handled(class) <=> \E n \in 1 .. Len(where) : b = where[n] /\ Classify(where[n]) = class
    BY DEF Handled
  <2>2. \A b : b \in Handled("from") <=> \E n \in 1 .. Len(where) : b = where[n] /\ Classify(where[n]) = "from"
    BY <2>1, Zenon
  <2>3. \A b : b \in Handled("join") <=> \E n \in 1 .. Len(where) : b = where[n] /\ Classify(where[n]) = "join"
    BY <2>1, Zenon
  <2>4. \A b : b \in Handled("residual") <=> \E n \in 1 .. Len(where) : b = where[n] /\ Classify(where[n]) = "residual"
    BY <2>1, Zenon
  <2> QED
    BY <2>2, <2>3, <2>4, <1>3, Zenon
<1>5. DOMAIN where = 1 .. Len(where)
  BY DEF QueryInv, TypeInv
<1>6. CASE optimize
  <2>1. /\ Members(from_p) = Handled("from") /\ Members(residual_p) = Handled("residual")
        /\ Members(join_p) = {Restamped(c) : c \in Handled("join")}
    BY <1>1, <1>6 DEF QueryInv, Pushed
  <2>2. AboveJoin = residual_p
    BY <1>6 DEF AboveJoin
  <2>3. \A b : b \in Members(from_p) <=> b \in Handled("from")
    BY <2>1
  <2>4. \A b : b \in Members(residual_p) <=> b \in Handled("residual")
    BY <2>1
  <2>5. \A b : b \in Members(join_p) <=> \E n \in 1 .. Len(where) : b = Restamped(where[n]) /\ Slots(where[n]) = {1}
    <3> TAKE b
    <3>1. b \in Members(join_p) <=> \E c : c \in Handled("join") /\ b = Restamped(c)
      BY <2>1
    <3>2. (\E c : c \in Handled("join") /\ b = Restamped(c))
          <=> \E n \in 1 .. Len(where) : b = Restamped(where[n]) /\ Slots(where[n]) = {1}
      BY <1>4
    <3> QED
      BY <3>1, <3>2
  <2> QED
    BY <1>4, <1>6, <2>2, <2>3, <2>4, <2>5
<1>7. CASE ~ optimize
  <2>1. from_p = << >> /\ join_p = << >>
    BY <1>7 DEF QueryInv, Pushed
  <2>2. Members(from_p) = {} /\ Members(join_p) = {}
    BY <2>1 DEF Members
  <2>3. AboveJoin = where
    BY <1>7 DEF AboveJoin
  <2> QED
    BY <1>5, <1>7, <2>2, <2>3 DEF Members
<1> QED
  BY <1>6, <1>7 DEF QueryInv, TypeInv

-----------------------------------------------------------------------------
(* Scans and their hints.                                                  *)

(* b is a conjunct of a hint for relation s that stands for the typed c:   *)
(* where it looks like a reference of a scan it is one of relation s.      *)
Hints(s, c, b) ==
    /\ b \in Seq(Equality) /\ DOMAIN b = DOMAIN c
    /\ \A n \in DOMAIN c :
          /\ b[n].left.column_name = c[n].left.column_name
          /\ b[n].left.relation_slot < 1 => Meant(c[n].left) = s
          /\ ~ IsRef(b[n].right) => ~ IsRef(c[n].right) /\ b[n].right = c[n].right

LEMMA SkipsSoundly ==
    ASSUME NEW s \in Slot, rows[s] \subseteq [Columns(s) -> Value], NEW hint, SkipsChunk(hint, s),
           \A b \in Members(hint) : \E n \in DOMAIN typed.where : Ready(typed.where[n]) /\ Hints(s, typed.where[n], b),
           NEW pair \in rows[0] \X rows[1]
    PROVE  \E n \in DOMAIN typed.where : ~ Holds(typed.where[n], pair)
<1>1. PICK h \in DOMAIN hint :
         /\ Len(hint[h]) = 1 /\ ~ IsRef(hint[h][1].right)
         /\ hint[h][1].left.relation_slot < 1 /\ hint[h][1].left.column_name \in Columns(s)
         /\ \/ \A row \in rows[s] : hint[h][1].right.literal < row[hint[h][1].left.column_name]
            \/ \A row \in rows[s] : hint[h][1].right.literal > row[hint[h][1].left.column_name]
  BY DEF SkipsChunk
<1> DEFINE b == hint[h]
<1>2. b \in Members(hint)
  BY DEF Members
<1>3. PICK n \in DOMAIN typed.where : Ready(typed.where[n]) /\ Hints(s, typed.where[n], b)
  BY <1>2
<1> DEFINE c == typed.where[n]
<1>4. c \in Seq(Equality) /\ Len(c) = 1 /\ DOMAIN c = {1}
  <2>1. c \in Seq(Equality) /\ b \in Seq(Equality) /\ DOMAIN b = DOMAIN c
    BY <1>3 DEF Ready, Hints
  <2>2. DOMAIN b = {1}
    <3>1. DOMAIN b = 1 .. Len(b)
      BY <2>1
    <3> HIDE DEF b
    <3> QED
      BY <3>1, <1>1 DEF b
  <2>3. DOMAIN c = 1 .. Len(c) /\ Len(c) \in Nat
    BY <2>1
  <2>4. Len(c) = 1
    <3>1. \A m \in 1 .. Len(c) : m = 1
      BY <2>1, <2>2, <2>3
    <3>2. 1 \in 1 .. Len(c)
      BY <2>1, <2>2, <2>3
    <3>3. Len(c) \in 1 .. Len(c)
      BY <2>3, <3>2
    <3> QED
      BY <3>1, <3>3
  <2> QED
    BY <2>1, <2>2, <2>4
<1>5. /\ b[1].left.column_name = c[1].left.column_name
      /\ Meant(c[1].left) = s
      /\ ~ IsRef(c[1].right) /\ b[1].right = c[1].right
  BY <1>1, <1>3, <1>4 DEF Hints
<1>6. ~ Holds(c, pair)
  <2>1. \/ \A row \in rows[s] : c[1].right.literal < row[c[1].left.column_name]
        \/ \A row \in rows[s] : c[1].right.literal > row[c[1].left.column_name]
    BY <1>1, <1>5
  <2>2. c[1].left.column_name \in Columns(s)
    BY <1>1, <1>5
  <2> HIDE DEF c, b
  <2> QED
    BY <1>4, <1>5, <2>1, <2>2, OutsideIsFalse
<1> QED
  BY <1>6

(* A bound conjunct is a fit hint for the FROM scan, a restamped one that  *)
(* speaks of the JOIN side only for the JOIN scan.                         *)
LEMMA FitHints ==
    ASSUME NEW c, Ready(c)
    PROVE  /\ Hints(0, c, BoundConjunct(c))
           /\ Slots(BoundConjunct(c)) = {1} => Hints(1, c, Restamped(BoundConjunct(c)))
<1> DEFINE b == BoundConjunct(c)
           d == Restamped(b)
<1>1. \A n \in DOMAIN c :
        /\ c[n].left \in RefType /\ c[n].left \in RefsOf(c) /\ Resolvable(c[n].left) /\ IsRef(c[n].left)
        /\ c[n].right \in Operand /\ (IsRef(c[n].right) => Resolvable(c[n].right))
  <2> TAKE n \in DOMAIN c
  <2>1. c[n].left \in RefType /\ c[n].left \in RefsOf(c)
    BY Operands DEF Ready
  <2>2. c[n].right \in Operand /\ (IsRef(c[n].right) => Resolvable(c[n].right))
    BY ReadyOperands
  <2> QED
    BY <2>1, <2>2, Kinds DEF Ready, AllResolvable
<1>2. range_table \in [Slot -> Relations]
  BY DEF Ready
<1>3. Hints(0, c, b)
  <2>1. b \in Seq(Equality) /\ DOMAIN b = DOMAIN c
    BY BoundRefs, BoundEqualities
  <2>2. \A n \in DOMAIN c : /\ b[n].left.column_name = c[n].left.column_name
                            /\ b[n].left.relation_slot < 1 => Meant(c[n].left) = 0
    <3> TAKE n \in DOMAIN c
    <3>1. b[n].left = Resolved(c[n].left)
      BY <1>1, BoundEqualities DEF Bound
    <3>2. /\ Resolved(c[n].left).column_name = c[n].left.column_name
          /\ Resolved(c[n].left).relation_slot = Meant(c[n].left)
      BY <1>1, <1>2, ResolvedFacts
    <3>3. Meant(c[n].left) \in Slot
      BY <1>1, OneCandidate
    <3> QED
      BY <3>1, <3>2, <3>3 DEF Slot
  <2>3. \A n \in DOMAIN c : ~ IsRef(b[n].right) => ~ IsRef(c[n].right) /\ b[n].right = c[n].right
    <3> TAKE n \in DOMAIN c
    <3>1. b[n].right = Bound(c[n].right)
      BY BoundEqualities
    <3> QED
      BY <1>1, <1>2, <3>1, BoundFacts
  <2> HIDE DEF b
  <2> QED
    BY <2>1, <2>2, <2>3 DEF Hints
<1>4. ASSUME Slots(b) = {1} PROVE Hints(1, c, d)
  <2>1. d \in Seq(Equality) /\ Low(c, d)
    BY Stamps
  <2>2. \A n \in DOMAIN c : Meant(c[n].left) = 1
    BY <1>1, <1>4, BoundRefs
  <2>3. \A n \in DOMAIN c : LowOperand(c[n].left, d[n].left) /\ LowOperand(c[n].right, d[n].right)
    BY <2>1 DEF Low
  <2>4. \A n \in DOMAIN c : d[n].left.column_name = c[n].left.column_name
    BY <1>1, <2>3 DEF LowOperand
  <2>5. \A n \in DOMAIN c : ~ IsRef(d[n].right) => ~ IsRef(c[n].right) /\ d[n].right = c[n].right
    BY <2>3 DEF LowOperand
  <2> HIDE DEF d
  <2> QED
    BY <2>1, <2>2, <2>4, <2>5 DEF Hints, Low
<1> QED
  BY <1>3, <1>4

-----------------------------------------------------------------------------
(* What the plan answers.                                                  *)

Filtered(pair) == \A n \in DOMAIN typed.where : Holds(typed.where[n], pair)

(* Each scan drops only rows of no wanted pair, and the filter above it    *)
(* keeps the rows of which its conjuncts are true.                         *)
LEMMA ScanDelivers ==
    ASSUME QueryInv, at = "run", NEW pair \in rows[0] \X rows[1]
    PROVE  /\ Filtered(pair) => /\ pair[1] \in Delivers(0, FromHint, from_p)
                                /\ pair[2] \in Delivers(1, JoinHint, join_p)
           /\ pair[1] \in Delivers(0, FromHint, from_p) =>
                 \A n \in DOMAIN typed.where : optimize /\ Slots(where[n]) = {0} => Holds(typed.where[n], pair)
           /\ pair[2] \in Delivers(1, JoinHint, join_p) =>
                 \A n \in DOMAIN typed.where : optimize /\ Slots(where[n]) = {1} => Holds(typed.where[n], pair)
<1>1. /\ at \in Bound2 /\ DOMAIN typed.where = 1 .. Len(where)
      /\ \A n \in 1 .. Len(where) : where[n] = BoundConjunct(typed.where[n]) /\ Ready(typed.where[n])
      /\ \A s \in Slot : rows[s] \subseteq [Columns(s) -> Value]
  BY Mentioned DEF Bound2, QueryInv, TypeInv
<1>2. \A n \in 1 .. Len(where) :
        /\ Hints(0, typed.where[n], where[n])
        /\ Slots(where[n]) = {1} => Hints(1, typed.where[n], Restamped(where[n]))
        /\ Slots(where[n]) = {0} =>
              (HoldsIn(where[n], ScanSchema(0), Alone(0, pair)) <=> Holds(typed.where[n], pair))
        /\ Slots(where[n]) = {1} =>
              (HoldsIn(Restamped(where[n]), ScanSchema(1), Alone(1, pair)) <=> Holds(typed.where[n], pair))
  <2> TAKE n \in 1 .. Len(where)
  <2>1. Ready(typed.where[n]) /\ where[n] = BoundConjunct(typed.where[n])
    BY <1>1
  <2>2. Slots(where[n]) = {0} => Low(typed.where[n], where[n])
    BY <2>1, Stamps
  <2>3. Low(typed.where[n], Restamped(where[n]))
    BY <2>1, Stamps
  <2>4. 0 \in Slot /\ 1 \in Slot
    BY DEF Slot
  <2>5. Slots(where[n]) = {0} => (HoldsIn(where[n], ScanSchema(0), Alone(0, pair)) <=> Holds(typed.where[n], pair))
    BY <2>1, <2>2, <2>4, HoldsBelow
  <2>6. Slots(where[n]) = {1} => (HoldsIn(Restamped(where[n]), ScanSchema(1), Alone(1, pair)) <=> Holds(typed.where[n], pair))
    BY <2>1, <2>3, <2>4, HoldsBelow
  <2> QED
    BY <2>1, <2>5, <2>6, FitHints
<1>3. /\ \A b \in Members(from_p) : optimize /\ \E n \in 1 .. Len(where) : b = where[n] /\ Slots(where[n]) = {0}
      /\ \A b \in Members(join_p) : \E n \in 1 .. Len(where) : b = Restamped(where[n]) /\ Slots(where[n]) = {1}
      /\ \A b \in Members(AboveJoin) : \E n \in 1 .. Len(where) : b = where[n]
      /\ \A n \in 1 .. Len(where) : optimize /\ Slots(where[n]) = {0} => where[n] \in Members(from_p)
      /\ \A n \in 1 .. Len(where) : optimize /\ Slots(where[n]) = {1} => Restamped(where[n]) \in Members(join_p)
  BY Gone
<1>4. \A b \in Members(FromHint) : \E n \in DOMAIN typed.where : Ready(typed.where[n]) /\ Hints(0, typed.where[n], b)
  <2>1. \A b \in Members(FromHint) : \E n \in 1 .. Len(where) : b = where[n]
    <3>1. FromHint = from_p \/ FromHint = AboveJoin
      BY DEF FromHint
    <3> QED
      BY <3>1, <1>3
  <2> QED
    BY <2>1, <1>1, <1>2
<1>5. \A b \in Members(JoinHint) : \E n \in DOMAIN typed.where : Ready(typed.where[n]) /\ Hints(1, typed.where[n], b)
  <2> TAKE b \in Members(JoinHint)
  <2>1. b \in Members(join_p)
    BY DEF JoinHint
  <2>2. PICK n \in 1 .. Len(where) : b = Restamped(where[n]) /\ Slots(where[n]) = {1}
    BY <1>3, <2>1
  <2>3. Ready(typed.where[n]) /\ Hints(1, typed.where[n], b)
    BY <1>1, <1>2, <2>2
  <2> QED
    BY <1>1, <2>3
<1>6. Filtered(pair) => ~ SkipsChunk(FromHint, 0) /\ ~ SkipsChunk(JoinHint, 1)
  BY <1>1, <1>4, <1>5, SkipsSoundly DEF Filtered, Slot
<1>7. /\ pair[1] \in Delivers(0, FromHint, from_p) <=>
            ~ SkipsChunk(FromHint, 0) /\ \A b \in Members(from_p) : HoldsIn(b, ScanSchema(0), Alone(0, pair))
      /\ pair[2] \in Delivers(1, JoinHint, join_p) <=>
            ~ SkipsChunk(JoinHint, 1) /\ \A b \in Members(join_p) : HoldsIn(b, ScanSchema(1), Alone(1, pair))
  <2>1. pair[1] \in rows[0] /\ pair[2] \in rows[1]
    OBVIOUS
  <2>2. Alone(0, pair) = [x \in {0} |-> pair[1]] /\ Alone(1, pair) = [x \in {1} |-> pair[2]]
    BY DEF Alone
  <2>3. pair[1] \in Delivers(0, FromHint, from_p) <=>
            ~ SkipsChunk(FromHint, 0) /\ Passes(from_p, ScanSchema(0), Alone(0, pair))
    BY <2>1, <2>2 DEF Delivers
  <2>4. pair[2] \in Delivers(1, JoinHint, join_p) <=>
            ~ SkipsChunk(JoinHint, 1) /\ Passes(join_p, ScanSchema(1), Alone(1, pair))
    BY <2>1, <2>2 DEF Delivers
  <2> QED
    BY <2>3, <2>4, PassesMembers
<1>8. Filtered(pair) => /\ \A b \in Members(from_p) : HoldsIn(b, ScanSchema(0), Alone(0, pair))
                        /\ \A b \in Members(join_p) : HoldsIn(b, ScanSchema(1), Alone(1, pair))
  BY <1>1, <1>2, <1>3 DEF Filtered
<1>9. pair[1] \in Delivers(0, FromHint, from_p) =>
        \A n \in DOMAIN typed.where : optimize /\ Slots(where[n]) = {0} => Holds(typed.where[n], pair)
  BY <1>1, <1>2, <1>3, <1>7
<1>10. pair[2] \in Delivers(1, JoinHint, join_p) =>
        \A n \in DOMAIN typed.where : optimize /\ Slots(where[n]) = {1} => Holds(typed.where[n], pair)
  BY <1>1, <1>2, <1>3, <1>7
<1> QED
  BY <1>6, <1>7, <1>8, <1>9, <1>10

(* A pair that both scans deliver passes the filter above the join if it   *)
(* satisfies every conjunct that is neither in the one scan nor the other. *)
LEMMA PlanAnswers ==
    ASSUME QueryInv, at = "run"
    PROVE  {pair \in Delivers(0, FromHint, from_p) \X Delivers(1, JoinHint, join_p) :
                /\ pair[1][JoinKeys[0]] = pair[2][JoinKeys[1]]
                /\ Passes(AboveJoin, MergedSchema, [s \in Slot |-> pair[s + 1]])} = Wanted
<1>1. /\ at \in Bound2 /\ DOMAIN typed.where = 1 .. Len(where)
      /\ \A n \in 1 .. Len(where) : where[n] = BoundConjunct(typed.where[n]) /\ Ready(typed.where[n])
  BY Mentioned DEF Bound2, QueryInv
<1>2. \A pair : Means(typed.on[1], pair) = Means(typed.on[2], pair) <=> pair[1][JoinKeys[0]] = pair[2][JoinKeys[1]]
  BY <1>1, Keys DEF QueryInv
<1>3. Delivers(0, FromHint, from_p) \subseteq rows[0] /\ Delivers(1, JoinHint, join_p) \subseteq rows[1]
  BY DEF Delivers
<1>4. \A pair \in rows[0] \X rows[1] :
        (/\ pair[1] \in Delivers(0, FromHint, from_p) /\ pair[2] \in Delivers(1, JoinHint, join_p)
         /\ Passes(AboveJoin, MergedSchema, Paired(pair)))
        <=> Filtered(pair)
  <2> TAKE pair \in rows[0] \X rows[1]
  <2>1. \A n \in 1 .. Len(where) : HoldsIn(where[n], MergedSchema, Paired(pair)) <=> Holds(typed.where[n], pair)
    BY <1>1, HoldsAbove
  <2>2. Passes(AboveJoin, MergedSchema, Paired(pair)) <=>
          \A n \in 1 .. Len(where) : (optimize => Slots(where[n]) \notin {{0}, {1}}) => Holds(typed.where[n], pair)
    <3>1. \A b : b \in Members(AboveJoin) <=>
            \E n \in 1 .. Len(where) : b = where[n] /\ (optimize => Slots(where[n]) \notin {{0}, {1}})
      BY Gone
    <3>2. Passes(AboveJoin, MergedSchema, Paired(pair)) <=>
            \A b \in Members(AboveJoin) : HoldsIn(b, MergedSchema, Paired(pair))
      BY PassesMembers
    <3>3. (\A b \in Members(AboveJoin) : HoldsIn(b, MergedSchema, Paired(pair))) <=>
            \A n \in 1 .. Len(where) : (optimize => Slots(where[n]) \notin {{0}, {1}})
                                      => HoldsIn(where[n], MergedSchema, Paired(pair))
      <4>1. ASSUME \A b \in Members(AboveJoin) : HoldsIn(b, MergedSchema, Paired(pair)),
                   NEW n \in 1 .. Len(where), optimize => Slots(where[n]) \notin {{0}, {1}}
            PROVE  HoldsIn(where[n], MergedSchema, Paired(pair))
        <5>1. where[n] \in Members(AboveJoin)
          BY <3>1, <4>1
        <5> QED
          BY <4>1, <5>1
      <4>2. ASSUME \A n \in 1 .. Len(where) : (optimize => Slots(where[n]) \notin {{0}, {1}})
                                      => HoldsIn(where[n], MergedSchema, Paired(pair)),
                   NEW b \in Members(AboveJoin)
            PROVE  HoldsIn(b, MergedSchema, Paired(pair))
        <5>1. PICK n \in 1 .. Len(where) : b = where[n] /\ (optimize => Slots(where[n]) \notin {{0}, {1}})
          BY <3>1
        <5> QED
          BY <4>2, <5>1
      <4> QED
        BY <4>1, <4>2
    <3> QED
      BY <2>1, <3>2, <3>3
  <2>3. ASSUME Filtered(pair)
        PROVE  /\ pair[1] \in Delivers(0, FromHint, from_p) /\ pair[2] \in Delivers(1, JoinHint, join_p)
               /\ Passes(AboveJoin, MergedSchema, Paired(pair))
    BY <1>1, <2>2, <2>3, ScanDelivers DEF Filtered
  <2>4. ASSUME pair[1] \in Delivers(0, FromHint, from_p), pair[2] \in Delivers(1, JoinHint, join_p),
               Passes(AboveJoin, MergedSchema, Paired(pair))
        PROVE  Filtered(pair)
    <3>1. \A n \in 1 .. Len(where) : optimize /\ Slots(where[n]) = {0} => Holds(typed.where[n], pair)
      BY <1>1, <2>4, ScanDelivers
    <3>2. \A n \in 1 .. Len(where) : optimize /\ Slots(where[n]) = {1} => Holds(typed.where[n], pair)
      BY <1>1, <2>4, ScanDelivers
    <3>3. \A n \in 1 .. Len(where) : (optimize => Slots(where[n]) \notin {{0}, {1}}) => Holds(typed.where[n], pair)
      BY <2>2, <2>4
    <3> QED
      BY <1>1, <3>1, <3>2, <3>3 DEF Filtered
  <2> QED
    BY <2>3, <2>4
<1>5. \A pair : pair \in Wanted <=> /\ pair \in rows[0] \X rows[1]
                                   /\ Means(typed.on[1], pair) = Means(typed.on[2], pair) /\ Filtered(pair)
  BY DEF Wanted, Filtered, Holds
<1> DEFINE delivered == Delivers(0, FromHint, from_p) \X Delivers(1, JoinHint, join_p)
<1>6. \A pair : pair \in delivered <=> /\ pair \in rows[0] \X rows[1]
                                      /\ pair[1] \in Delivers(0, FromHint, from_p)
                                      /\ pair[2] \in Delivers(1, JoinHint, join_p)
  <2> HIDE DEF Delivers
  <2> QED
    BY <1>3
<1>7. \A pair \in delivered : Passes(AboveJoin, MergedSchema, [s \in Slot |-> pair[s + 1]])
                              <=> Passes(AboveJoin, MergedSchema, Paired(pair))
  BY DEF Paired
<1> HIDE DEF delivered
<1>8. \A pair : (/\ pair \in delivered /\ pair[1][JoinKeys[0]] = pair[2][JoinKeys[1]]
                 /\ Passes(AboveJoin, MergedSchema, [s \in Slot |-> pair[s + 1]]))
                <=> pair \in Wanted
  BY <1>2, <1>4, <1>5, <1>6, <1>7
<1>9. {pair \in delivered : /\ pair[1][JoinKeys[0]] = pair[2][JoinKeys[1]]
                            /\ Passes(AboveJoin, MergedSchema, [s \in Slot |-> pair[s + 1]])} = Wanted
  BY <1>8
<1> QED
  BY <1>9 DEF delivered

(* No operator of the plan looks for a column its schema has not.          *)
LEMMA NothingMissing ==
    ASSUME QueryInv, at = "run"
    PROVE  ~ Missing
<1>1. /\ at \in Bound2
      /\ \A n \in 1 .. Len(where) : where[n] = BoundConjunct(typed.where[n]) /\ Ready(typed.where[n])
  BY Mentioned DEF Bound2, QueryInv
<1>2. \A s \in Slot : \A ref : ref.column_name \in Columns(s) \cap Required =>
        /\ ref.relation_slot = 0 => Lookup(ref, ScanSchema(s)) # {}
        /\ ref.relation_slot = s => Lookup(ref, MergedSchema) # {}
  BY LookupScan, LookupMerged
<1>3. \A s \in Slot : Lookup([Ref("", JoinKeys[s]) EXCEPT !.relation_slot = 0], ScanSchema(s)) # {}
  <2> TAKE s \in Slot
  <2> DEFINE ref == [Ref("", JoinKeys[s]) EXCEPT !.relation_slot = 0]
  <2>1. ref.column_name = JoinKeys[s] /\ ref.relation_slot = 0
    BY DEF Ref
  <2>2. JoinKeys[s] \in Columns(s) \cap Required
    BY <1>1, Keys DEF QueryInv
  <2> HIDE DEF ref
  <2>3. Lookup(ref, ScanSchema(s)) # {}
    BY <1>2, <2>1, <2>2
  <2> QED
    BY <2>3 DEF ref
<1>4. \A n \in 1 .. Len(where) : \A ref \in RefsOf(where[n]) :
        \E s \in Slot : /\ ref.column_name \in Columns(s) \cap Required /\ ref.relation_slot = s
                        /\ s \in Slots(where[n])
  <2> TAKE n \in 1 .. Len(where)
  <2> TAKE ref \in RefsOf(where[n])
  <2>1. PICK x \in RefsOf(typed.where[n]) : ref = Resolved(x)
    BY <1>1, BoundRefs
  <2>2. /\ x \in RefType /\ Resolvable(x) /\ x.column_name \in Required
        /\ range_table \in [Slot -> Relations]
    BY <1>1, RefsAre DEF Ready, AllResolvable
  <2>3. ref.column_name = x.column_name /\ ref.relation_slot = Meant(x)
    BY <2>1, <2>2, ResolvedFacts
  <2>4. Meant(x) \in Slot /\ x.column_name \in Columns(Meant(x))
    BY <2>2, OneCandidate
  <2>5. ref.relation_slot \in Slots(where[n])
    BY DEF Slots
  <2> QED
    BY <2>2, <2>3, <2>4, <2>5
<1>5. \A n \in DOMAIN AboveJoin : \A ref \in RefsOf(AboveJoin[n]) : Lookup(ref, MergedSchema) # {}
  <2> TAKE n \in DOMAIN AboveJoin
  <2> TAKE ref \in RefsOf(AboveJoin[n])
  <2>1. AboveJoin[n] \in Members(AboveJoin)
    BY DEF Members
  <2>2. PICK m \in 1 .. Len(where) : AboveJoin[n] = where[m]
    BY <2>1, Gone
  <2> QED
    BY <1>2, <1>4, <2>2
<1>6. \A n \in DOMAIN from_p : \A ref \in RefsOf(from_p[n]) : Lookup(ref, ScanSchema(0)) # {}
  <2> TAKE n \in DOMAIN from_p
  <2> TAKE ref \in RefsOf(from_p[n])
  <2>1. from_p[n] \in Members(from_p)
    BY DEF Members
  <2>2. PICK m \in 1 .. Len(where) : from_p[n] = where[m] /\ Slots(where[m]) = {0}
    BY <2>1, Gone
  <2>3. ref.column_name \in Columns(0) \cap Required /\ ref.relation_slot = 0
    BY <1>4, <2>2
  <2> QED
    BY <1>2, <2>3 DEF Slot
<1>7. \A n \in DOMAIN join_p : \A ref \in RefsOf(join_p[n]) : Lookup(ref, ScanSchema(1)) # {}
  <2> TAKE n \in DOMAIN join_p
  <2> TAKE ref \in RefsOf(join_p[n])
  <2>1. join_p[n] \in Members(join_p)
    BY DEF Members
  <2>2. PICK m \in 1 .. Len(where) : join_p[n] = Restamped(where[m]) /\ Slots(where[m]) = {1}
    BY <2>1, Gone
  <2> DEFINE c == typed.where[m]
  <2>3. Ready(c) /\ Low(c, join_p[n]) /\ Slots(BoundConjunct(c)) = {1} /\ join_p[n] \in Seq(Equality)
    BY <1>1, <2>2, Stamps
  <2>4. PICK z \in DOMAIN join_p[n] :
           ref = join_p[n][z].left \/ (ref = join_p[n][z].right /\ IsRef(join_p[n][z].right))
    BY <2>3, RefsAre
  <2>5. /\ z \in DOMAIN c /\ LowOperand(c[z].left, join_p[n][z].left)
        /\ LowOperand(c[z].right, join_p[n][z].right)
    BY <2>3, <2>4 DEF Low
  <2>6. \A x \in {c[z].left, c[z].right} :
          /\ x \in Operand
          /\ IsRef(x) => Resolvable(x) /\ x.column_name \in Required /\ x \in RefsOf(c)
    BY <2>3, <2>5, ReadyOperands
  <2>7. IsRef(c[z].left)
    BY <2>3, <2>5, Operands, Kinds DEF Ready
  <2>8. \A x \in RefsOf(c) : Meant(x) = 1
    BY <2>3, BoundRefs
  <2>9. \E x \in {c[z].left, c[z].right} : IsRef(x) /\ ref.column_name = x.column_name /\ ref.relation_slot = 0
    BY <2>4, <2>5, <2>7 DEF LowOperand
  <2>10. PICK x \in {c[z].left, c[z].right} : IsRef(x) /\ ref.column_name = x.column_name /\ ref.relation_slot = 0
    BY <2>9
  <2>11. x.column_name \in Columns(1) /\ x.column_name \in Required
    BY <2>6, <2>8, <2>10, OneCandidate
  <2> QED
    BY <1>2, <2>10, <2>11 DEF Slot
<1> QED
  BY <1>3, <1>5, <1>6, <1>7 DEF Missing

(* Binding the bound expression of the alias again does not change the     *)
(* relation it means.                                                      *)
LEMMA BoundTwice ==
    ASSUME NEW x \in RefType, Resolvable(x), Resolvable(Resolved(x)), range_table \in [Slot -> Relations]
    PROVE  /\ Resolved(Resolved(x)).column_name = x.column_name
           /\ Resolved(Resolved(x)).relation_slot = Meant(x)
           /\ Meant(Resolved(x)) = Meant(x)
<1> DEFINE y == Resolved(x)
<1>1. /\ y \in RefType /\ y.column_name = x.column_name
      /\ y.table_name = IF x.table_name = Unqualified THEN range_table[Meant(x)].table_name ELSE x.table_name
  BY ResolvedFacts
<1>2. Candidates(x) = {Meant(x)} /\ Candidates(y) = {Meant(y)}
  BY OneCandidate
<1>3. Candidates(y) \subseteq Candidates(x)
  <2>1. CASE x.table_name = Unqualified
    BY <1>1, <2>1 DEF Candidates
  <2>2. CASE x.table_name # Unqualified
    BY <1>1, <2>2 DEF Candidates
  <2> QED
    BY <2>1, <2>2
<1>4. Meant(y) = Meant(x)
  BY <1>2, <1>3
<1>5. Resolved(y).column_name = y.column_name /\ Resolved(y).relation_slot = Meant(y)
  BY <1>1, ResolvedFacts
<1> QED
  BY <1>1, <1>4, <1>5

-----------------------------------------------------------------------------
(* The actions.                                                            *)

(* What Valid speaks of does not change.                                   *)
LEMMA SameMeaning ==
    ASSUME UNCHANGED <<range_table, rows, typed>>
    PROVE  /\ Valid' <=> Valid
           /\ Wanted' = Wanted
           /\ \A x : Resolvable(x)' <=> Resolvable(x)
           /\ \A x : Resolved(x)' = Resolved(x) /\ Meant(x)' = Meant(x)
           /\ \A c : BoundConjunct(c)' = BoundConjunct(c) /\ (AllResolvable(c)' <=> AllResolvable(c))
BY DEF Valid, Wanted, Resolvable, Resolved, Meant, Candidates, Columns, BoundConjunct, Bound, AllResolvable,
       TypedRefs, Means

LEMMA TypedOf ==
    ASSUME TypeInv
    PROVE  /\ DOMAIN where = 1 .. Len(where) /\ Len(where) \in Nat
           /\ DOMAIN typed.where = 1 .. Len(where)
           /\ \A n \in 1 .. Len(where) : typed.where[n] \in Seq(Equality) /\ where[n] \in Seq(Equality)
           /\ range_table \in [Slot -> Relations]
           /\ typed.on[1] \in RefType /\ typed.on[2] \in RefType
BY DEF TypeInv

(* Nothing is pushed before all of the statement is bound.                 *)
LEMMA NothingPushed ==
    ASSUME Pushed, at \notin Bound2, at' \notin {"push"}, at' \in Bound2 => ~ optimize,
           UNCHANGED <<pushed, optimize>>
    PROVE  Pushed'
BY DEF Pushed, pushed

LEMMA SameNamesStep == QueryInv /\ SameNames => QueryInv'
<1> SUFFICES ASSUME QueryInv, SameNames PROVE QueryInv'
  OBVIOUS
<1>1. /\ at = "open" /\ at' = "error" /\ range_table[0].ref_name = range_table[1].ref_name
      /\ UNCHANGED <<range_table, rows, select, where, on, ordered, typed, optimize, todo, order_key,
                     pushed, joined, sort_column>>
  BY DEF SameNames, Fail, statement
<1>2. TypeInv'
  BY <1>1 DEF QueryInv, TypeInv, Columns
<1>3. BoundSoFar'
  BY <1>1 DEF BoundSoFar, Bound1, Bound2
<1>4. Pushed'
  BY <1>1, NothingPushed DEF QueryInv, Bound2
<1>5. Rejected'
  <2>1. ~ Valid
    BY <1>1 DEF Valid
  <2> QED
    BY <1>1, <2>1, SameMeaning DEF Rejected
<1>6. PlanExact' /\ OrderExact'
  BY <1>1 DEF PlanExact, OrderExact
<1> QED
  BY <1>2, <1>3, <1>4, <1>5, <1>6 DEF QueryInv

LEMMA BindSelectStep == QueryInv /\ BindSelect => QueryInv'
<1> SUFFICES ASSUME QueryInv, BindSelect PROVE QueryInv'
  OBVIOUS
<1>1. /\ at = "open" /\ range_table[0].ref_name # range_table[1].ref_name
      /\ UNCHANGED <<range_table, rows, where, on, ordered, typed, optimize, todo, order_key,
                     pushed, joined, sort_column>>
      /\ \/ Resolvable(select) /\ select' = Resolved(select) /\ at' = "where"
         \/ ~ Resolvable(select) /\ at' = "error" /\ select' = select
  BY DEF BindSelect, Fail
<1>2. select = typed.select /\ todo = 1 /\ on = typed.on /\ \A n \in 1 .. Len(where) : where[n] = typed.where[n]
  <2>1. 1 .. Len(where) \subseteq Nat /\ \A n \in 1 .. Len(where) : ~ (n < 1)
    OBVIOUS
  <2> QED
    BY <1>1, <2>1 DEF QueryInv, BoundSoFar
<1>3. TypeInv'
  BY <1>1 DEF QueryInv, TypeInv, Columns
<1>4. BoundSoFar'
  <2>1. \A n \in 1 .. Len(where) : ~ (n < 1)
    OBVIOUS
  <2>2. \A n \in 1 .. Len(where') : where'[n] = typed.where'[n] /\ ~ (n < todo')
    BY <1>1, <1>2, <2>1
  <2>3. CASE at' = "where"
    <3>1. Resolvable(typed.select)' /\ select' = Resolved(typed.select)'
      BY <1>1, <1>2, <2>3, SameMeaning
    <3> QED
      BY <1>1, <1>2, <2>2, <2>3, <3>1 DEF BoundSoFar, Bound1, Bound2
  <2>4. CASE at' = "error"
    BY <2>4 DEF BoundSoFar, Bound1, Bound2
  <2> QED
    BY <1>1, <2>3, <2>4
<1>5. Pushed'
  BY <1>1, NothingPushed DEF QueryInv, Bound2
<1>6. Rejected'
  <2>1. at' = "error" => ~ Valid
    BY <1>1, <1>2 DEF Valid, TypedRefs
  <2> QED
    BY <1>1, <2>1, SameMeaning DEF Rejected
<1>7. PlanExact' /\ OrderExact'
  BY <1>1 DEF PlanExact, OrderExact
<1> QED
  BY <1>3, <1>4, <1>5, <1>6, <1>7 DEF QueryInv

LEMMA ReplacedIn ==
    ASSUME NEW S, NEW s \in Seq(S), NEW n \in 1 .. Len(s), NEW e \in S
    PROVE  [s EXCEPT ![n] = e] \in Seq(S) /\ Len([s EXCEPT ![n] = e]) = Len(s)
OBVIOUS

LEMMA BindConjunctStep == QueryInv /\ BindConjunct => QueryInv'
<1> SUFFICES ASSUME QueryInv, BindConjunct PROVE QueryInv'
  OBVIOUS
<1>0. TypeInv /\ BoundSoFar /\ Pushed
  BY DEF QueryInv
<1> DEFINE c == where[todo]
<1>1. /\ at = "where" /\ todo <= Len(where)
      /\ UNCHANGED <<range_table, rows, select, on, ordered, typed, optimize, order_key,
                     pushed, joined, sort_column>>
      /\ \/ AllResolvable(c) /\ where' = [where EXCEPT ![todo] = BoundConjunct(c)] /\ todo' = todo + 1 /\ at' = at
         \/ ~ AllResolvable(c) /\ at' = "error" /\ where' = where /\ todo' = todo
  BY DEF BindConjunct, Fail, AllResolvable, BoundConjunct
<1>2. /\ todo \in 1 .. Len(where) /\ Len(where) \in Nat /\ DOMAIN where = 1 .. Len(where)
      /\ DOMAIN typed.where = 1 .. Len(where) /\ c \in Seq(Equality) /\ range_table \in [Slot -> Relations]
  <2>1. todo \in 1 .. Len(where)
    BY <1>0, <1>1 DEF TypeInv
  <2> QED
    BY <1>0, <2>1, TypedOf
<1>3. /\ c = typed.where[todo]
      /\ \A n \in 1 .. Len(where) : IF n < todo THEN where[n] = BoundConjunct(typed.where[n]) /\ AllResolvable(typed.where[n])
                                                ELSE where[n] = typed.where[n]
  BY <1>0, <1>1, <1>2 DEF BoundSoFar
<1> HIDE DEF c
<1>4. /\ at' \in {"where", "error"} /\ Len(where') = Len(where) /\ where' \in Seq(Seq(Equality))
      /\ todo' \in 1 .. Len(where) + 1
  <2>1. CASE AllResolvable(c)
    <3>1. BoundConjunct(c) \in Seq(Equality)
      BY <1>2, <2>1, BoundTyped
    <3>2. where \in Seq(Seq(Equality)) /\ where' = [where EXCEPT ![todo] = BoundConjunct(c)]
      BY <1>0, <1>1, <2>1 DEF TypeInv
    <3>3. where' \in Seq(Seq(Equality)) /\ Len(where') = Len(where)
      BY <1>2, <3>1, <3>2, ReplacedIn
    <3>4. todo' \in 1 .. Len(where) + 1 /\ at' = "where"
      BY <1>1, <1>2, <2>1
    <3> QED
      BY <3>3, <3>4
  <2>2. CASE ~ AllResolvable(c)
    BY <1>0, <1>1, <1>2, <2>2 DEF TypeInv
  <2> QED
    BY <2>1, <2>2
<1>5. TypeInv'
  BY <1>0, <1>1, <1>4 DEF TypeInv, Columns
<1>6. BoundSoFar'
  <2>1. CASE AllResolvable(c)
    <3>1. at' = "where" /\ todo' = todo + 1 /\ where' = [where EXCEPT ![todo] = BoundConjunct(c)]
      BY <1>1, <2>1
    <3>2. \A n \in 1 .. Len(where') :
            IF n < todo' THEN where'[n] = BoundConjunct(typed.where[n]) /\ AllResolvable(typed.where[n])
                         ELSE where'[n] = typed.where[n]
      <4> TAKE n \in 1 .. Len(where')
      <4>1. CASE n = todo
        BY <1>2, <1>3, <1>4, <2>1, <3>1, <4>1
      <4>2. CASE n < todo
        BY <1>2, <1>3, <1>4, <3>1, <4>2
      <4>3. CASE n > todo
        BY <1>2, <1>3, <1>4, <3>1, <4>3
      <4> QED
        BY <1>2, <1>4, <4>1, <4>2, <4>3
    <3>3. \A n \in 1 .. Len(where') :
            IF n < todo' THEN where'[n] = BoundConjunct(typed.where[n])' /\ AllResolvable(typed.where[n])'
                         ELSE where'[n] = typed.where'[n]
      BY <1>1, <3>2, SameMeaning
    <3>4. /\ range_table[0].ref_name # range_table[1].ref_name
          /\ Resolvable(typed.select) /\ select = Resolved(typed.select) /\ on = typed.on
      BY <1>0, <1>1 DEF BoundSoFar
    <3>5. /\ (range_table[0].ref_name # range_table[1].ref_name)'
          /\ Resolvable(typed.select)' /\ select' = Resolved(typed.select)' /\ on' = typed.on'
      BY <1>1, <3>4, SameMeaning
    <3> QED
      BY <3>1, <3>3, <3>5 DEF BoundSoFar, Bound1, Bound2
  <2>2. CASE ~ AllResolvable(c)
    BY <1>1, <2>2 DEF BoundSoFar, Bound1, Bound2
  <2> QED
    BY <2>1, <2>2
<1>7. Pushed'
  BY <1>0, <1>1, <1>4, NothingPushed DEF Bound2
<1>8. Rejected'
  <2>1. at' = "error" => ~ Valid
    <3>1. at' = "error" => ~ AllResolvable(c)
      BY <1>1
    <3>2. RefsOf(c) \subseteq TypedRefs
      BY <1>2, <1>3 DEF TypedRefs
    <3> QED
      BY <3>1, <3>2 DEF Valid, AllResolvable
  <2> QED
    BY <1>1, <2>1, SameMeaning DEF Rejected
<1>9. PlanExact' /\ OrderExact'
  BY <1>4 DEF PlanExact, OrderExact
<1> QED
  BY <1>5, <1>6, <1>7, <1>8, <1>9 DEF QueryInv

LEMMA BindOrderStep == QueryInv /\ BindOrder => QueryInv'
<1> SUFFICES ASSUME QueryInv, BindOrder PROVE QueryInv'
  OBVIOUS
<1>0. TypeInv /\ BoundSoFar /\ Pushed
  BY DEF QueryInv
<1>1. /\ at = "where" /\ todo > Len(where)
      /\ UNCHANGED <<range_table, rows, select, where, on, ordered, typed, optimize, todo, pushed, joined, sort_column>>
      /\ \/ ~ ordered /\ at' = "on" /\ order_key' = order_key
         \/ ordered /\ Resolvable(select) /\ order_key' = Resolved(select) /\ at' = "on"
         \/ ordered /\ ~ Resolvable(select) /\ at' = "error" /\ order_key' = order_key
  BY DEF BindOrder, Fail, statement
<1>2. TypeInv'
  BY <1>0, <1>1 DEF TypeInv, Bound1, Columns
<1>3. BoundSoFar'
  <2>1. /\ range_table[0].ref_name # range_table[1].ref_name
        /\ Resolvable(typed.select) /\ select = Resolved(typed.select) /\ on = typed.on
    BY <1>0, <1>1 DEF BoundSoFar
  <2>2. \A n \in 1 .. Len(where) : where[n] = BoundConjunct(typed.where[n]) /\ AllResolvable(typed.where[n])
    <3> TAKE n \in 1 .. Len(where)
    <3>1. n < todo
      BY <1>0, <1>1 DEF TypeInv
    <3> QED
      BY <1>0, <1>1, <3>1 DEF BoundSoFar
  <2>3. /\ (range_table[0].ref_name # range_table[1].ref_name)'
        /\ Resolvable(typed.select)' /\ select' = Resolved(typed.select)' /\ on' = typed.on'
        /\ \A n \in 1 .. Len(where') : where'[n] = BoundConjunct(typed.where[n])' /\ AllResolvable(typed.where[n])'
    BY <1>1, <2>1, <2>2, SameMeaning
  <2>4. at' = "on" /\ ordered' => Resolvable(select)' /\ order_key' = Resolved(select)'
    BY <1>1, SameMeaning
  <2>5. at' \in {"on", "error"}
    BY <1>1
  <2> QED
    BY <2>3, <2>4, <2>5 DEF BoundSoFar, Bound1, Bound2
<1>4. Pushed'
  BY <1>0, <1>1, NothingPushed DEF Bound2
<1>5. Rejected'
  <2>1. ASSUME at' = "error" PROVE ordered /\ (~ Valid \/ typed.select.table_name = Unqualified)
    <3>1. ordered /\ ~ Resolvable(select) /\ select = Resolved(typed.select) /\ Resolvable(typed.select)
      BY <1>0, <1>1, <2>1 DEF BoundSoFar
    <3>2. CASE typed.select.table_name # Unqualified
      <4>1. select.table_name = typed.select.table_name /\ select.column_name = typed.select.column_name
        BY <1>0, <3>1, <3>2, ResolvedFacts DEF TypeInv
      <4>2. Candidates(select) = Candidates(typed.select)
        BY <4>1 DEF Candidates
      <4> QED
        BY <3>1, <4>2 DEF Resolvable
    <3> QED
      BY <3>1, <3>2
  <2> QED
    BY <1>1, <2>1, SameMeaning DEF Rejected
<1>6. PlanExact' /\ OrderExact'
  BY <1>1 DEF PlanExact, OrderExact
<1> QED
  BY <1>2, <1>3, <1>4, <1>5, <1>6 DEF QueryInv

LEMMA BindOnStep == QueryInv /\ BindOn => QueryInv'
<1> SUFFICES ASSUME QueryInv, BindOn PROVE QueryInv'
  OBVIOUS
<1>0. TypeInv /\ BoundSoFar /\ Pushed
  BY DEF QueryInv
<1>1. /\ at = "on"
      /\ UNCHANGED <<range_table, rows, select, where, ordered, typed, optimize, order_key, pushed, joined, sort_column>>
      /\ \/ /\ Resolvable(on[1]) /\ Resolvable(on[2]) /\ Candidates(on[1]) # Candidates(on[2])
            /\ on' = <<Resolved(on[1]), Resolved(on[2])>> /\ todo' = 1
            /\ at' = IF optimize THEN "push" ELSE "run"
         \/ /\ ~ (Resolvable(on[1]) /\ Resolvable(on[2])) \/ Candidates(on[1]) = Candidates(on[2])
            /\ at' = "error" /\ on' = on /\ todo' = todo
  BY DEF BindOn, Fail
<1>2. on = typed.on
  BY <1>0, <1>1 DEF BoundSoFar
<1>3. TypeInv'
  BY <1>0, <1>1 DEF TypeInv, Bound1, Bound2, Columns
<1>4. at' \in {"push", "run", "error"} /\ (at' = "push" => optimize) /\ (at' = "run" => ~ optimize)
  BY <1>1
<1>5. BoundSoFar'
  <2>1. /\ range_table[0].ref_name # range_table[1].ref_name
        /\ Resolvable(typed.select) /\ select = Resolved(typed.select)
        /\ \A n \in 1 .. Len(where) : where[n] = BoundConjunct(typed.where[n]) /\ AllResolvable(typed.where[n])
        /\ ordered => Resolvable(select) /\ order_key = Resolved(select)
    BY <1>0, <1>1 DEF BoundSoFar, Bound1
  <2>2. /\ (range_table[0].ref_name # range_table[1].ref_name)'
        /\ Resolvable(typed.select)' /\ select' = Resolved(typed.select)'
        /\ \A n \in 1 .. Len(where') : where'[n] = BoundConjunct(typed.where[n])' /\ AllResolvable(typed.where[n])'
        /\ ordered' => Resolvable(select)' /\ order_key' = Resolved(select)'
    BY <1>1, <2>1, SameMeaning
  <2>3. at' # "error" =>
          /\ Resolvable(typed.on[1]) /\ Resolvable(typed.on[2]) /\ Meant(typed.on[1]) # Meant(typed.on[2])
          /\ on' = <<Resolved(typed.on[1]), Resolved(typed.on[2])>>
    <3> SUFFICES ASSUME at' # "error"
                 PROVE  /\ Resolvable(typed.on[1]) /\ Resolvable(typed.on[2])
                        /\ Meant(typed.on[1]) # Meant(typed.on[2])
                        /\ on' = <<Resolved(typed.on[1]), Resolved(typed.on[2])>>
      OBVIOUS
    <3>1. /\ Resolvable(typed.on[1]) /\ Resolvable(typed.on[2])
          /\ Candidates(typed.on[1]) # Candidates(typed.on[2])
          /\ on' = <<Resolved(typed.on[1]), Resolved(typed.on[2])>>
      BY <1>1, <1>2
    <3>2. /\ Candidates(typed.on[1]) = {Meant(typed.on[1])}
          /\ Candidates(typed.on[2]) = {Meant(typed.on[2])}
      BY <3>1, OneCandidate
    <3> QED
      BY <3>1, <3>2
  <2>4. at' # "error" =>
          /\ Resolvable(typed.on[1])' /\ Resolvable(typed.on[2])' /\ (Meant(typed.on[1]) # Meant(typed.on[2]))'
          /\ on' = <<Resolved(typed.on[1])', Resolved(typed.on[2])'>>
    BY <1>1, <2>3, SameMeaning
  <2> QED
    BY <1>4, <2>2, <2>4 DEF BoundSoFar, Bound1, Bound2
<1>6. Pushed'
  <2>1. from_p = << >> /\ join_p = << >> /\ residual_p = << >> /\ from_p' = << >> /\ join_p' = << >> /\ residual_p' = << >>
    BY <1>0, <1>1 DEF Pushed, Bound2, pushed
  <2>2. \A class : at' = "push" => Handled(class)' = {}
    <3>1. at' = "push" => \A m \in 1 .. Len(where') : ~ (m < todo')
      BY <1>1
    <3> QED
      BY <3>1 DEF Handled
  <2>3. Members(from_p)' = {} /\ Members(join_p)' = {} /\ Members(residual_p)' = {}
    BY <2>1 DEF Members
  <2>4. at' = "push" => /\ Handled("from")' = {} /\ Handled("join")' = {} /\ Handled("residual")' = {}
    BY <2>2, Zenon
  <2>5. << >> \in Seq(Seq(Equality))
    OBVIOUS
  <2>6. at' = "push" => {Restamped(c) : c \in Handled("join")}' = {}
    BY <2>4
  <2> QED
    BY <1>1, <1>4, <2>1, <2>3, <2>4, <2>5, <2>6 DEF Pushed, Bound2
<1>7. Rejected'
  <2>1. ASSUME at' = "error" PROVE ~ Valid
    <3>1. ~ (Resolvable(typed.on[1]) /\ Resolvable(typed.on[2])) \/ Candidates(typed.on[1]) = Candidates(typed.on[2])
      BY <1>1, <1>2, <2>1
    <3>2. typed.on[1] \in TypedRefs /\ typed.on[2] \in TypedRefs
      BY DEF TypedRefs
    <3>3. Candidates(typed.on[1]) = Candidates(typed.on[2]) => Meant(typed.on[1]) = Meant(typed.on[2])
      BY DEF Meant
    <3> QED
      BY <3>1, <3>2, <3>3 DEF Valid
  <2> QED
    BY <1>1, <2>1, SameMeaning DEF Rejected
<1>8. PlanExact' /\ OrderExact'
  BY <1>4 DEF PlanExact, OrderExact
<1> QED
  BY <1>3, <1>5, <1>6, <1>7, <1>8 DEF QueryInv

(* Binding is over: what is bound stays so.                                *)
LEMMA StillBound ==
    ASSUME BoundSoFar, at \in Bound2, at' \in Bound2,
           UNCHANGED <<range_table, rows, typed, select, where, on, ordered, order_key>>
    PROVE  BoundSoFar'
<1>1. at \in Bound1 /\ at' \in Bound1 /\ at' \notin {"open", "where", "on"}
  BY DEF Bound1, Bound2
<1>2. /\ range_table[0].ref_name # range_table[1].ref_name
      /\ Resolvable(typed.select) /\ select = Resolved(typed.select)
      /\ \A n \in 1 .. Len(where) : where[n] = BoundConjunct(typed.where[n]) /\ AllResolvable(typed.where[n])
      /\ ordered => Resolvable(select) /\ order_key = Resolved(select)
      /\ Resolvable(typed.on[1]) /\ Resolvable(typed.on[2]) /\ Meant(typed.on[1]) # Meant(typed.on[2])
      /\ on = <<Resolved(typed.on[1]), Resolved(typed.on[2])>>
  BY <1>1 DEF BoundSoFar
<1>3. /\ (range_table[0].ref_name # range_table[1].ref_name)'
      /\ Resolvable(typed.select)' /\ select' = Resolved(typed.select)'
      /\ \A n \in 1 .. Len(where') : where'[n] = BoundConjunct(typed.where[n])' /\ AllResolvable(typed.where[n])'
      /\ ordered' => Resolvable(select)' /\ order_key' = Resolved(select)'
      /\ Resolvable(typed.on[1])' /\ Resolvable(typed.on[2])' /\ (Meant(typed.on[1]) # Meant(typed.on[2]))'
      /\ on' = <<Resolved(typed.on[1])', Resolved(typed.on[2])'>>
  BY <1>2, SameMeaning
<1> QED
  BY <1>1, <1>3 DEF BoundSoFar

LEMMA AppendMembers ==
    ASSUME NEW S, NEW s \in Seq(S), NEW e \in S
    PROVE  Append(s, e) \in Seq(S) /\ Members(Append(s, e)) = Members(s) \cup {e}
<1>1. /\ Append(s, e) \in Seq(S) /\ DOMAIN Append(s, e) = DOMAIN s \cup {Len(s) + 1}
      /\ \A n \in DOMAIN s : Append(s, e)[n] = s[n]
      /\ Append(s, e)[Len(s) + 1] = e
  OBVIOUS
<1>2. \A x : x \in Members(Append(s, e)) <=> x \in Members(s) \/ x = e
  BY <1>1 DEF Members
<1> QED
  BY <1>1, <1>2

LEMMA PushStep == QueryInv /\ Push => QueryInv'
<1> SUFFICES ASSUME QueryInv, Push PROVE QueryInv'
  OBVIOUS
<1>0. TypeInv /\ BoundSoFar /\ Pushed /\ at \in Bound2
  BY DEF QueryInv, Push, Bound2
<1> DEFINE c == where[todo]
           S == Seq(Equality)
<1>1. /\ at = "push" /\ at' = "push" /\ todo <= Len(where) /\ todo' = todo + 1
      /\ UNCHANGED <<range_table, rows, select, where, on, ordered, typed, optimize, order_key, joined, sort_column>>
      /\ from_p' = IF Classify(c) = "from" THEN Append(from_p, c) ELSE from_p
      /\ join_p' = IF Classify(c) = "join" THEN Append(join_p, Restamped(c)) ELSE join_p
      /\ residual_p' = IF Classify(c) = "residual" THEN Append(residual_p, c) ELSE residual_p
  BY DEF Push, statement
<1>2. todo \in 1 .. Len(where) /\ Len(where) \in Nat
  BY <1>0, <1>1, TypedOf DEF TypeInv
<1>3. c \in S /\ Restamped(c) \in S
  BY <1>0, <1>2, TypedOf, Mentioned, Stamps
<1>4. TypeInv'
  <2>1. todo' \in 1 .. Len(where') + 1
    BY <1>1, <1>2
  <2> HIDE DEF c, S
  <2> QED
    BY <1>0, <1>1, <2>1 DEF TypeInv, Columns
<1>5. BoundSoFar'
  BY <1>0, <1>1, StillBound
<1>6. Pushed'
  <2>1. /\ optimize /\ from_p \in Seq(S) /\ join_p \in Seq(S) /\ residual_p \in Seq(S)
        /\ Members(from_p) = Handled("from") /\ Members(residual_p) = Handled("residual")
        /\ Members(join_p) = {Restamped(b) : b \in Handled("join")}
    BY <1>0, <1>1 DEF Pushed
  <2>2. ASSUME NEW class
        PROVE  Handled(class)' = Handled(class) \cup (IF Classify(c) = class THEN {c} ELSE {})
    <3>1. \A m \in 1 .. Len(where) : m < todo' <=> m < todo \/ m = todo
      BY <1>1, <1>2
    <3>2. \A b : b \in Handled(class) <=> \E m \in 1 .. Len(where) : m < todo /\ Classify(where[m]) = class /\ b = where[m]
      BY <1>1 DEF Handled
    <3>3. \A b : b \in Handled(class)' <=> \E m \in 1 .. Len(where) : m < todo' /\ Classify(where[m]) = class /\ b = where[m]
      BY <1>1 DEF Handled
    <3>4. \A b : b \in Handled(class)' <=> b \in Handled(class) \/ (Classify(c) = class /\ b = c)
      BY <1>2, <3>1, <3>2, <3>3
    <3> QED
      BY <3>4
  <2>3. /\ Handled("from")' = Handled("from") \cup (IF Classify(c) = "from" THEN {c} ELSE {})
        /\ Handled("join")' = Handled("join") \cup (IF Classify(c) = "join" THEN {c} ELSE {})
        /\ Handled("residual")' = Handled("residual") \cup (IF Classify(c) = "residual" THEN {c} ELSE {})
    BY <2>2
  <2> HIDE DEF c, S
  <2>4. from_p' \in Seq(S) /\ Members(from_p)' = Handled("from")'
    <3>1. CASE Classify(c) = "from"
      <4>1. Members(from_p') = Members(from_p) \cup {c} /\ from_p' \in Seq(S)
        BY <1>1, <1>3, <2>1, <3>1, AppendMembers
      <4> QED
        BY <2>1, <2>3, <3>1, <4>1 DEF Members
    <3>2. CASE Classify(c) # "from"
      <4>1. Handled("from")' = Handled("from") /\ from_p' = from_p
        BY <1>1, <2>3, <3>2
      <4> QED
        BY <2>1, <4>1 DEF Members
    <3> QED
      BY <3>1, <3>2
  <2>5. join_p' \in Seq(S) /\ Members(join_p)' = {Restamped(b) : b \in Handled("join")'}
    <3>1. CASE Classify(c) = "join"
      <4>1. Members(join_p') = Members(join_p) \cup {Restamped(c)} /\ join_p' \in Seq(S)
        BY <1>1, <1>3, <2>1, <3>1, AppendMembers
      <4>2. {Restamped(b) : b \in Handled("join")'} = {Restamped(b) : b \in Handled("join")} \cup {Restamped(c)}
        BY <2>3, <3>1
      <4> QED
        BY <2>1, <4>1, <4>2 DEF Members
    <3>2. CASE Classify(c) # "join"
      <4>1. Handled("join")' = Handled("join") /\ join_p' = join_p
        BY <1>1, <2>3, <3>2
      <4> QED
        BY <2>1, <4>1 DEF Members
    <3> QED
      BY <3>1, <3>2
  <2>6. residual_p' \in Seq(S) /\ Members(residual_p)' = Handled("residual")'
    <3>1. CASE Classify(c) = "residual"
      <4>1. Members(residual_p') = Members(residual_p) \cup {c} /\ residual_p' \in Seq(S)
        BY <1>1, <1>3, <2>1, <3>1, AppendMembers
      <4> QED
        BY <2>1, <2>3, <3>1, <4>1 DEF Members
    <3>2. CASE Classify(c) # "residual"
      <4>1. Handled("residual")' = Handled("residual") /\ residual_p' = residual_p
        BY <1>1, <2>3, <3>2
      <4> QED
        BY <2>1, <4>1 DEF Members
    <3> QED
      BY <3>1, <3>2
  <2>7. {Restamped(b) : b \in Handled("join")}' = {Restamped(b) : b \in Handled("join")'}
    OBVIOUS
  <2>8. at' \in Bound2 /\ optimize'
    BY <1>1, <2>1 DEF Bound2
  <2> QED
    BY <2>4, <2>5, <2>6, <2>7, <2>8 DEF Pushed, S
<1>7. Rejected' /\ PlanExact' /\ OrderExact'
  BY <1>1 DEF Rejected, PlanExact, OrderExact
<1> QED
  BY <1>4, <1>5, <1>6, <1>7 DEF QueryInv

(* Ordering a filter keeps its conjuncts.                                  *)
LEMMA OrderedMembers ==
    ASSUME NEW S, NEW s \in Seq(S), NEW t \in Orders(s)
    PROVE  t \in Seq(S) /\ Members(t) = Members(s)
<1>1. t \in [DOMAIN s -> Members(s)] /\ Permuted(s, t)
  BY DEF Orders, Members
<1>2. PICK f \in [DOMAIN s -> DOMAIN s] :
         {f[n] : n \in DOMAIN s} = DOMAIN s /\ t = [n \in DOMAIN s |-> s[f[n]]]
  BY <1>1 DEF Permuted
<1>3. DOMAIN s = 1 .. Len(s) /\ Len(s) \in Nat /\ \A n \in DOMAIN s : s[n] \in S
  OBVIOUS
<1>4. DOMAIN t = DOMAIN s /\ \A n \in DOMAIN s : t[n] = s[f[n]] /\ t[n] \in S
  BY <1>2, <1>3
<1>5. t \in Seq(S)
  <2>1. t \in [1 .. Len(s) -> S]
    BY <1>2, <1>3, <1>4
  <2> QED
    BY <1>3, <2>1
<1>6. \A m \in DOMAIN s : \E n \in DOMAIN s : f[n] = m
  BY <1>2
<1>7. \A x : x \in Members(t) <=> \E n \in DOMAIN s : x = s[f[n]]
  BY <1>4 DEF Members
<1>8. \A x : x \in Members(s) <=> \E n \in DOMAIN s : x = s[n]
  BY DEF Members
<1>9. Members(t) = Members(s)
  <2>1. \A n \in DOMAIN s : s[f[n]] \in Members(s)
    BY <1>8
  <2>2. \A m \in DOMAIN s : s[m] \in Members(t)
    BY <1>6, <1>7
  <2> QED
    BY <1>7, <1>8, <2>1, <2>2
<1> QED
  BY <1>5, <1>9

(* From the end of pushdown on every conjunct has been visited.            *)
LEMMA AllVisited ==
    ASSUME at = "push" => todo > Len(where), Len(where) \in Nat, todo \in Nat, at' # "push", where' = where, NEW class
    PROVE  Handled(class)' = Handled(class)
<1>1. \A m \in 1 .. Len(where) : (at = "push" => m < todo) /\ (at' = "push" => m < todo')
  OBVIOUS
<1> QED
  BY <1>1 DEF Handled

LEMMA OrderByWorkStep == QueryInv /\ OrderByWork => QueryInv'
<1> SUFFICES ASSUME QueryInv, OrderByWork PROVE QueryInv'
  OBVIOUS
<1>0. TypeInv /\ BoundSoFar /\ Pushed /\ at \in Bound2
  BY DEF QueryInv, OrderByWork, Bound2
<1>1. /\ at = "push" /\ at' = "run" /\ todo > Len(where)
      /\ UNCHANGED <<range_table, rows, select, where, on, ordered, typed, optimize, todo, order_key, joined, sort_column>>
      /\ from_p' \in Orders(from_p) /\ join_p' \in Orders(join_p) /\ residual_p' \in Orders(residual_p)
  BY DEF OrderByWork, statement
<1>2. TypeInv'
  BY <1>0, <1>1 DEF TypeInv, Columns, Bound1, Bound2
<1>3. BoundSoFar'
  <2>1. at' \in Bound2
    BY <1>1 DEF Bound2
  <2> QED
    BY <1>0, <1>1, <2>1, StillBound
<1>4. Pushed'
  <2>1. /\ optimize /\ from_p \in Seq(Seq(Equality)) /\ join_p \in Seq(Seq(Equality)) /\ residual_p \in Seq(Seq(Equality))
        /\ Members(from_p) = Handled("from") /\ Members(residual_p) = Handled("residual")
        /\ Members(join_p) = {Restamped(b) : b \in Handled("join")}
    BY <1>0, <1>1 DEF Pushed
  <2>2. Len(where) \in Nat /\ todo \in Nat
    BY <1>0, TypedOf DEF TypeInv
  <2>3. /\ Handled("from")' = Handled("from") /\ Handled("join")' = Handled("join")
        /\ Handled("residual")' = Handled("residual")
    BY <1>1, <2>2, AllVisited
  <2>4. /\ from_p' \in Seq(Seq(Equality)) /\ Members(from_p') = Members(from_p)
        /\ join_p' \in Seq(Seq(Equality)) /\ Members(join_p') = Members(join_p)
        /\ residual_p' \in Seq(Seq(Equality)) /\ Members(residual_p') = Members(residual_p)
    BY <1>1, <2>1, OrderedMembers
  <2>5. /\ Members(from_p)' = Members(from_p') /\ Members(join_p)' = Members(join_p')
        /\ Members(residual_p)' = Members(residual_p')
    BY DEF Members
  <2>6. {Restamped(b) : b \in Handled("join")}' = {Restamped(b) : b \in Handled("join")}
    BY <2>3
  <2>7. at' \in Bound2 /\ at' # "push" /\ optimize'
    BY <1>1, <2>1 DEF Bound2
  <2> QED
    BY <2>1, <2>3, <2>4, <2>5, <2>6, <2>7 DEF Pushed
<1>5. Rejected' /\ PlanExact' /\ OrderExact'
  BY <1>1 DEF Rejected, PlanExact, OrderExact
<1> QED
  BY <1>2, <1>3, <1>4, <1>5 DEF QueryInv

(* The column that ORDER BY sorts by.                                      *)
LEMMA SortsBy ==
    ASSUME QueryInv, at = "run", ordered
    PROVE  LET col == CHOOSE c \in Lookup(order_key, MergedSchema) : TRUE
           IN  <<col.of, col.column_name>> = <<Meant(typed.select), typed.select.column_name>>
<1>1. /\ TypeInv /\ BoundSoFar /\ at \in Bound2 /\ at \in Bound1
  BY DEF QueryInv, Bound1, Bound2
<1>2. /\ typed.select \in RefType /\ range_table \in [Slot -> Relations]
      /\ Resolvable(typed.select) /\ select = Resolved(typed.select) /\ select.column_name \in Required
      /\ Resolvable(select) /\ order_key = Resolved(select)
  BY <1>1, Mentioned DEF TypeInv, BoundSoFar
<1>3. /\ order_key.column_name = typed.select.column_name /\ order_key.relation_slot = Meant(typed.select)
      /\ select.column_name = typed.select.column_name
  BY <1>2, BoundTwice, ResolvedFacts
<1>4. Meant(typed.select) \in Slot /\ typed.select.column_name \in Columns(Meant(typed.select))
  BY <1>2, OneCandidate
<1> DEFINE s == Meant(typed.select)
           found == Column(s, typed.select.column_name, s)
<1>5. Lookup(order_key, MergedSchema) = {found}
  BY <1>2, <1>3, <1>4, LookupMerged
<1>6. found.of = s /\ found.column_name = typed.select.column_name
  BY DEF Column
<1> HIDE DEF found, s
<1>7. (CHOOSE c \in Lookup(order_key, MergedSchema) : TRUE) = found
  BY <1>5
<1> QED
  BY <1>6, <1>7 DEF s

LEMMA RunStep == QueryInv /\ Run => QueryInv'
<1> SUFFICES ASSUME QueryInv, Run PROVE QueryInv'
  OBVIOUS
<1>0. TypeInv /\ BoundSoFar /\ Pushed /\ at \in Bound2
  BY DEF QueryInv, Run, Bound2
<1>1. /\ at = "run" /\ at' = "done"
      /\ UNCHANGED <<range_table, rows, select, where, on, ordered, typed, optimize, todo, order_key,
                     from_p, join_p, residual_p>>
      /\ joined' = Wanted
      /\ ordered => sort_column' = <<Meant(typed.select), typed.select.column_name>>
  <2>1. at = "run" /\ ~ Missing
    BY NothingMissing DEF Run
  <2>2. /\ at' = "done"
        /\ UNCHANGED <<range_table, rows, select, where, on, ordered, typed, optimize, todo, order_key,
                       from_p, join_p, residual_p>>
    BY <2>1 DEF Run, statement, pushed
  <2>3. joined' = Wanted
    BY <2>1, PlanAnswers DEF Run
  <2>4. ordered => sort_column' = <<Meant(typed.select), typed.select.column_name>>
    BY <2>1, SortsBy DEF Run
  <2> QED
    BY <2>1, <2>2, <2>3, <2>4
<1>2. TypeInv'
  BY <1>0, <1>1 DEF TypeInv, Columns, Bound1, Bound2
<1>3. at' \in Bound2
  BY <1>1 DEF Bound2
<1>4. BoundSoFar'
  BY <1>0, <1>1, <1>3, StillBound
<1>5. Pushed'
  <2>1. Len(where) \in Nat /\ todo \in Nat
    BY <1>0, TypedOf DEF TypeInv
  <2>2. /\ Handled("from")' = Handled("from") /\ Handled("join")' = Handled("join")
        /\ Handled("residual")' = Handled("residual")
    BY <1>1, <2>1, AllVisited
  <2>3. {Restamped(b) : b \in Handled("join")}' = {Restamped(b) : b \in Handled("join")}
    BY <2>2
  <2>4. /\ Members(from_p)' = Members(from_p) /\ Members(join_p)' = Members(join_p)
        /\ Members(residual_p)' = Members(residual_p)
    BY <1>1 DEF Members
  <2>5. at' # "push"
    BY <1>1
  <2> QED
    BY <1>0, <1>1, <1>3, <2>2, <2>3, <2>4, <2>5 DEF Pushed
<1>6. Rejected'
  BY <1>1 DEF Rejected
<1>7. PlanExact' /\ OrderExact'
  BY <1>1, SameMeaning DEF PlanExact, OrderExact
<1> QED
  BY <1>2, <1>4, <1>5, <1>6, <1>7 DEF QueryInv

-----------------------------------------------------------------------------
(* The invariant.                                                          *)

LEMMA QueryInitInv == QueryInit => QueryInv
<1> SUFFICES ASSUME QueryInit PROVE QueryInv
  OBVIOUS
<1>1. /\ range_table \in [Slot -> Relations] /\ \A s \in Slot : rows[s] \in Tables[range_table[s].table_name]
      /\ select \in Selects /\ where \in Wheres /\ on \in Ons /\ ordered \in BOOLEAN /\ optimize \in BOOLEAN
      /\ typed.select = select /\ typed.where = where /\ typed.on = on
      /\ at = "open" /\ todo = 1
      /\ from_p = << >> /\ join_p = << >> /\ residual_p = << >>
  BY DEF QueryInit
<1>2. /\ select \in RefType /\ on \in RefType \X RefType /\ where \in Seq(Seq(Equality))
  BY <1>1, StatementAssumption
<1>3. TypeInv
  <2>1. \A s \in Slot : rows[s] \subseteq [Columns(s) -> Value]
    BY <1>1, RelationAssumption DEF Columns
  <2>2. Len(where) \in Nat
    BY <1>2
  <2>3. todo \in 1 .. Len(where) + 1
    BY <1>1, <2>2
  <2> HIDE DEF QueryInit
  <2> QED
    BY <1>1, <1>2, <2>1, <2>3 DEF TypeInv
<1>4. BoundSoFar
  <2>1. \A n \in 1 .. Len(where) : ~ (n < 1)
    BY <1>2
  <2> HIDE DEF QueryInit
  <2> QED
    BY <1>1, <2>1 DEF BoundSoFar, Bound1, Bound2
<1>5. Pushed
  <2>1. << >> \in Seq(Seq(Equality))
    OBVIOUS
  <2> QED
    BY <1>1, <2>1 DEF Pushed, Bound2
<1>6. Rejected /\ PlanExact /\ OrderExact
  BY <1>1 DEF Rejected, PlanExact, OrderExact
<1> QED
  BY <1>3, <1>4, <1>5, <1>6 DEF QueryInv

LEMMA StutterStep == QueryInv /\ UNCHANGED queryVars => QueryInv'
<1> SUFFICES ASSUME QueryInv, UNCHANGED queryVars PROVE QueryInv'
  OBVIOUS
<1>1. /\ UNCHANGED <<range_table, rows, select, where, on, ordered, typed, optimize, at, todo, order_key,
                     from_p, join_p, residual_p, joined, sort_column>>
  BY DEF queryVars, statement, pushed
<1>2. TypeInv'
  BY <1>1 DEF QueryInv, TypeInv, Columns
<1>3. BoundSoFar'
  BY <1>1, SameMeaning DEF QueryInv, BoundSoFar
<1>4. Pushed'
  <2>1. /\ Handled("from")' = Handled("from") /\ Handled("join")' = Handled("join")
        /\ Handled("residual")' = Handled("residual")
    BY <1>1 DEF Handled
  <2>2. {Restamped(b) : b \in Handled("join")}' = {Restamped(b) : b \in Handled("join")}
    BY <2>1
  <2>3. /\ Members(from_p)' = Members(from_p) /\ Members(join_p)' = Members(join_p)
        /\ Members(residual_p)' = Members(residual_p)
    BY <1>1 DEF Members
  <2> QED
    BY <1>1, <2>1, <2>2, <2>3 DEF QueryInv, Pushed
<1>5. Rejected' /\ PlanExact' /\ OrderExact'
  BY <1>1, SameMeaning DEF QueryInv, Rejected, PlanExact, OrderExact
<1> QED
  BY <1>2, <1>3, <1>4, <1>5 DEF QueryInv

(* Every step keeps the invariant.                                         *)
LEMMA QueryStepInv == QueryInv /\ [QueryNext]_queryVars => QueryInv'
BY SameNamesStep, BindSelectStep, BindConjunctStep, BindOrderStep, BindOnStep, PushStep, OrderByWorkStep,
   RunStep, StutterStep DEF QueryNext

(* What has been bound is the resolution of what was typed, and pushdown   *)
(* has split the conjuncts it has visited by the relations they name.      *)
THEOREM QueryInvariance == QuerySpec => []QueryInv
<1>1. QueryInit => QueryInv
  BY QueryInitInv
<1>2. QueryInv /\ [QueryNext]_queryVars => QueryInv'
  BY QueryStepInv
<1> QED
  BY <1>1, <1>2, PTL DEF QuerySpec

(* For all relations, rows and statements, with and without the optimizer, *)
(* the plan yields exactly the pairs of rows the statement asks for, and   *)
(* no operator misses a column that the narrowed scans dropped.            *)
THEOREM PlanExactTheorem == QuerySpec => []PlanExact
<1>1. QueryInv => PlanExact
  BY DEF QueryInv
<1> QED
  BY <1>1, QueryInvariance, PTL

(* ORDER BY an alias sorts by the column that the alias stands for, though *)
(* the bound expression is bound a second time.                            *)
THEOREM OrderExactTheorem == QuerySpec => []OrderExact
<1>1. QueryInv => OrderExact
  BY DEF QueryInv
<1> QED
  BY <1>1, QueryInvariance, PTL

(* A statement that gets as far as a plan is one SQL accepts.              *)
LEMMA PlannedIsValid ==
    ASSUME QueryInv, at \in Bound2
    PROVE  Valid
<1>1. TypeInv /\ BoundSoFar /\ at \in {"where"} \cup Bound1
  BY DEF QueryInv, Bound1
<1>2. \A ref \in TypedRefs : Resolvable(ref)
  <2>1. Resolvable(typed.select) /\ Resolvable(typed.on[1]) /\ Resolvable(typed.on[2])
    BY <1>1 DEF BoundSoFar
  <2>2. \A n \in DOMAIN typed.where : \A ref \in RefsOf(typed.where[n]) : Resolvable(ref)
    BY <1>1, Mentioned DEF Ready, AllResolvable
  <2> QED
    BY <2>1, <2>2 DEF TypedRefs
<1>3. range_table[0].ref_name # range_table[1].ref_name /\ Meant(typed.on[1]) # Meant(typed.on[2])
  BY <1>1 DEF BoundSoFar
<1> QED
  BY <1>2, <1>3 DEF Valid

(* Every statement that SQL rejects is rejected before a row is read, and  *)
(* one that SQL accepts is rejected in one case only: an unqualified       *)
(* column whose alias ORDER BY names.                                      *)
THEOREM RejectionTheorem ==
    QuerySpec => [](/\ at \in {"push", "run", "done"} => Valid
                    /\ at = "error" => ~ Valid \/ (ordered /\ typed.select.table_name = Unqualified))
<1>1. QueryInv => /\ at \in {"push", "run", "done"} => Valid
                  /\ at = "error" => ~ Valid \/ (ordered /\ typed.select.table_name = Unqualified)
  BY PlannedIsValid DEF QueryInv, Rejected, Bound2
<1> QED
  BY <1>1, QueryInvariance, PTL

(* When every select list is qualified, exactly the statements that SQL    *)
(* rejects are rejected.                                                   *)
THEOREM RejectsInvalidTheorem ==
    ASSUME \A ref \in Selects : ref.table_name # Unqualified
    PROVE  QuerySpec => []RejectsInvalid
<1>1. QueryInv => RejectsInvalid
  <2> SUFFICES ASSUME QueryInv PROVE RejectsInvalid
    OBVIOUS
  <2>1. typed.select.table_name # Unqualified
    BY DEF QueryInv, TypeInv
  <2> QED
    BY <2>1, PlannedIsValid DEF QueryInv, Rejected, RejectsInvalid, Bound2
<1> QED
  BY <1>1, QueryInvariance, PTL

(* No conjunct about one relation only is left above the join.             *)
THEOREM PushedDownTheorem == QuerySpec => []PushedDown
<1>1. QueryInv => PushedDown
  <2> SUFFICES ASSUME QueryInv, optimize, at \in {"run", "done"}, NEW n \in DOMAIN residual_p
               PROVE  Slots(residual_p[n]) \notin {{0}, {1}}
    BY DEF PushedDown
  <2>1. residual_p[n] \in Handled("residual")
    BY DEF QueryInv, Pushed, Bound2, Members
  <2>2. Classify(residual_p[n]) = "residual"
    BY <2>1 DEF Handled
  <2> QED
    BY <2>2 DEF Classify
<1> QED
  BY <1>1, QueryInvariance, PTL
=============================================================================
