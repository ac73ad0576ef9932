---------------------------- MODULE MCVecPipeline ----------------------------
(* Small instances of VecPipeline: tables of up to two chunks of two       *)
(* batches.                                                                *)
EXTENDS VecPipeline, TLC

P(c, o, l) == [col |-> c, op |-> o, lit |-> l]
CONSTANTS a, b

(* One column, every operator, a conjunction, a disjunction the pruner     *)
(* must ignore, and no WHERE at all.                                       *)
OneColumnWheres ==
    {{}} \cup {{{P(a, op, 1)}} : op \in Op}
         \cup {{{P(a, ">=", 1)}, {P(a, "!=", 1)}},
               {{P(a, "=", 0), P(a, ">", 1)}}}

(* Two columns: either conjunct alone may exclude a chunk.                 *)
TwoColumnWheres ==
    {{{P(a, "=", 1)}, {P(b, "<", 1)}},
     {{P(a, ">", 0)}, {P(b, "=", 0), P(b, ">", 0)}},
     {{P(a, "=", 1), P(b, "=", 1)}}}

AllWheres  == OneColumnWheres \cup TwoColumnWheres
AnyProject == BOOLEAN
SomeFail   == {{}, {2}, {0, 3}}

-----------------------------------------------------------------------------
(* The tables.  Column a takes every value; b is the same throughout a     *)
(* chunk, or throughout the table.                                         *)

Tables(n, valuesOfB) ==
    {[r \in 0 .. n - 1 |-> (a :> as[r]) @@ (b :> bs[r \div ChunkSize])] :
        as \in [0 .. n - 1 -> Value], bs \in valuesOfB}

ZoneMaps(t, n) ==
    [c \in Col |-> [k \in ChunkIds(n) |->
        CHOOSE z \in Zone : IsZone(z, [r \in 0 .. n - 1 |-> t[r][c]], k, n)]]

Loaded(n, t) == num_rows = n /\ table = t /\ zone_maps = ZoneMaps(t, n)

(* Two columns, with NaN: what the zone maps may exclude.                  *)
Pruned ==
    /\ \E t \in Tables(MaxRows, [0 .. 1 -> Value]) : Loaded(MaxRows, t)
    /\ where \in AllWheres /\ limit \in {NoLimit, 3} /\ project = TRUE /\ failing = {}

(* One column that matters: limits inside, between and beyond batches,     *)
(* with and without a projection, select lists that raise.                 *)
Cut ==
    /\ \E n \in 0 .. MaxRows : \E t \in Tables(n, [0 .. 1 -> {0}]) : Loaded(n, t)
    /\ where \in {{}, {{P(a, "=", 1)}}, {{P(a, "<", 1)}}}

MCInit == (Pruned \/ Cut) /\ Init
MCSpec == MCInit /\ [][Next]_vars /\ WF_vars(Next)
=============================================================================
