---------------------------- MODULE MCJoinQuery ----------------------------
(* Small instances of JoinQuery.                                           *)
EXTENDS JoinQuery

(* Two tables that share column x: t(x, y) and u(x), with and without an   *)
(* alias; t may be joined with itself.                                     *)
Relation(table, ref, columns) == [table_name |-> table, ref_name |-> ref, columns |-> columns]
RelationsOf == {Relation("t", "t", {"x", "y"}), Relation("t", "a", {"x", "y"}),
                Relation("u", "a", {"x"}), Relation("u", "u", {"x"})}

Values   == {0, 1}
Contents == [t |-> {S \in SUBSET [{"x", "y"} -> Values] : Cardinality(S) <= 2},
             u |-> {S \in SUBSET [{"x"} -> Values] : Cardinality(S) <= 2}]

SomeRefs == {Ref("t", "x"), Ref("t", "y"), Ref("a", "x"), Ref("a", "y"), Ref("", "x"), Ref("", "y")}
Eq(l, r) == [left |-> l, right |-> r]
Lit(ref) == Eq(ref, [literal |-> 1])

(* Single conjuncts of every shape, and pairs of conjuncts.                *)
Conjuncts == {<<Lit(ref)>> : ref \in SomeRefs}
             \cup {<<Eq(Ref("t", "y"), Ref("a", "x"))>>, <<Eq(Ref("t", "x"), Ref("t", "y"))>>}
             \cup {<<Lit(Ref("t", "y")), Lit(ref)>> : ref \in {Ref("a", "x"), Ref("t", "x")}}
SomeWheres == {<< >>} \cup {<<c>> : c \in Conjuncts}
              \cup {<<c, d>> : c \in {<<Lit(Ref("a", "x"))>>, <<Eq(Ref("t", "y"), Ref("a", "x"))>>},
                               d \in {<<Lit(Ref("t", "x"))>>, <<Lit(Ref("t", "y"))>>}}

SomeOns == {<<Ref("t", "x"), Ref("a", "x")>>, <<Ref("a", "x"), Ref("t", "y")>>,
            <<Ref("a", "x"), Ref("u", "x")>>, <<Ref("", "y"), Ref("a", "x")>>}

(* References that bind alike a second time, and those that may not.       *)
QualifiedSelects   == {Ref("t", "x"), Ref("a", "x")}
UnqualifiedSelects == {Ref("", "y")}
=============================================================================
