----------------------------- MODULE MCBlocking -----------------------------
(* Small instances of Blocking.                                            *)
EXTENDS Blocking

(* A STRING column whose values print as 1, 11 and NULL, and an INT        *)
(* column: the texts of ('1', 110) and ('11', 10) run together unless      *)
(* something marks where the first one ends.                               *)
Keys  == {1, 2, 3}
Args  == {10, 110}
Texts == (1 :> <<49>>) @@ (2 :> <<49, 49>>) @@ (3 :> <<78, 85, 76, 76>>)
         @@ (10 :> <<49, 48>>) @@ (110 :> <<49, 49, 48>>) @@ (NULL :> <<78, 85, 76, 76>>)

(* Keys of which no two print alike, and all of them.                      *)
PlainKeys == {1, 2, NULL}
AnyKeys   == Keys \cup {NULL}

GroupLists == {<< >>, <<"key">>, <<"key", "arg">>}

Orders == {<<[column |-> "key", desc |-> FALSE]>>,
           <<[column |-> "key", desc |-> TRUE], [column |-> "arg", desc |-> FALSE]>>}
=============================================================================
