------------------------------ MODULE MCVecJoin ------------------------------
(* Small instances of VecJoin.                                             *)
EXTENDS VecJoin

(* INT keys: one text and one bit pattern per value.                       *)
CONSTANTS one, two
ExactKeys == {one, two}
OwnText   == [k \in Key |-> k]
SameKey   == {<<k, k>> : k \in Key}
=============================================================================
