---------------------------- MODULE MCColumnStore ----------------------------
(* Small instances of ColumnStore.                                         *)
EXTENDS ColumnStore

CONSTANT c
=============================================================================
