------------------------------ MODULE MCJournal ------------------------------
(* Model-checking instance of Journal: two contents, three files. *)
EXTENDS Journal

CONSTANTS old, new
=============================================================================
