--------------------------- MODULE MCRequestPacer ---------------------------
(* Model-checking instance of RequestPacer. *)
EXTENDS RequestPacer
=============================================================================
