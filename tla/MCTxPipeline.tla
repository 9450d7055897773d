---------------------------- MODULE MCTxPipeline ----------------------------
(* Model-checking instance of TxPipeline. *)
EXTENDS TxPipeline
=============================================================================
