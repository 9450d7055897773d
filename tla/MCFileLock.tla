----------------------------- MODULE MCFileLock -----------------------------
(* Model-checking instance of FileLock: the processes are interchangeable. *)
EXTENDS FileLock, TLC

Symmetry == Permutations(Proc)
=============================================================================
