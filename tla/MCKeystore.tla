----------------------------- MODULE MCKeystore ------------------------------
(* Model-checking instance of Keystore: two wallets, two passwords. *)
EXTENDS Keystore, TLC

CONSTANTS p1, p2, r1

Symmetry == Permutations({p1, p2})
=============================================================================
