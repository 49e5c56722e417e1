---------------------------- MODULE MCVaultBoard ----------------------------
(* Model values and symmetry for VaultBoard. *)
EXTENDS VaultBoard, TLC

\* Session keys, commitments and calls are interchangeable.
MCSymmetry == Permutations(Trees) \cup Permutations(Commitments) \cup Permutations(Calls)
=============================================================================
