----------------------------- MODULE MCViewChange -----------------------------
(* Instances of ViewChange for TLC. *)
EXTENDS ViewChange, TLC

\* Block hashes are only compared for equality.
HashSymmetry == Permutations(Hashes)
===============================================================================
