------------------------------- MODULE MCShMtx -------------------------------
(* ShMtx for TLC: interchangeable processes. *)
EXTENDS ShMtx, TLC

Symmetry == Permutations(Procs)
=============================================================================
