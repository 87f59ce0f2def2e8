----------------------------- MODULE MCBenStore -----------------------------
(* Small instances of BenStore. *)
EXTENDS BenStore, TLC

Symmetry == Permutations(Procs) \cup Permutations(RunIds)
=============================================================================
