---------------------------- MODULE MCMetabolism ----------------------------
(* Metabolism instantiated for TLC.                                         *)
EXTENDS Metabolism, TLC

\* Processes are interchangeable, and so are jobs: no action orders them.
Symmetry == Permutations(Procs) \cup Permutations(Jobs)
=============================================================================
