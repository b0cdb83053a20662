---- MODULE MCJobFiles ----
(* Instances of JobFiles, whose processes are alike. *)
EXTENDS JobFiles, TLC

CONSTANTS p1, p2

Symmetry == Permutations(Procs)
====
