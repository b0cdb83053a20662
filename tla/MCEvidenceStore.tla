---- MODULE MCEvidenceStore ----
(***************************************************************************)
(* Two processes of one run that share its evidence registry.               *)
(***************************************************************************)
EXTENDS EvidenceStore, TLC

CONSTANTS p1, p2, k1, k2

MCSymmetry == Permutations({p1, p2}) \cup Permutations({k1, k2})
=============================================================================
