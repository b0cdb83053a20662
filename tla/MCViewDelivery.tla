---- MODULE MCViewDelivery ----
(* Instances of ViewDelivery: one server that restarts, and two at a time. *)
EXTENDS ViewDelivery, TLC

CONSTANTS p1, p2, k1, k2

MCOutcomes == <<{"accepted", "refused", "unhandled"}, {"refused", "unhandled"}>>
MCMaxFetches == <<4, 1>>
MCMaxCrashes == <<2, 0>>

Symmetry == Permutations(Procs) \cup Permutations(Keys)
====
