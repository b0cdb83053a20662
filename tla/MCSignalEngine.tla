---- MODULE MCSignalEngine ----
(* Instances of SignalEngine: a leaf that declares the signal inside a composite that *)
(* declares it too, a state only the composite answers for, and a final state.        *)
EXTENDS SignalEngine, TLC

CONSTANTS p1, p2, k1, k2, work, review, done

MCTarget == (<<work, 1>> :> review) @@ (<<work, 2>> :> done) @@ (<<review, 2>> :> work)
MCFallback == (<<work, 1>> :> work)

Symmetry == Permutations(Procs) \cup Permutations(Keys)
====
