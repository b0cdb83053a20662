---- MODULE MCJsonlMirror ----
(* Instances of JsonlMirror: one process that meets everything, or two that share the lock. *)
EXTENDS JsonlMirror, TLC

CONSTANTS p1, p2

\* Every step but the one between creating the lock file and writing the owner into it.
AfterOwner == {"idle", "want", "blocked", "stealing", "locked", "extending", "repairing", "writing",
               "rewriting", "replacing", "pruning", "certifying", "release", "clearing", "reinserting"}
NotPruning == AfterOwner \ {"pruning"}

\* One process whose writes fail and whose lines are damaged, and that may die at all these
\* steps but between the two transactions of a rebuild; or that only dies, there too.
Alone ==
    [procs |-> {p1}, events |-> 4, uses |-> 6, changes |-> 2, faults |-> 2,
     kinds |-> {"crash", "write", "damage"}, crashAt |-> NotPruning \ {"reinserting"}]
Dying == [Alone EXCEPT !.kinds = {"crash"}, !.crashAt = NotPruning]
Together ==
    [procs |-> {p1, p2}, events |-> 3, uses |-> 5, changes |-> 0, faults |-> 1,
     kinds |-> {"crash", "write"}, crashAt |-> AfterOwner]
AloneOrTogether == {Alone, Dying, Together}
====
