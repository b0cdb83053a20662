---- MODULE MCJudgments ----
(* Instances of Judgments: declarations that differ in what the cascade does with them. *)
EXTENDS Judgments

D(bounded, hint, fallback, attempts, selfReports, granted) ==
    [bounded |-> bounded, hint |-> hint, fallback |-> fallback, attempts |-> attempts,
     selfReports |-> selfReports, granted |-> granted]

Unbounded == D(FALSE, "none", "script", 1, TRUE, TRUE)
OnlyJev == D(FALSE, "jev", "jev", 1, TRUE, FALSE)
Bounded == D(TRUE, "none", "script", 1, TRUE, TRUE)
JevOnce == D(TRUE, "jev", "jev", 1, TRUE, FALSE)

MCDefinitions == [j \in Judges |-> IF j = 1 THEN {Unbounded, JevOnce} ELSE {Bounded, OnlyJev}]
====
