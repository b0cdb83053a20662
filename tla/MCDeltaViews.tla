---- MODULE MCDeltaViews ----
(* Two agents on a run of two states, one of which hides a key. *)
EXTENDS DeltaViews

CONSTANTS a1, a2, k1, k2, A, B

\* A shows both keys, B the second one only.
MCScope == [s \in States |-> IF s = A THEN {k1, k2} ELSE {k2}]

\* Entering and leaving B set the key that both states show.
MCOnEnter == [s \in States |-> IF s = A THEN {} ELSE {k2}]
MCOnExit == [s \in States |-> IF s = A THEN {} ELSE {k2}]

\* The terminal, which asks for no views, sends one kind of payload.
MCSubmissions ==
    [a \in Agents |->
        {[fields |-> {k2}, updates |-> {}]}
        \cup IF a \in Viewers THEN {[fields |-> {k1}, updates |-> {k2}]} ELSE {}]

\* A fresh run, or one with a transition that an older version recorded after the view the
\* agent holds.
MCHistories ==
    {[events |-> <<Initialized>>, seen |-> 0],
     [events |-> <<Initialized, Signal([fields |-> {k1}, updates |-> {}]), Transition(2, A, A, None)>>,
      seen |-> 2]}

\* The agent calls more often than the terminal.
MCMaxCalls == [a \in Agents |-> IF a \in Viewers THEN 3 ELSE 1]
====
