---- MODULE KeyedSubmissions ----
(***************************************************************************)
(* What a run promises its callers, without engines, races or crashes: a    *)
(* submission is identified once by its key, and is settled at most once,   *)
(* accepted or refused, for good.                                           *)
(***************************************************************************)
CONSTANT NoKey      \* the key of a submission made without one

VARIABLES
    submitted,  \* submissions made: [id, key]
    accepted,   \* ids of those that moved the run
    refused     \* ids of those the run refused

vars == <<submitted, accepted, refused>>

Ids == {s.id : s \in submitted}

Init == submitted = {} /\ accepted = {} /\ refused = {}

\* A submission under a fresh id, its key not used before.
Submit ==
    /\ \E s \in submitted' :
        /\ s.id \notin Ids
        /\ s.key = NoKey \/ \A t \in submitted : t.key # s.key
        /\ submitted' = submitted \cup {s}
    /\ UNCHANGED <<accepted, refused>>

Unsettled == Ids \ (accepted \cup refused)

Accept ==
    /\ \E i \in Unsettled : accepted' = accepted \cup {i}
    /\ UNCHANGED <<submitted, refused>>

Refuse ==
    /\ \E i \in Unsettled : refused' = refused \cup {i}
    /\ UNCHANGED <<submitted, accepted>>

Next == Submit \/ Accept \/ Refuse

Spec == Init /\ [][Next]_vars
====
