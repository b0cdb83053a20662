---- MODULE MCRunLifecycle ----
EXTENDS RunLifecycle

\* A draft is checked by the runtime; a passed check raises two signals of which the second
\* finishes the run; "ping" and "pong" lead to each other, and leaving the draft raises an outcome of "check".
MCStates == {"draft", "check", "ready", "ping", "pong", "done"}
MCSignals == {"submit", "spin", "pass", "fail", "note", "wrap"}
None == [s \in {} |-> s]
MCTarget == [draft |-> [submit |-> "check", spin |-> "ping"],
             check |-> [pass |-> "ready", fail |-> "draft"],
             ready |-> [wrap |-> "done"],
             ping |-> [spin |-> "pong", submit |-> "check"],
             pong |-> [spin |-> "ping", submit |-> "pong"],
             done |-> None]
MCAction == [check |-> [success |-> "pass", failure |-> "fail"]]
MCOnEnter == [draft |-> <<>>, check |-> <<>>, ready |-> <<"note", "wrap">>, ping |-> <<"spin">>, pong |-> <<"spin">>, done |-> <<>>]
MCOnExit == [draft |-> <<"pass">>, check |-> <<>>, ready |-> <<>>, ping |-> <<>>, pong |-> <<>>, done |-> <<>>]
====
