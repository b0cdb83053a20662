---- MODULE TelemetryBroker ----
(***************************************************************************)
(* The telemetry broker beside the processes whose runs it shows.  It finds *)
(* runs by their job files, follows the ledger of each with a cursor of its *)
(* own, and sends clients what they have not seen.  Its handlers do not     *)
(* wait for anything, so each is one step; the ledger and the job files     *)
(* change between them.                                                     *)
(*                                                                          *)
(* An event is its position in the ledger of its run.                       *)
(***************************************************************************)
EXTENDS JobFiles, FiniteSetsExt

CONSTANTS
    Clients,
    MaxConnects     \* bound: connections

VARIABLES
    started,    \* whether the server listens
    cursor,     \* tailCursor of each target, Absent for a run that is not one
    client,     \* each client's connection
    got,        \* what each client was sent of each run since it connected
    connects

brokerVars == <<started, cursor, client, got, connects>>
vars == <<jobVars, brokerVars>>

Absent == -1
Unseen == -1

Off == [on |-> FALSE, last |-> [r \in Runs |-> Unseen]]

BrokerInit ==
    /\ started = FALSE
    /\ cursor = [r \in Runs |-> Absent]
    /\ client = [c \in Clients |-> Off]
    /\ got = [c \in Clients |-> [r \in Runs |-> <<>>]]
    /\ connects = 0

\* listJobs: runs that have a job, a migrated one under its new name.
Listed == {Resolve(r) : r \in {q \in Runs : JobOf(q) # None}}

\* Mutant: a run found later is followed from where it is.
Found_Latest(r) == ledger[r].events

\* A run found while the server listens is followed from its first event.
Found(r) == IF started THEN 0 ELSE ledger[r].events

\* refreshCatalog: a run that cannot be listed is forgotten, with its cursor.
Refreshed == [r \in Runs |-> IF r \notin Listed THEN Absent ELSE IF cursor[r] = Absent THEN Found(r) ELSE cursor[r]]

\* Mutant: a client is sent whatever the poll read.
Due_All(c, r, from) == {n \in 1..ledger[r].events : n > from}

\* sendSseEvent: what the poll read and the client has not had.
Due(c, r, from) == {n \in 1..ledger[r].events : n > from /\ n > client[c].last[r]}

Ascending(S) == [i \in 1..Cardinality(S) |-> CHOOSE n \in S : Cardinality({k \in S : k <= n}) = i]

Start ==
    /\ ~started
    /\ started' = TRUE /\ cursor' = Refreshed
    /\ UNCHANGED <<jobVars, client, got, connects>>

\* pollForNewEvents
Poll ==
    LET due(c, r) == IF Refreshed[r] # Absent /\ client[c].on THEN Due(c, r, Refreshed[r]) ELSE {} IN
    /\ started
    /\ cursor' = [r \in Runs |-> IF Refreshed[r] = Absent THEN Absent ELSE ledger[r].events]
    /\ got' = [c \in Clients |-> [r \in Runs |-> got[c][r] \o Ascending(due(c, r))]]
    /\ client' = [c \in Clients |-> [client[c] EXCEPT !.last =
            [r \in Runs |-> IF due(c, r) = {} THEN @[r] ELSE Max(due(c, r))]]]
    /\ UNCHANGED <<jobVars, started, connects>>

Refresh ==
    /\ started
    /\ cursor' = Refreshed
    /\ UNCHANGED <<jobVars, started, client, got, connects>>

\* handleSseEvents: the backlog since an event the client names, or only what is new.
Connect(c, since) ==
    LET base(r) == IF since # Unseen THEN since ELSE Refreshed[r]
        backlog(r) == IF since # Unseen /\ Refreshed[r] # Absent THEN {n \in 1..ledger[r].events : n > since} ELSE {}
    IN
    /\ started /\ ~client[c].on /\ connects < MaxConnects
    /\ connects' = connects + 1
    /\ cursor' = Refreshed
    /\ client' = [client EXCEPT ![c] = [on |-> TRUE,
            last |-> [r \in Runs |-> IF Refreshed[r] = Absent THEN Unseen ELSE Max(backlog(r) \cup {base(r)})]]]
    /\ got' = [got EXCEPT ![c] = [r \in Runs |-> Ascending(backlog(r))]]
    /\ UNCHANGED <<jobVars, started>>

Disconnect(c) ==
    /\ client[c].on
    /\ client' = [client EXCEPT ![c] = Off]
    /\ got' = [got EXCEPT ![c] = [r \in Runs |-> <<>>]]
    /\ UNCHANGED <<jobVars, started, cursor, connects>>

Init == JobInit /\ BrokerInit

Next ==
    \/ JobNext /\ UNCHANGED brokerVars
    \/ Start \/ Poll \/ Refresh
    \/ \E c \in Clients : Disconnect(c) \/ \E since \in {Unseen} \cup 0..MaxEvents : Connect(c, since)

\* The poll is on a timer.
Spec == Init /\ [][Next]_vars /\ WF_vars(Poll)

-----------------------------------------------------------------------------
(* Properties *)

\* Every variable has its type, and no cursor is ahead of its ledger.
TypeOK ==
    /\ JobTypeOK
    /\ \A r \in Runs : cursor[r] = Absent \/ cursor[r] \in 0..ledger[r].events
    /\ client \in [Clients -> [on : BOOLEAN, last : [Runs -> {Unseen} \cup Nat]]]

\* A client gets the events of a run one after the other, none twice and none left out, although
\* a run whose job file is being written drops out of the catalog and comes back from its first event.
DeliversInOrder ==
    /\ TypeOK
    /\ \A c \in Clients, r \in Runs : \A i \in DOMAIN got[c][r] :
           /\ got[c][r][i] = got[c][r][1] + i - 1
           /\ i = Len(got[c][r]) => client[c].last[r] = got[c][r][i]

\* A client that stays connected catches up with every run that can be listed, also with one that
\* began later or was out of the catalog while its job was rewritten.
DeliversAll ==
    \A c \in Clients, r \in Runs :
        (client[c].on /\ ledger[r].events > 0 /\ client[c].last[r] < ledger[r].events)
            ~> (~client[c].on \/ client[c].last[r] >= ledger[r].events \/ r \notin Listed)
====
