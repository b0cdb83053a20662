---- MODULE RunLifecycle_proof ----
(***************************************************************************)
(* Proofs about RunLifecycle, for any manifest, any number of submissions,  *)
(* crashes and appends of other programs, and, where it is not said         *)
(* otherwise, any number of processes that hold the run open.               *)
(*                                                                          *)
(* Hook signals (HookInv): the queue in memory is, signal by signal, what   *)
(* the hooks of the call raised and the call has not emitted (ServesCall),  *)
(* and the depth of the drain bounds the signals emitted in a row           *)
(* (DepthCounts).  What an earlier call left in a queue is behind a ledger  *)
(* that moved, so no later call gets past its first check with it.          *)
(*                                                                          *)
(* Outcomes (Decides): a signal on its way to a transition that the runtime *)
(* owns carries a result of the state that it leaves.                       *)
(*                                                                          *)
(* Visits and endings (Visits, Ended) hold for one process: every result up *)
(* to the snapshot is of a visit that was left, and the metadata of the job *)
(* lag behind the run only between a transition and the end of its drain,   *)
(* or in front of an engine that is due to be reopened.                     *)
(*                                                                          *)
(* The proofs do not look into the actions: the *Shape lemmas say of each   *)
(* what it does to the ledger, to its engine and to its call.               *)
(***************************************************************************)
EXTENDS RunLifecycle, SetFacts, SequenceTheorems

-----------------------------------------------------------------------------
(* The invariants *)

(* Types *)

PCs == {"idle", "drain", "start", "running", "emit", "accept", "unhandled", "refuse", "guard",
        "exit", "transit", "enter", "snapshot", "completed", "queue", "job"}

Results == {"pending", "ok", "refused", "failed", "died"}

\* Where a call is while it processes a signal: before it, and once the signal is in the ledger.
Processing == {"accept", "unhandled", "refuse", "guard", "exit", "transit", "enter", "snapshot", "completed"}

Events == [type : EventTypes, state : States, sig : Signals \cup {NoSignal}, cause : Nat, by : Nat,
           src : Sources \cup {NoSignal}]
Works == [sig : Signals \cup {NoSignal}, src : Sources, cause : Nat, ev : Nat, version : Nat]
Engines == [state : States, seen : Nat, stale : BOOLEAN, queue : Seq(Signals), draining : BOOLEAN, depth : Nat]
Calls == [pc : PCs, id : Nat, sig : Signals \cup {NoSignal}, resuming : BOOLEAN, first : BOOLEAN,
          work : Works, outer : Works]

\* A work refers to events of a ledger of n events.
WorkWithin(w, n) == w.cause <= n /\ w.ev <= n /\ w.version <= n

\* Every variable has its type, and what refers to an event or to a call refers to one there is.
Types ==
    /\ log \in Seq(Events) /\ Len(log) > 0
    /\ \A i \in DOMAIN log : log[i].cause < i /\ log[i].by <= Len(results)
    /\ snapshot \in [seq : Nat, state : States] /\ snapshot.seq \in DOMAIN log
    /\ job \in [state : States, done : BOOLEAN]
    /\ engine \in [Procs -> Engines] /\ call \in [Procs -> Calls]
    /\ \A p \in Procs :
        /\ engine[p].seen \in DOMAIN log
        /\ WorkWithin(call[p].work, Len(log)) /\ WorkWithin(call[p].outer, Len(log))
    /\ results \in Seq(Results)
    /\ submits \in 0 .. MaxSubmits /\ foreign \in 0 .. MaxForeign /\ crashes \in 0 .. MaxCrashes

\* Every call that runs has a number of its own, and its result is open.
CallsAreNumbered ==
    /\ \A p \in Procs :
        IF call[p].pc = "idle" THEN call[p].id = 0
        ELSE call[p].id \in DOMAIN results /\ results[call[p].id] = "pending"
    /\ \A p, q \in Procs : (p # q /\ call[p].pc # "idle") => call[p].id # call[q].id

\* What a call in the middle of a signal has established about it.
SignalKnown(p) ==
    /\ call[p].pc \in {"start", "running"} => From(p) \in Runtime
    /\ call[p].pc \in Processing => Work(p).ev \in DOMAIN log
    /\ call[p].pc \in {"accept", "guard", "exit", "transit"} => Accepts(p)
    /\ call[p].pc = "guard" => engine[p].seen <= Work(p).version

\* No signal of this call can be in the queue yet: a caller's signal is still to be checked.
Unchecked(p) ==
    \/ call[p].pc = "idle"
    \/ call[p].pc = "drain" /\ call[p].resuming /\ call[p].first
    \/ call[p].pc = "emit" /\ Work(p).src = "caller"

\* The queue holds nothing: between two signals that no hook raised, and until the exit hooks.
Empty(p) ==
    \/ call[p].pc \in {"drain", "start", "running"}
    \/ call[p].pc \in {"emit", "accept", "unhandled", "refuse", "guard", "exit"} /\ Work(p).src # "hook"
    \/ call[p].pc = "job" /\ ~engine[p].draining

\* The drain and its depth; what an earlier call left in the queue waits behind a ledger that moved.
QueueState(p) ==
    /\ engine[p].depth <= MaxDrain
    /\ ~engine[p].draining => engine[p].depth = 0
    /\ call[p].pc \in {"idle", "drain", "start", "running"} => ~engine[p].draining
    /\ call[p].pc \in Processing \cup {"emit", "job"} => (engine[p].draining <=> Work(p).src = "hook")
    /\ (call[p].pc = "queue" \/ engine[p].draining) => call[p].outer.src # "hook"
    /\ Unchecked(p) => engine[p].queue = <<>> \/ HasExternal(p)
    /\ (Empty(p) /\ ~Unchecked(p)) => engine[p].queue = <<>>

\* One signal has left the queue and is not in the ledger yet.
Taken(p) == call[p].pc = "emit" /\ Work(p).src = "hook"
TakenCount(p) == IF Taken(p) THEN 1 ELSE 0

\* How many signals the hooks of call c raised, and how many of those it emitted.
Raised(c) == Cardinality(HookEvents(c))
Served(c) == Cardinality(HookSignals(c))

\* The n-th signal that the hooks of call c raised, counted from 0, is s.
RaisedAs(c, n, s) == \E i \in HookEvents(c) : Before(HookEvents(c), i) = n /\ log[i].sig = s

\* The queue of call c is what its hooks raised and it has not emitted, in that order.
ServesCall(p, c) ==
    IF Unchecked(p) THEN Raised(c) = Served(c)
    ELSE /\ Raised(c) = Served(c) + TakenCount(p) + Len(engine[p].queue)
         /\ Taken(p) => RaisedAs(c, Served(c), Work(p).sig)
         /\ \A k \in 1 .. Len(engine[p].queue) : RaisedAs(c, Served(c) + TakenCount(p) + k - 1, engine[p].queue[k])

QueueServes(p) == \A c \in DOMAIN results : (call[p].pc # "idle" /\ call[p].id = c) => ServesCall(p, c)

\* The hook signals of call c after its own signal i and before its next one.
DrainedIn(c, i) == {j \in HookSignals(c) : i < j /\ \A k \in OwnSignals(c) : k <= i \/ j < k}

\* The depth counts the hook signals emitted since the call's last own signal.
Draining(p) ==
    \/ call[p].pc \in Processing \cup {"queue"}
    \/ Taken(p)
    \/ call[p].pc = "job" /\ engine[p].draining

\* The last signal of call c that no hook raised.
LastOwn(c, i) == i \in OwnSignals(c) /\ \A k \in OwnSignals(c) : k <= i

DepthOf(p, c) == \A i \in OwnSignals(c) : LastOwn(c, i) => Cardinality(DrainedIn(c, i)) + TakenCount(p) <= engine[p].depth
DepthCounts(p) == \A c \in DOMAIN results : (Draining(p) /\ call[p].id = c) => DepthOf(p, c)

\* HooksAreServed and CyclesAreCut, call by call.
HooksInOrder(c) ==
    \A j \in HookSignals(c) : \E i \in HookEvents(c) :
        i < j /\ log[i].sig = log[j].sig /\ Before(HookEvents(c), i) = Before(HookSignals(c), j)

CyclesCut(c) == \A i \in OwnSignals(c) : Cardinality(DrainedIn(c, i)) <= MaxDrain

\* What every step starts from.
Base == Types /\ CallsAreNumbered /\ \A p \in Procs : SignalKnown(p)

\* The queue of one process, and the drain it is in.
OwnInv(p) == QueueState(p) /\ QueueServes(p) /\ DepthCounts(p)

\* The hook signals of every call: those in hand, those served and those bounded.
HookInv ==
    /\ Base
    /\ \A p \in Procs : OwnInv(p)
    /\ \A c \in DOMAIN results : HooksInOrder(c) /\ (results[c] = "ok" => Raised(c) = Served(c))
    /\ \A c \in Nat : CyclesCut(c)

(* Outcomes *)

Outcomes(s) == {Action[s].success, Action[s].failure}

\* A recorded result is one of the two outcomes of its state.
CompletionsDecide ==
    \A i \in Positions("RUNTIME_ACTION_COMPLETED") : log[i].state \in Runtime /\ log[i].sig \in Outcomes(log[i].state)

\* An outcome signal carries a recorded result of the state it is about to leave.
WorkIsDecided(p) ==
    /\ (call[p].pc \in {"emit", "accept", "guard", "exit", "transit"} /\ Work(p).src = "runtime_action") =>
        /\ Work(p).cause \in Positions("RUNTIME_ACTION_COMPLETED")
        /\ log[Work(p).cause].state = From(p) /\ log[Work(p).cause].sig = Work(p).sig
    /\ call[p].pc \in {"accept", "guard", "exit", "transit"} =>
        /\ ~RuntimeOwned(p)
        /\ log[Work(p).ev].state = From(p) /\ log[Work(p).ev].sig = Work(p).sig
        /\ log[Work(p).ev].cause = Work(p).cause
    /\ call[p].pc \in {"refuse", "unhandled"} => Work(p).src # "runtime_action"

(* One process *)

\* The visit of event i was left.
Left(i) == \E k \in Positions("STATE_TRANSITION") : i < k

\* Results that the window does not show any more are of visits that were left; the others are of this one.
VisitInv(p) ==
    /\ \A i \in Positions("RUNTIME_ACTION_COMPLETED") : i <= snapshot.seq => Left(i)
    /\ call[p].pc \in {"enter", "snapshot"} => \A i \in Positions("RUNTIME_ACTION_COMPLETED") : Left(i)
    /\ call[p].pc = "start" => \A i \in Positions("RUNTIME_ACTION_COMPLETED") : log[i].state = From(p) => Left(i)
    /\ (Work(p).src = "runtime_action" /\ call[p].pc \in {"emit", "accept", "guard"}) => Work(p).cause > snapshot.seq

\* Where the job may still be told of a state the run has left: until the engine is reopened, in a
\* transition, and in the drain of its hooks as long as that cannot fail at its limit.
LagAllowed(p) ==
    \/ HasExternal(p) /\ Unchecked(p)
    \/ call[p].pc \in {"enter", "snapshot", "completed", "job"}
    \/ call[p].pc = "transit" /\ Work(p).src = "hook"
    \/ /\ call[p].pc = "queue" \/ (call[p].pc \in Processing \cup {"emit"} /\ Work(p).src = "hook")
       /\ engine[p].depth + Len(engine[p].queue) <= MaxDrain

\* The hooks of a transition fill an empty queue.
RoomForHooks(p) ==
    Work(p).src # "hook" =>
        /\ call[p].pc \in {"transit"} => Len(engine[p].queue) <= Len(OnExit[From(p)])
        /\ call[p].pc \in {"enter"} => \E s \in States : Len(engine[p].queue) <= Len(OnExit[s])
        /\ call[p].pc \in {"snapshot", "completed"} => Len(engine[p].queue) <= MaxDrain

\* The engine is where the run is, a call that succeeded left no runtime state, and the job lags only where it may.
EndInv(p) ==
    /\ engine[p].state = Rehydrated
    /\ (call[p].pc = "idle" /\ Len(results) > 0 /\ results[Len(results)] = "ok") => engine[p].state \notin Runtime
    /\ call[p].pc # "idle" => call[p].id = Len(results)
    /\ job.state # engine[p].state => LagAllowed(p)
    /\ RoomForHooks(p)
    /\ job.done => job.state \in Terminals /\ job.state = engine[p].state

-----------------------------------------------------------------------------
(* Types *)

\* What the assumption on the constants says, in the form the steps need.
LEMMA ConstantFacts ==
    /\ Initial \in States /\ Terminals \subseteq States /\ Runtime \subseteq States /\ Submittable \subseteq Signals
    /\ \A s \in States : DOMAIN Target[s] \subseteq Signals /\ \A g \in DOMAIN Target[s] : Target[s][g] \in States
    /\ OnEnter \in [States -> Seq(Signals)] /\ OnExit \in [States -> Seq(Signals)]
    /\ MaxDrain \in Nat /\ MaxSubmits \in Nat /\ MaxForeign \in Nat /\ MaxCrashes \in Nat
    /\ \A s \in Runtime : Action[s].success \in DOMAIN Target[s] /\ Action[s].failure \in DOMAIN Target[s]
  BY ConstantsAssumption DEF ConstantsAssumption, RuntimeStatesAreSound, Range

\* The run is in a state of the manifest.
LEMMA RehydratedState ==
    ASSUME Types
    PROVE  Rehydrated \in States
  <1> DEFINE later == {i \in Positions("STATE_TRANSITION") : i > snapshot.seq}
  <1>1. CASE later = {}
    BY <1>1 DEF Rehydrated, Types
  <1>2. CASE later # {}
    <2>1. Len(log) \in Nat /\ later \subseteq 0..Len(log) /\ later \subseteq DOMAIN log
      BY DEF Types, Positions
    <2>2. Max(later) \in later
      BY <1>2, <2>1, MaxFacts
    <2>3. log[Max(later)] \in Events
      BY <2>1, <2>2 DEF Types
    <2> QED BY <1>2, <2>3 DEF Rehydrated, Events
  <1> QED BY <1>1, <1>2

\* What append does to the ledger and to the engine of the process.
LEMMA AppendedFacts ==
    ASSUME Types, NEW p \in Procs, NEW e \in Events, Appended(p, <<e>>), e.cause <= Len(log), e.by <= Len(results)
    PROVE  /\ log' \in Seq(Events) /\ Len(log') = Len(log) + 1
           /\ log'[Len(log) + 1] = e /\ \A i \in DOMAIN log : log'[i] = log[i]
           /\ engine' = [engine EXCEPT ![p] = [engine[p] EXCEPT !.stale = @ \/ Len(log) > engine[p].seen, !.seen = Len(log) + 1]]
           /\ engine' \in [Procs -> Engines]
  <1>1. log' = log \o <<e>> /\ log \in Seq(Events) /\ <<e>> \in Seq(Events) /\ Len(<<e>>) = 1
    BY DEF Appended, Types
  <1>2. log' \in Seq(Events) /\ Len(log') = Len(log) + 1 /\ log'[Len(log) + 1] = e /\ \A i \in DOMAIN log : log'[i] = log[i]
    BY <1>1
  <1>3. engine' = [engine EXCEPT ![p] = [engine[p] EXCEPT !.stale = @ \/ Len(log) > engine[p].seen, !.seen = Len(log) + 1]]
    BY <1>1 DEF Appended, Types
  <1>4. [engine[p] EXCEPT !.stale = @ \/ Len(log) > engine[p].seen, !.seen = Len(log) + 1] \in Engines
    <2>1. ASSUME NEW b \in BOOLEAN, NEW r \in Engines PROVE [r EXCEPT !.stale = b, !.seen = Len(log) + 1] \in Engines
      <3>1. Len(log) + 1 \in Nat
        BY DEF Types
      <3> QED BY <2>1, <3>1 DEF Engines
    <2>2. engine[p] \in Engines
      BY DEF Types
    <2>3. (engine[p].stale \/ Len(log) > engine[p].seen) \in BOOLEAN
      OBVIOUS
    <2> QED BY <2>1, <2>2, <2>3
  <1> QED BY <1>2, <1>3, <1>4 DEF Types

\* The ledger only grows.
Extended == Len(log) <= Len(log') /\ \A i \in DOMAIN log : log'[i] = log[i]

\* The positions of the events that the step appends.
New == {i \in DOMAIN log' : i > Len(log)}

\* Nobody else's call or engine changes.
Bystanders(p) == \A q \in Procs \ {p} : call'[q] = call[q] /\ engine'[q] = engine[q]

\* The types after a step of p, from those of what it changes.
LEMMA TypesKept ==
    ASSUME Types, NEW p \in Procs,
           call' \in [Procs -> Calls], engine' \in [Procs -> Engines], Bystanders(p),
           log' \in Seq(Events), Extended, \A i \in New : log'[i].cause < i /\ log'[i].by <= Len(results),
           snapshot' \in [seq : Nat, state : States], snapshot'.seq \in DOMAIN log',
           job' \in [state : States, done : BOOLEAN],
           engine'[p].seen \in DOMAIN log',
           WorkWithin(call'[p].work, Len(log')), WorkWithin(call'[p].outer, Len(log')),
           results' \in Seq(Results), Len(results') >= Len(results),
           submits' \in 0 .. MaxSubmits, foreign' \in 0 .. MaxForeign, crashes' \in 0 .. MaxCrashes
    PROVE  Types'
  <1>1. log \in Seq(Events) /\ Len(log) > 0 /\ Len(log') > 0 /\ Len(log) \in Nat /\ Len(log') \in Nat
    BY DEF Types, Extended
  <1>2. Len(results) \in Nat /\ Len(results') \in Nat
    BY DEF Types
  <1>3. ASSUME NEW i \in DOMAIN log' PROVE log'[i].cause < i /\ log'[i].by <= Len(results')
    <2>1. log'[i] \in Events
      OBVIOUS
    <2>2. log'[i].by \in Nat
      BY <2>1 DEF Events
    <2>3. CASE i \in New
      BY <1>2, <2>2, <2>3
    <2>4. CASE i \notin New
      <3>1. i \in DOMAIN log /\ log'[i] = log[i]
        BY <1>1, <2>4 DEF New, Extended
      <3>2. log[i].cause < i /\ log[i].by <= Len(results)
        BY <3>1 DEF Types
      <3> QED BY <1>2, <2>2, <3>1, <3>2
    <2> QED BY <2>3, <2>4
  <1>4. ASSUME NEW q \in Procs
        PROVE  engine'[q].seen \in DOMAIN log' /\ WorkWithin(call'[q].work, Len(log')) /\ WorkWithin(call'[q].outer, Len(log'))
    <2>1. CASE q = p
      BY <2>1
    <2>2. CASE q # p
      <3>1. engine'[q] = engine[q] /\ call'[q] = call[q] /\ call[q] \in Calls
        BY <2>2 DEF Types, Bystanders
      <3>2. engine[q].seen \in DOMAIN log'
        BY <1>1 DEF Types, Extended
      <3>3. call[q].work \in Works /\ call[q].outer \in Works
        BY <3>1 DEF Calls
      <3>4. ASSUME NEW w \in Works, WorkWithin(w, Len(log)) PROVE WorkWithin(w, Len(log'))
        <4>1. w.cause \in Nat /\ w.ev \in Nat /\ w.version \in Nat
          BY DEF Works
        <4> QED BY <1>1, <3>4, <4>1 DEF WorkWithin, Extended
      <3>5. WorkWithin(call[q].work, Len(log)) /\ WorkWithin(call[q].outer, Len(log))
        BY DEF Types
      <3> QED BY <3>1, <3>2, <3>3, <3>4, <3>5
    <2> QED BY <2>1, <2>2
  <1>5. \A i \in DOMAIN log' : log'[i].cause < i /\ log'[i].by <= Len(results')
    BY <1>3
  <1>6. \A q \in Procs :
          engine'[q].seen \in DOMAIN log' /\ WorkWithin(call'[q].work, Len(log')) /\ WorkWithin(call'[q].outer, Len(log'))
    BY <1>4
  <1> QED BY <1>1, <1>5, <1>6 DEF Types

\* The call of one process moves on.
LEMMA CallMoves ==
    ASSUME Types, NEW p \in Procs, NEW C \in Calls, call' = [call EXCEPT ![p] = C]
    PROVE  call' \in [Procs -> Calls] /\ call'[p] = C /\ \A q \in Procs \ {p} : call'[q] = call[q]
  BY DEF Types

\* The engine of one process changes.
LEMMA EngineMoves ==
    ASSUME Types, NEW p \in Procs, NEW E \in Engines, engine' = [engine EXCEPT ![p] = E]
    PROVE  engine' \in [Procs -> Engines] /\ engine'[p] = E /\ \A q \in Procs \ {p} : engine'[q] = engine[q]
  BY DEF Types

\* A step that appends one event of its call and moves its call on.
LEMMA OneEvent ==
    ASSUME Types, NEW p \in Procs, NEW e \in Events, Appended(p, <<e>>), e.cause <= Len(log), e.by <= Len(results),
           NEW C \in Calls, call' = [call EXCEPT ![p] = C],
           WorkWithin(C.work, Len(log) + 1), WorkWithin(C.outer, Len(log) + 1),
           results' \in Seq(Results), Len(results') >= Len(results), UNCHANGED <<snapshot, job, bounds>>
    PROVE  /\ Types' /\ Bystanders(p) /\ Extended /\ call'[p] = C
           /\ engine'[p] = [engine[p] EXCEPT !.stale = @ \/ Len(log) > engine[p].seen, !.seen = Len(log) + 1]
           /\ Len(log') = Len(log) + 1 /\ New = {Len(log) + 1} /\ log'[Len(log) + 1] = e
  <1>1. /\ log' \in Seq(Events) /\ Len(log') = Len(log) + 1
        /\ log'[Len(log) + 1] = e /\ \A i \in DOMAIN log : log'[i] = log[i]
        /\ engine' = [engine EXCEPT ![p] = [engine[p] EXCEPT !.stale = @ \/ Len(log) > engine[p].seen, !.seen = Len(log) + 1]]
        /\ engine' \in [Procs -> Engines]
    BY AppendedFacts
  <1>2. engine \in [Procs -> Engines] /\ engine[p] \in Engines /\ Len(log) \in Nat
    BY DEF Types
  <1>3. /\ engine'[p] = [engine[p] EXCEPT !.stale = @ \/ Len(log) > engine[p].seen, !.seen = Len(log) + 1]
        /\ \A q \in Procs \ {p} : engine'[q] = engine[q]
    BY <1>1, <1>2
  <1>4. engine'[p].seen = Len(log) + 1
    BY <1>2, <1>3 DEF Engines
  <1>5. call' \in [Procs -> Calls] /\ call'[p] = C /\ \A q \in Procs \ {p} : call'[q] = call[q]
    BY CallMoves
  <1>6. Bystanders(p)
    BY <1>3, <1>5 DEF Bystanders
  <1>7. Extended
    BY <1>1, <1>2 DEF Extended
  <1>8. New = {Len(log) + 1}
    BY <1>1, <1>2 DEF New
  <1>9. /\ snapshot' \in [seq : Nat, state : States] /\ snapshot'.seq \in DOMAIN log'
        /\ job' \in [state : States, done : BOOLEAN]
        /\ submits' \in 0 .. MaxSubmits /\ foreign' \in 0 .. MaxForeign /\ crashes' \in 0 .. MaxCrashes
    BY <1>1, <1>2 DEF Types, bounds
  <1>10. Types'
    <2>1. e.cause \in Nat
      BY DEF Events
    <2>2. \A i \in New : log'[i].cause < i /\ log'[i].by <= Len(results)
      BY <1>1, <1>2, <1>8, <2>1
    <2> QED BY <1>1, <1>2, <1>4, <1>5, <1>6, <1>7, <1>9, <2>2, TypesKept
  <1> QED BY <1>1, <1>3, <1>5, <1>6, <1>7, <1>8, <1>10

\* A step that appends nothing.
LEMMA NoEvent ==
    ASSUME Types, NEW p \in Procs, UNCHANGED log,
           NEW C \in Calls, call' = [call EXCEPT ![p] = C], WorkWithin(C.work, Len(log)), WorkWithin(C.outer, Len(log)),
           NEW E \in Engines, engine' = [engine EXCEPT ![p] = E], E.seen \in DOMAIN log,
           results' \in Seq(Results), Len(results') >= Len(results),
           snapshot' \in [seq : Nat, state : States], snapshot'.seq \in DOMAIN log,
           job' \in [state : States, done : BOOLEAN],
           submits' \in 0 .. MaxSubmits, foreign' \in 0 .. MaxForeign, crashes' \in 0 .. MaxCrashes
    PROVE  Types' /\ Bystanders(p) /\ Extended /\ New = {} /\ call'[p] = C /\ engine'[p] = E
  <1>1. call' \in [Procs -> Calls] /\ call'[p] = C /\ \A q \in Procs \ {p} : call'[q] = call[q]
    BY CallMoves
  <1>2. engine' \in [Procs -> Engines] /\ engine'[p] = E /\ \A q \in Procs \ {p} : engine'[q] = engine[q]
    BY EngineMoves
  <1>3. Bystanders(p)
    BY <1>1, <1>2 DEF Bystanders
  <1>4. Extended /\ New = {} /\ log' \in Seq(Events)
    BY DEF Extended, New, Types
  <1>5. Types'
    BY <1>1, <1>2, <1>3, <1>4, TypesKept
  <1> QED BY <1>1, <1>2, <1>3, <1>4, <1>5

-----------------------------------------------------------------------------
(* Types, the numbers of the calls and what they know, step by step *)

\* The results of the other calls stand.
ResultsStand(p) ==
    /\ Len(results') >= Len(results)
    /\ \A c \in DOMAIN results : c # call[p].id => results'[c] = results[c]

\* Types, numbers and what is known of the signals in hand, after a step of p.
LEMMA BaseKept ==
    ASSUME Base, Types', NEW p \in Procs, Bystanders(p), Extended, ResultsStand(p), SignalKnown(p)',
           IF call'[p].pc = "idle" THEN call'[p].id = 0
           ELSE /\ call'[p].id \in DOMAIN results' /\ results'[call'[p].id] = "pending"
                /\ call'[p].id \in {call[p].id, Len(results) + 1}
    PROVE  Base'
  <1>1. call \in [Procs -> Calls] /\ call' \in [Procs -> Calls] /\ results \in Seq(Results) /\ results' \in Seq(Results)
    BY DEF Base, Types
  <1>2. ASSUME NEW q \in Procs \ {p} PROVE call'[q] = call[q] /\ engine'[q] = engine[q]
    BY <1>2 DEF Bystanders
  <1>3. ASSUME NEW q \in Procs \ {p}, call[q].pc # "idle"
        PROVE  /\ call[q].id \in DOMAIN results /\ call[q].id # call[p].id
               /\ results'[call[q].id] = "pending" /\ call[q].id \in DOMAIN results'
    <2>1. call[q].id \in DOMAIN results /\ results[call[q].id] = "pending" /\ call[q].id # call[p].id
      BY <1>3 DEF Base, CallsAreNumbered
    <2> QED BY <1>1, <2>1 DEF ResultsStand
  <1>4. CallsAreNumbered'
    <2>1. ASSUME NEW q \in Procs
          PROVE  IF call'[q].pc = "idle" THEN call'[q].id = 0
                 ELSE call'[q].id \in DOMAIN results' /\ results'[call'[q].id] = "pending"
      <3>1. CASE q = p
        BY <3>1
      <3>2. CASE q # p /\ call[q].pc = "idle"
        BY <1>2, <3>2 DEF Base, CallsAreNumbered
      <3>3. CASE q # p /\ call[q].pc # "idle"
        BY <1>2, <1>3, <3>3
      <3> QED BY <3>1, <3>2, <3>3
    <2>2. ASSUME NEW q \in Procs \ {p}, call'[q].pc # "idle" PROVE call'[q].id # call'[p].id
      <3>1. call[q].id \in DOMAIN results /\ call[q].id # call[p].id /\ call[q].pc # "idle" /\ call'[q] = call[q]
        BY <1>2, <1>3, <2>2
      <3>2. call[q].id # 0 /\ call[q].id # Len(results) + 1
        BY <1>1, <3>1
      <3> QED BY <3>1, <3>2
    <2>3. ASSUME NEW q \in Procs, NEW r \in Procs, q # r, call'[q].pc # "idle" PROVE call'[q].id # call'[r].id
      <3>1. CASE r = p
        BY <2>2, <2>3, <3>1
      <3>2. CASE q = p
        <4>1. CASE call'[r].pc = "idle"
          BY <1>1, <2>1, <2>3, <3>2, <4>1
        <4>2. CASE call'[r].pc # "idle"
          BY <2>2, <2>3, <3>2, <4>2
        <4> QED BY <4>1, <4>2
      <3>3. CASE q # p /\ r # p
        BY <1>2, <2>3, <3>3 DEF Base, CallsAreNumbered
      <3> QED BY <3>1, <3>2, <3>3
    <2> QED BY <2>1, <2>3 DEF CallsAreNumbered
  <1>5. ASSUME NEW q \in Procs PROVE SignalKnown(q)'
    <2>1. CASE q = p
      BY <2>1
    <2>2. CASE q # p
      <3>1. SignalKnown(q) /\ call'[q] = call[q] /\ engine'[q] = engine[q]
        BY <1>2, <2>2 DEF Base
      <3>2. DOMAIN log \subseteq DOMAIN log'
        BY DEF Base, Types, Extended
      <3> QED BY <3>1, <3>2 DEF SignalKnown, Work, From, Accepts
    <2> QED BY <2>1, <2>2
  <1> QED BY <1>4, <1>5 DEF Base

\* A call that ends frees its process; nothing is known of it any more.
LEMMA IdleKnown ==
    ASSUME NEW p \in Procs, call'[p] = NoCall
    PROVE  SignalKnown(p)' /\ call'[p].pc = "idle" /\ call'[p].id = 0
  <1>1. call'[p].pc = "idle" /\ call'[p].id = 0
    BY DEF NoCall
  <1> QED BY <1>1 DEF SignalKnown, Processing

\* What no call in progress looks like.
LEMMA NoCallType ==
    NoCall \in Calls /\ NoCall.pc = "idle" /\ NoCall.id = 0 /\ (\A n \in Nat : WorkWithin(NoWork, n)) /\ NoWork \in Works
    /\ NoCall.work = NoWork /\ NoCall.outer = NoWork
  BY DEF NoCall, NoWork, Calls, Works, Sources, PCs, WorkWithin

\* A call that ends has its result recorded; the other results stand.
LEMMA ResultRecorded ==
    ASSUME Base, NEW p \in Procs, call[p].pc # "idle", NEW r \in Results, results' = [results EXCEPT ![By(p)] = r]
    PROVE  /\ results' \in Seq(Results) /\ Len(results') = Len(results) /\ ResultsStand(p)
           /\ call[p].id \in DOMAIN results /\ results'[call[p].id] = r
  <1>1. results \in Seq(Results) /\ call[p].id \in DOMAIN results
    BY DEF Base, Types, CallsAreNumbered
  <1> QED BY <1>1 DEF ResultsStand, By

\* A step of p leaves the others alone.
Framed(p) == Base' /\ Bystanders(p) /\ Extended /\ ResultsStand(p)

\* The engine as it was, the ledger as it was.
Still(p) == New = {} /\ engine'[p] = engine[p]

\* One event was appended and the engine knows it.
Appends(p, e) ==
    /\ New = {Len(log) + 1} /\ log'[Len(log) + 1] = e
    /\ engine'[p] = [engine[p] EXCEPT !.stale = @ \/ Len(log) > engine[p].seen, !.seen = Len(log) + 1]

\* The call moves on to another point of the code.
Moves(p, C) == call'[p] = C /\ UNCHANGED results

\* The call is over.
Ends(p, r) == call'[p] = NoCall /\ results' = [results EXCEPT ![call[p].id] = r]

\* A longer ledger has the events that a work refers to.
LEMMA WithinMore ==
    ASSUME NEW w \in Works, NEW n \in Nat, WorkWithin(w, n), NEW m \in Nat, n <= m
    PROVE  WorkWithin(w, m)
  <1>1. w.cause \in Nat /\ w.ev \in Nat /\ w.version \in Nat
    BY DEF Works
  <1> QED BY <1>1 DEF WorkWithin

\* What every step may use of its process and of the ledger.
LEMMA BaseFacts ==
    ASSUME Base, NEW p \in Procs
    PROVE  /\ call \in [Procs -> Calls] /\ call[p] \in Calls /\ call[p].work \in Works /\ call[p].outer \in Works
           /\ engine \in [Procs -> Engines] /\ engine[p] \in Engines /\ engine[p].seen \in DOMAIN log
           /\ WorkWithin(call[p].work, Len(log)) /\ WorkWithin(call[p].outer, Len(log))
           /\ WorkWithin(call[p].work, Len(log) + 1) /\ WorkWithin(call[p].outer, Len(log) + 1)
           /\ Len(log) \in Nat /\ DOMAIN log = 1 .. Len(log) /\ results \in Seq(Results) /\ Len(results) \in Nat
           /\ snapshot \in [seq : Nat, state : States] /\ snapshot.seq \in DOMAIN log
           /\ job \in [state : States, done : BOOLEAN]
           /\ submits \in 0 .. MaxSubmits /\ foreign \in 0 .. MaxForeign /\ crashes \in 0 .. MaxCrashes
           /\ engine[p].state \in States /\ From(p) \in States
           /\ call[p].id \in 0 .. Len(results)
           /\ call[p].pc # "idle" => call[p].id \in DOMAIN results /\ results[call[p].id] = "pending"
  <1>1. call[p] \in Calls /\ engine[p] \in Engines
    BY DEF Base, Types
  <1>2. call[p].id \in 0 .. Len(results)
    BY <1>1 DEF Base, Types, CallsAreNumbered, Calls
  <1>3. /\ WorkWithin(call[p].work, Len(log)) /\ WorkWithin(call[p].outer, Len(log))
        /\ call[p].work \in Works /\ call[p].outer \in Works /\ Len(log) \in Nat
    BY <1>1 DEF Base, Types, Calls
  <1>4. WorkWithin(call[p].work, Len(log) + 1) /\ WorkWithin(call[p].outer, Len(log) + 1)
    BY <1>3, WithinMore
  <1> QED BY <1>1, <1>2, <1>3, <1>4 DEF Base, Types, Engines, From, CallsAreNumbered

\* The ledger has a length, and an engine has read a part of it.
LEMMA LengthFacts ==
    ASSUME Base, Base', NEW p \in Procs
    PROVE  Len(log) \in Nat /\ Len(log') \in Nat /\ engine[p].seen \in Nat
  <1>1. log \in Seq(Events) /\ log' \in Seq(Events)'
    BY DEF Base, Types
  <1>2. Len(log) \in Nat /\ engine[p].seen \in DOMAIN log /\ DOMAIN log = 1 .. Len(log)
    BY BaseFacts
  <1>3. Len(log') \in Nat
    BY <1>1
  <1> QED BY <1>2, <1>3

\* A call in a run of quiet steps: nothing is appended, the engine rests.
LEMMA QuietMove ==
    ASSUME Base, NEW p \in Procs, NEW C \in Calls, call' = [call EXCEPT ![p] = C],
           UNCHANGED <<log, snapshot, job, engine, results, bounds>>,
           WorkWithin(C.work, Len(log)), WorkWithin(C.outer, Len(log)),
           C.pc # "idle", C.id = call[p].id, call[p].pc # "idle", SignalKnown(p)'
    PROVE  Framed(p) /\ Still(p) /\ Moves(p, C)
  <1>1. engine' = [engine EXCEPT ![p] = engine[p]]
    BY BaseFacts
  <1>2. Types' /\ Bystanders(p) /\ Extended /\ New = {} /\ call'[p] = C /\ engine'[p] = engine[p]
    <2>1. /\ results' \in Seq(Results) /\ Len(results') >= Len(results)
          /\ snapshot' \in [seq : Nat, state : States] /\ snapshot'.seq \in DOMAIN log
          /\ job' \in [state : States, done : BOOLEAN]
          /\ submits' \in 0 .. MaxSubmits /\ foreign' \in 0 .. MaxForeign /\ crashes' \in 0 .. MaxCrashes
      BY BaseFacts DEF bounds
    <2>2. Types /\ engine[p] \in Engines /\ engine[p].seen \in DOMAIN log /\ UNCHANGED log
      BY BaseFacts DEF Base
    <2> QED BY <1>1, <2>1, <2>2, NoEvent
  <1>3. ResultsStand(p)
    BY BaseFacts DEF ResultsStand
  <1>4. call'[p].id \in DOMAIN results' /\ results'[call'[p].id] = "pending" /\ call'[p].id \in {call[p].id, Len(results) + 1}
    BY <1>2, BaseFacts
  <1>5. call'[p].pc # "idle"
    BY <1>2
  <1>6. Base'
    BY <1>2, <1>3, <1>4, <1>5, BaseKept
  <1> QED BY <1>2, <1>3, <1>6 DEF Framed, Still, Moves

\* The call appends one event and goes on.
LEMMA EventMove ==
    ASSUME Base, NEW p \in Procs, NEW e \in Events, Appended(p, <<e>>), e.cause <= Len(log), e.by = call[p].id,
           NEW C \in Calls, call' = [call EXCEPT ![p] = C], UNCHANGED <<snapshot, job, results, bounds>>,
           WorkWithin(C.work, Len(log) + 1), WorkWithin(C.outer, Len(log) + 1),
           C.pc # "idle", C.id = call[p].id, call[p].pc # "idle",
           (/\ call'[p] = C /\ Len(log') = Len(log) + 1 /\ DOMAIN log' = 1 .. (Len(log) + 1)
            /\ engine'[p] = [engine[p] EXCEPT !.stale = @ \/ Len(log) > engine[p].seen, !.seen = Len(log) + 1])
               => SignalKnown(p)'
    PROVE  Framed(p) /\ Appends(p, e) /\ Moves(p, C)
  <1>1. /\ Types' /\ Bystanders(p) /\ Extended /\ call'[p] = C
        /\ engine'[p] = [engine[p] EXCEPT !.stale = @ \/ Len(log) > engine[p].seen, !.seen = Len(log) + 1]
        /\ Len(log') = Len(log) + 1 /\ New = {Len(log) + 1} /\ log'[Len(log) + 1] = e
    <2>1. results' \in Seq(Results) /\ Len(results') >= Len(results) /\ e.by <= Len(results) /\ Types
      BY BaseFacts DEF Base
    <2> QED BY <2>1, OneEvent
  <1>2. DOMAIN log' = 1 .. (Len(log) + 1)
    BY <1>1 DEF Types
  <1>3. SignalKnown(p)'
    BY <1>1, <1>2
  <1>4. ResultsStand(p)
    BY BaseFacts DEF ResultsStand
  <1>5. call'[p].id \in DOMAIN results' /\ results'[call'[p].id] = "pending" /\ call'[p].id \in {call[p].id, Len(results) + 1}
    BY <1>1, BaseFacts
  <1>6. call'[p].pc # "idle"
    BY <1>1
  <1>7. Base'
    BY <1>1, <1>3, <1>4, <1>5, <1>6, BaseKept
  <1> QED BY <1>1, <1>4, <1>7 DEF Framed, Appends, Moves

\* The call ends without a word in the ledger.
LEMMA QuietEnd ==
    ASSUME Base, NEW p \in Procs, call[p].pc # "idle", NEW r \in Results, Return(p, r),
           NEW E \in Engines, engine' = [engine EXCEPT ![p] = E], E.seen \in DOMAIN log,
           UNCHANGED <<log, snapshot>>, job' \in [state : States, done : BOOLEAN],
           submits' \in 0 .. MaxSubmits, foreign' \in 0 .. MaxForeign, crashes' \in 0 .. MaxCrashes
    PROVE  Framed(p) /\ New = {} /\ engine'[p] = E /\ Ends(p, r)
  <1>1. results' = [results EXCEPT ![By(p)] = r] /\ call' = [call EXCEPT ![p] = NoCall]
    BY DEF Return
  <1>2. results' \in Seq(Results) /\ Len(results') = Len(results) /\ ResultsStand(p)
    BY <1>1, ResultRecorded
  <1>3. Types' /\ Bystanders(p) /\ Extended /\ New = {} /\ call'[p] = NoCall /\ engine'[p] = E
    <2>1. /\ Len(results') >= Len(results)
          /\ snapshot' \in [seq : Nat, state : States] /\ snapshot'.seq \in DOMAIN log /\ Types
      BY <1>2, BaseFacts DEF Base
    <2>2. WorkWithin(NoCall.work, Len(log)) /\ WorkWithin(NoCall.outer, Len(log)) /\ NoCall \in Calls
      BY NoCallType, BaseFacts
    <2> QED BY <1>1, <1>2, <2>1, <2>2, NoEvent
  <1>4. SignalKnown(p)' /\ call'[p].pc = "idle" /\ call'[p].id = 0
    BY <1>3, IdleKnown
  <1>5. Base'
    BY <1>2, <1>3, <1>4, BaseKept
  <1> QED BY <1>1, <1>2, <1>3, <1>5 DEF Framed, Ends, By

\* The call ends with an event.
LEMMA EventEnd ==
    ASSUME Base, NEW p \in Procs, call[p].pc # "idle", NEW e \in Events, Appended(p, <<e>>), e.cause <= Len(log), e.by = call[p].id,
           NEW r \in Results, Return(p, r), UNCHANGED <<snapshot, job, bounds>>
    PROVE  Framed(p) /\ Appends(p, e) /\ Ends(p, r)
  <1>1. results' = [results EXCEPT ![By(p)] = r] /\ call' = [call EXCEPT ![p] = NoCall]
    BY DEF Return
  <1>2. results' \in Seq(Results) /\ Len(results') = Len(results) /\ ResultsStand(p)
    BY <1>1, ResultRecorded
  <1>3. /\ Types' /\ Bystanders(p) /\ Extended /\ call'[p] = NoCall
        /\ engine'[p] = [engine[p] EXCEPT !.stale = @ \/ Len(log) > engine[p].seen, !.seen = Len(log) + 1]
        /\ New = {Len(log) + 1} /\ log'[Len(log) + 1] = e
    <2>1. e.by <= Len(results) /\ Types /\ Len(results') >= Len(results)
      BY <1>2, BaseFacts DEF Base
    <2>2. WorkWithin(NoCall.work, Len(log) + 1) /\ WorkWithin(NoCall.outer, Len(log) + 1) /\ NoCall \in Calls
      BY NoCallType, BaseFacts
    <2> QED BY <1>1, <1>2, <2>1, <2>2, OneEvent
  <1>4. SignalKnown(p)' /\ call'[p].pc = "idle" /\ call'[p].id = 0
    BY <1>3, IdleKnown
  <1>5. Base'
    BY <1>2, <1>3, <1>4, BaseKept
  <1> QED BY <1>1, <1>2, <1>3, <1>5 DEF Framed, Appends, Ends, By

-----------------------------------------------------------------------------
(* The shapes of the steps *)

\* The fields of an event.
LEMMA EventType ==
    ASSUME NEW t \in EventTypes, NEW s \in States, NEW g \in Signals \cup {NoSignal}, NEW c \in Nat, NEW b \in Nat
    PROVE  /\ Event(t, s, g, c, b) \in Events
           /\ Event(t, s, g, c, b).type = t /\ Event(t, s, g, c, b).state = s /\ Event(t, s, g, c, b).sig = g
           /\ Event(t, s, g, c, b).cause = c /\ Event(t, s, g, c, b).by = b /\ Event(t, s, g, c, b).src = NoSignal
  BY DEF Event, Events

\* An event that a call appends.
LEMMA OwnEvent ==
    ASSUME Base, NEW p \in Procs, NEW t \in EventTypes, NEW s \in States, NEW g \in Signals \cup {NoSignal},
           NEW c \in Nat, c <= Len(log)
    PROVE  /\ Event(t, s, g, c, call[p].id) \in Events /\ Event(t, s, g, c, call[p].id).cause <= Len(log)
           /\ Event(t, s, g, c, call[p].id).by = call[p].id
  <1>1. call[p].id \in Nat
    BY BaseFacts
  <1> QED BY <1>1 DEF Event, Events

\* The call of a process that begins.
Begun(p, sig) ==
    /\ Framed(p) /\ Still(p)
    /\ call'[p] = [NoCall EXCEPT !.pc = "drain", !.id = Len(results) + 1, !.sig = sig, !.resuming = TRUE, !.first = TRUE]
    /\ results' = Append(results, "pending")

\* A call begins.
LEMMA BeginShape ==
    ASSUME Base, NEW p \in Procs, NEW sig \in Signals \cup {NoSignal}, Begin(p, sig), submits' \in 0 .. MaxSubmits
    PROVE  Begun(p, sig)
  <1> DEFINE C == [NoCall EXCEPT !.pc = "drain", !.id = Len(results) + 1, !.sig = sig, !.resuming = TRUE, !.first = TRUE]
  <1>1. /\ results \in Seq(Results) /\ results' = Append(results, "pending") /\ results' \in Seq(Results)
        /\ Len(results') = Len(results) + 1 /\ Len(results) \in Nat
        /\ results'[Len(results) + 1] = "pending" /\ Len(results) + 1 \in DOMAIN results'
        /\ \A c \in DOMAIN results : results'[c] = results[c]
    <2>1. results \in Seq(Results) /\ "pending" \in Results /\ results' = Append(results, "pending")
      BY BaseFacts DEF Begin, Results
    <2> QED BY <2>1
  <1>2. call' = [call EXCEPT ![p] = C] /\ UNCHANGED <<log, snapshot, job, engine, foreign, crashes>> /\ call[p].pc = "idle"
    BY <1>1 DEF Begin
  <1>3. C \in Calls /\ C.pc = "drain" /\ C.id = Len(results) + 1 /\ C.work = NoWork /\ C.outer = NoWork /\ C.sig = sig
    <2>1. NoCall \in Calls /\ Len(results) + 1 \in Nat /\ NoCall.work = NoWork /\ NoCall.outer = NoWork
      BY <1>1, NoCallType
    <2> QED BY <2>1 DEF Calls, PCs
  <1> HIDE DEF C
  <1>4. engine' = [engine EXCEPT ![p] = engine[p]]
    BY <1>2, BaseFacts
  <1>5. Types' /\ Bystanders(p) /\ Extended /\ New = {} /\ call'[p] = C /\ engine'[p] = engine[p]
    <2>1. /\ Len(results') >= Len(results)
          /\ snapshot' \in [seq : Nat, state : States] /\ snapshot'.seq \in DOMAIN log
          /\ job' \in [state : States, done : BOOLEAN]
          /\ foreign' \in 0 .. MaxForeign /\ crashes' \in 0 .. MaxCrashes
      BY <1>1, <1>2, BaseFacts
    <2>2. Types /\ engine[p] \in Engines /\ engine[p].seen \in DOMAIN log /\ UNCHANGED log
      BY <1>2, BaseFacts DEF Base
    <2>3. WorkWithin(C.work, Len(log)) /\ WorkWithin(C.outer, Len(log))
      BY <1>3, NoCallType, BaseFacts
    <2> QED BY <1>1, <1>2, <1>3, <1>4, <2>1, <2>2, <2>3, NoEvent
  <1>6. ResultsStand(p)
    BY <1>1 DEF ResultsStand
  <1>7. SignalKnown(p)'
    BY <1>3, <1>5 DEF SignalKnown, Processing
  <1>8. call'[p].pc # "idle" /\ call'[p].id = Len(results) + 1
    BY <1>3, <1>5
  <1>9. Base'
    BY <1>1, <1>5, <1>6, <1>7, <1>8, BaseKept
  <1> QED BY <1>1, <1>5, <1>6, <1>9 DEF Begun, Framed, Still, C

\* handleSignal begins with a signal of the caller.
LEMMA SubmitShape ==
    ASSUME Base, NEW p \in Procs, Submit(p)
    PROVE  \E sig \in Submittable : Begun(p, sig) /\ call[p].pc = "idle" /\ UNCHANGED <<log, snapshot, job, engine>>
  <1>1. PICK sig \in Submittable : Begin(p, sig)
    BY DEF Submit
  <1>2. submits' \in 0 .. MaxSubmits
    <2>1. submits \in 0 .. MaxSubmits /\ MaxSubmits \in Nat
      BY BaseFacts, ConstantFacts
    <2> QED BY <2>1 DEF Submit
  <1>3. sig \in Signals \cup {NoSignal}
    BY ConstantFacts
  <1> QED BY <1>1, <1>2, <1>3, BeginShape DEF Begin

\* resumeRuntimeActions begins without one.
LEMMA ResumeShape ==
    ASSUME Base, NEW p \in Procs, Resume(p)
    PROVE  /\ Begun(p, NoSignal) /\ call[p].pc = "idle" /\ ~HasExternal(p)
           /\ UNCHANGED <<log, snapshot, job, engine>>
  BY BeginShape, BaseFacts DEF Resume, Begin

\* A stale engine is dropped between two calls.
LEMMA ReopenShape ==
    ASSUME Base, NEW p \in Procs, Reopen(p)
    PROVE  /\ Framed(p) /\ New = {} /\ engine'[p] = Opened /\ Moves(p, call[p]) /\ call[p].pc = "idle"
           /\ job' = [job EXCEPT !.state = Rehydrated] /\ UNCHANGED <<log, snapshot>>
  <1>1. Rehydrated \in States
    BY RehydratedState DEF Base
  <1>2. Opened \in Engines /\ Opened.seen = Len(log)
    <2>1. Len(log) \in Nat /\ <<>> \in Seq(Signals)
      BY BaseFacts
    <2> QED BY <1>1, <2>1 DEF Opened, Engines
  <1>3. call' = [call EXCEPT ![p] = call[p]] /\ engine' = [engine EXCEPT ![p] = Opened] /\ call[p].pc = "idle"
        /\ job' = [job EXCEPT !.state = Rehydrated] /\ UNCHANGED <<log, snapshot, results, bounds>>
    BY BaseFacts DEF Reopen
  <1>4. Types' /\ Bystanders(p) /\ Extended /\ New = {} /\ call'[p] = call[p] /\ engine'[p] = Opened
    <2>1. /\ results' \in Seq(Results) /\ Len(results') >= Len(results)
          /\ snapshot' \in [seq : Nat, state : States] /\ snapshot'.seq \in DOMAIN log
          /\ job' \in [state : States, done : BOOLEAN]
          /\ submits' \in 0 .. MaxSubmits /\ foreign' \in 0 .. MaxForeign /\ crashes' \in 0 .. MaxCrashes
      <3>1. /\ results \in Seq(Results) /\ Len(results) \in Nat
            /\ snapshot \in [seq : Nat, state : States] /\ snapshot.seq \in DOMAIN log
            /\ job \in [state : States, done : BOOLEAN]
            /\ submits \in 0 .. MaxSubmits /\ foreign \in 0 .. MaxForeign /\ crashes \in 0 .. MaxCrashes
        BY BaseFacts
      <3> QED BY <1>1, <1>3, <3>1 DEF bounds
    <2>2. Types /\ Opened.seen \in DOMAIN log /\ UNCHANGED log
      BY <1>2, <1>3, BaseFacts DEF Base, Types
    <2>3. call[p] \in Calls /\ WorkWithin(call[p].work, Len(log)) /\ WorkWithin(call[p].outer, Len(log))
      BY BaseFacts
    <2> QED BY <1>2, <1>3, <2>1, <2>2, <2>3, NoEvent
  <1>5. ResultsStand(p)
    BY <1>3, BaseFacts DEF ResultsStand
  <1>6. SignalKnown(p)' /\ call'[p].pc = "idle" /\ call'[p].id = 0
    <2>1. call'[p].pc = "idle" /\ call'[p].id = 0
      BY <1>3, <1>4 DEF Base, CallsAreNumbered
    <2> QED BY <2>1 DEF SignalKnown, Processing
  <1>7. Base'
    BY <1>4, <1>5, <1>6, BaseKept
  <1> QED BY <1>3, <1>4, <1>5, <1>7 DEF Framed, Moves

\* The caller's signal is next, or the call is over.
ToOwnSignal(p) == [call[p] EXCEPT !.pc = "emit", !.work = [NoWork EXCEPT !.sig = call[p].sig]]

\* The fields of a call that gets to the caller's signal.
LEMMA OwnSignalType ==
    ASSUME Base, NEW p \in Procs
    PROVE  /\ ToOwnSignal(p) \in Calls /\ ToOwnSignal(p).pc = "emit" /\ ToOwnSignal(p).id = call[p].id
           /\ ToOwnSignal(p).work \in Works /\ ToOwnSignal(p).work.src = "caller" /\ ToOwnSignal(p).work.sig = call[p].sig
           /\ ToOwnSignal(p).outer = call[p].outer
           /\ \A n \in Nat : WorkWithin(ToOwnSignal(p).work, n)
           /\ ToOwnSignal(p).sig = call[p].sig /\ ToOwnSignal(p).resuming = call[p].resuming
  <1> DEFINE w == [NoWork EXCEPT !.sig = call[p].sig]
  <1>1. call[p] \in Calls /\ call[p].sig \in Signals \cup {NoSignal}
    BY BaseFacts DEF Calls
  <1>2. w \in Works /\ w.src = "caller" /\ w.sig = call[p].sig /\ \A n \in Nat : WorkWithin(w, n)
    BY <1>1 DEF NoWork, Works, Sources, WorkWithin
  <1> HIDE DEF w
  <1>3. ToOwnSignal(p) = [call[p] EXCEPT !.pc = "emit", !.work = w]
    BY DEF ToOwnSignal, w
  <1> QED BY <1>1, <1>2, <1>3 DEF Calls, PCs

\* No runtime state is left.
LEMMA DrainedShape ==
    ASSUME Base, NEW p \in Procs, Drained(p)
    PROVE  /\ call[p].pc = "drain" /\ NothingToRun(p) /\ Framed(p) /\ Still(p) /\ UNCHANGED <<log, snapshot, job, engine>>
           /\ \/ call[p].resuming /\ call[p].sig # NoSignal /\ Moves(p, ToOwnSignal(p))
              \/ Ends(p, "ok")
  <1>1. call[p].pc = "drain" /\ NothingToRun(p) /\ UNCHANGED <<log, snapshot, job, engine, bounds>>
    BY DEF Drained
  <1>2. CASE call[p].resuming /\ call[p].sig # NoSignal
    <2>1. call' = [call EXCEPT ![p] = ToOwnSignal(p)] /\ UNCHANGED results
      <3>1. call' = [call EXCEPT ![p].pc = "emit", ![p].work = [NoWork EXCEPT !.sig = call[p].sig]] /\ UNCHANGED results
        BY <1>2 DEF Drained
      <3> QED BY <3>1, BaseFacts DEF ToOwnSignal
    <2>2. call'[p] = ToOwnSignal(p)
      BY <2>1, BaseFacts
    <2>3. SignalKnown(p)'
      BY <2>2, OwnSignalType DEF SignalKnown, Processing
    <2> QED BY <1>1, <1>2, <2>1, <2>3, OwnSignalType, BaseFacts, QuietMove
  <1>3. CASE ~(call[p].resuming /\ call[p].sig # NoSignal)
    <2>1. Return(p, "ok")
      BY <1>3 DEF Drained
    <2>2. engine' = [engine EXCEPT ![p] = engine[p]]
      BY <1>1, BaseFacts
    <2>3. Framed(p) /\ New = {} /\ engine'[p] = engine[p] /\ Ends(p, "ok")
      BY <1>1, <2>1, <2>2, BaseFacts, QuietEnd DEF bounds, Results
    <2> QED BY <1>1, <2>3 DEF Still
  <1> QED BY <1>2, <1>3

\* The finally of the drain.
Stopped(p) == [engine[p] EXCEPT !.draining = FALSE, !.depth = 0]

\* The fields of an engine whose drain ended.
LEMMA StoppedType ==
    ASSUME Base, NEW p \in Procs
    PROVE  /\ Stopped(p) \in Engines /\ Stopped(p).seen = engine[p].seen /\ Stopped(p).queue = engine[p].queue
           /\ Stopped(p).stale = engine[p].stale /\ Stopped(p).state = engine[p].state
           /\ ~Stopped(p).draining /\ Stopped(p).depth = 0
  BY BaseFacts DEF Stopped, Engines

\* An error leaves through the finally of the drain.
LEMMA ThrowShape ==
    ASSUME Base, NEW p \in Procs, call[p].pc # "idle", Throw(p), UNCHANGED <<log, snapshot, job, bounds>>
    PROVE  Framed(p) /\ New = {} /\ engine'[p] = Stopped(p) /\ Ends(p, "failed")
  <1>1. Return(p, "failed") /\ engine' = [engine EXCEPT ![p] = Stopped(p)]
    <2>1. engine' = [engine EXCEPT ![p].draining = FALSE, ![p].depth = 0]
      BY DEF Throw
    <2> QED BY <2>1, BaseFacts DEF Throw, Stopped
  <1>2. Stopped(p) \in Engines /\ Stopped(p).seen \in DOMAIN log
    BY StoppedType, BaseFacts
  <1> QED BY <1>1, <1>2, BaseFacts, QuietEnd DEF bounds, Results

\* The chain of an interrupted process is refused when the ledger moved.
LEMMA DrainConflictShape ==
    ASSUME Base, NEW p \in Procs, DrainConflict(p)
    PROVE  /\ call[p].pc = "drain" /\ HasExternal(p) /\ Framed(p) /\ New = {} /\ engine'[p] = Stopped(p) /\ Ends(p, "failed")
           /\ UNCHANGED <<log, snapshot, job>>
  BY ThrowShape DEF DrainConflict, StaleChain

\* An outcome is on its way.
ToOutcome(p, g, i) ==
    [call[p] EXCEPT !.pc = "emit", !.first = FALSE,
                    !.work = [NoWork EXCEPT !.sig = g, !.src = "runtime_action", !.cause = i]]

\* The fields of a call that dispatches an outcome.
LEMMA OutcomeType ==
    ASSUME Base, NEW p \in Procs, NEW g \in Signals \cup {NoSignal}, NEW i \in Nat
    PROVE  /\ ToOutcome(p, g, i) \in Calls /\ ToOutcome(p, g, i).pc = "emit" /\ ToOutcome(p, g, i).id = call[p].id
           /\ ToOutcome(p, g, i).work \in Works /\ ToOutcome(p, g, i).work.src = "runtime_action"
           /\ ToOutcome(p, g, i).work.sig = g /\ ToOutcome(p, g, i).work.cause = i
           /\ ToOutcome(p, g, i).outer = call[p].outer
           /\ \A n \in Nat : i <= n => WorkWithin(ToOutcome(p, g, i).work, n)
           /\ ToOutcome(p, g, i).sig = call[p].sig /\ ToOutcome(p, g, i).resuming = call[p].resuming
           /\ ~ToOutcome(p, g, i).first
  <1> DEFINE w == [NoWork EXCEPT !.sig = g, !.src = "runtime_action", !.cause = i]
  <1>1. NoWork \in Works /\ NoWork.ev = 0 /\ NoWork.version = 0
    BY NoCallType DEF NoWork
  <1>2. w \in Works /\ w.src = "runtime_action" /\ w.sig = g /\ w.cause = i /\ w.ev = 0 /\ w.version = 0
    BY <1>1 DEF Works, Sources
  <1>3. \A n \in Nat : i <= n => WorkWithin(w, n)
    BY <1>2 DEF WorkWithin
  <1> HIDE DEF w
  <1>4. call[p] \in Calls /\ ToOutcome(p, g, i) = [call[p] EXCEPT !.pc = "emit", !.first = FALSE, !.work = w]
    BY BaseFacts DEF ToOutcome, w
  <1> QED BY <1>2, <1>3, <1>4 DEF Calls, PCs

\* They refer to what the ledger has after the step.
LEMMA OutcomeFits ==
    ASSUME Base, NEW p \in Procs, NEW g \in Signals \cup {NoSignal}, NEW n \in {Len(log), Len(log) + 1}, NEW i \in 0 .. n,
           NEW C, C = ToOutcome(p, g, i)
    PROVE  C \in Calls /\ C.pc = "emit" /\ C.id = call[p].id /\ WorkWithin(C.work, n) /\ WorkWithin(C.outer, n)
  <1>1. n \in Nat /\ i \in Nat /\ i <= n
    BY BaseFacts
  <1>2. WorkWithin(call[p].outer, n)
    BY BaseFacts
  <1>3. /\ C \in Calls /\ C.pc = "emit" /\ C.id = call[p].id /\ C.outer = call[p].outer
        /\ \A m \in Nat : i <= m => WorkWithin(C.work, m)
    BY <1>1, OutcomeType
  <1> QED BY <1>1, <1>2, <1>3

\* Dispatch puts the outcome on its way.
LEMMA DispatchFacts ==
    ASSUME Base, NEW p \in Procs, NEW i, Dispatch(p, i)
    PROVE  call' = [call EXCEPT ![p] = ToOutcome(p, log'[i].sig, i)]
  BY BaseFacts DEF Dispatch, ToOutcome

\* A call elsewhere in the code, with everything else as it was.
At(p, pc) == [call[p] EXCEPT !.pc = pc]

\* The fields of a call that only steps on.
LEMMA AtType ==
    ASSUME Base, NEW p \in Procs, NEW pc \in PCs
    PROVE  /\ At(p, pc) \in Calls /\ At(p, pc).pc = pc /\ At(p, pc).id = call[p].id /\ At(p, pc).sig = call[p].sig
           /\ At(p, pc).work = call[p].work /\ At(p, pc).outer = call[p].outer
           /\ At(p, pc).resuming = call[p].resuming /\ At(p, pc).first = call[p].first
  BY BaseFacts DEF At, Calls

\* Goto only steps on.
LEMMA GotoFacts ==
    ASSUME Base, NEW p \in Procs, NEW pc \in PCs, Goto(p, pc)
    PROVE  call' = [call EXCEPT ![p] = At(p, pc)]
  BY BaseFacts DEF Goto, At

\* A result of the window is in the ledger, after the snapshot.
LEMMA CompletedFacts ==
    ASSUME Base, NEW s, Completed(s) # 0
    PROVE  /\ Completed(s) \in Positions("RUNTIME_ACTION_COMPLETED") /\ Completed(s) \in DOMAIN log
           /\ Completed(s) > snapshot.seq /\ log[Completed(s)].state = s
  <1> DEFINE S == {0} \cup (Window(s) \cap Positions("RUNTIME_ACTION_COMPLETED"))
  <1>1. Len(log) \in Nat /\ S \subseteq 0 .. Len(log) /\ S # {}
    BY DEF Base, Types, Window
  <1>2. Max(S) \in S
    BY <1>1, MaxFacts
  <1> QED BY <1>2 DEF Completed, Window

\* A recorded result is dispatched, or the action is about to start.
LEMMA FoldWindowShape ==
    ASSUME Base, NEW p \in Procs, FoldWindow(p)
    PROVE  /\ call[p].pc = "drain" /\ ~NothingToRun(p) /\ ~StaleChain(p)
           /\ Framed(p) /\ Still(p) /\ UNCHANGED <<log, snapshot, job, engine>>
           /\ \/ Completed(From(p)) # 0 /\ Moves(p, ToOutcome(p, log[Completed(From(p))].sig, Completed(From(p))))
              \/ Completed(From(p)) = 0 /\ Moves(p, At(p, "start"))
  <1>1. call[p].pc = "drain" /\ ~NothingToRun(p) /\ ~StaleChain(p) /\ UNCHANGED <<log, snapshot, job, engine, results, bounds>>
    BY DEF FoldWindow
  <1>2. CASE Completed(From(p)) # 0
    <2> DEFINE i == Completed(From(p))
    <2> DEFINE C == ToOutcome(p, log[i].sig, i)
    <2>1. i \in DOMAIN log /\ i \in Nat /\ i <= Len(log) /\ log[i].sig \in Signals \cup {NoSignal}
      <3>1. i \in DOMAIN log
        BY <1>2, CompletedFacts
      <3>2. i \in Nat /\ i <= Len(log) /\ log[i] \in Events
        BY <3>1, BaseFacts DEF Base, Types
      <3> QED BY <3>1, <3>2 DEF Events
    <2>2. call' = [call EXCEPT ![p] = C]
      BY <1>1, <1>2, DispatchFacts DEF FoldWindow, From
    <2>3. C \in Calls /\ C.pc = "emit" /\ C.id = call[p].id /\ WorkWithin(C.work, Len(log)) /\ WorkWithin(C.outer, Len(log))
      <3> HIDE DEF i
      <3>1. i \in 0 .. Len(log) /\ Len(log) \in {Len(log), Len(log) + 1}
        BY <2>1
      <3> QED BY <2>1, <3>1, OutcomeFits
    <2> HIDE DEF C
    <2>4. SignalKnown(p)'
      <3>1. call'[p].pc = "emit"
        BY <2>2, <2>3, BaseFacts
      <3> QED BY <3>1 DEF SignalKnown, Processing
    <2>5. Framed(p) /\ Still(p) /\ Moves(p, C)
      BY <1>1, <2>2, <2>3, <2>4, QuietMove
    <2> QED BY <1>1, <1>2, <2>5 DEF C
  <1>3. CASE Completed(From(p)) = 0
    <2>1. call' = [call EXCEPT ![p] = At(p, "start")]
      BY <1>3, GotoFacts DEF FoldWindow, From, PCs
    <2>2. At(p, "start") \in Calls /\ At(p, "start").pc = "start" /\ At(p, "start").id = call[p].id
          /\ WorkWithin(At(p, "start").work, Len(log)) /\ WorkWithin(At(p, "start").outer, Len(log))
      BY AtType, BaseFacts DEF PCs
    <2>3. SignalKnown(p)'
      <3>1. call'[p].pc = "start" /\ engine' = engine
        BY <1>1, <2>1, <2>2, BaseFacts
      <3> QED BY <1>1, <3>1 DEF SignalKnown, Processing, NothingToRun, From
    <2>4. Framed(p) /\ Still(p) /\ Moves(p, At(p, "start"))
      BY <1>1, <2>1, <2>2, <2>3, QuietMove
    <2> QED BY <1>1, <1>3, <2>4
  <1> QED BY <1>2, <1>3

\* The action starts.
LEMMA StartActionShape ==
    ASSUME Base, NEW p \in Procs, StartAction(p)
    PROVE  /\ call[p].pc = "start" /\ Framed(p) /\ Moves(p, At(p, "running")) /\ UNCHANGED <<snapshot, job>>
           /\ Appends(p, Event("RUNTIME_ACTION_STARTED", From(p), NoSignal, 0, call[p].id))
  <1> DEFINE e == Event("RUNTIME_ACTION_STARTED", From(p), NoSignal, 0, call[p].id)
  <1>1. call[p].pc = "start" /\ Appended(p, <<e>>) /\ UNCHANGED <<snapshot, job, results, bounds>> /\ Goto(p, "running")
    BY DEF StartAction, From, By
  <1>2. e \in Events /\ e.cause <= Len(log) /\ e.by = call[p].id
    <2>1. "RUNTIME_ACTION_STARTED" \in EventTypes /\ From(p) \in States /\ 0 \in Nat /\ 0 <= Len(log)
      BY BaseFacts DEF EventTypes
    <2> QED BY <2>1, OwnEvent
  <1> HIDE DEF e
  <1>3. call' = [call EXCEPT ![p] = At(p, "running")]
    BY <1>1, GotoFacts DEF PCs
  <1>4. At(p, "running") \in Calls /\ At(p, "running").pc = "running" /\ At(p, "running").id = call[p].id
        /\ WorkWithin(At(p, "running").work, Len(log) + 1) /\ WorkWithin(At(p, "running").outer, Len(log) + 1)
    BY AtType, BaseFacts DEF PCs
  <1>5. ASSUME call'[p] = At(p, "running"),
               engine'[p] = [engine[p] EXCEPT !.stale = @ \/ Len(log) > engine[p].seen, !.seen = Len(log) + 1]
        PROVE  SignalKnown(p)'
    <2>1. engine'[p].state = engine[p].state /\ call'[p].pc = "running"
      BY <1>4, <1>5, BaseFacts DEF Engines
    <2>2. engine[p].state \in Runtime
      BY <1>1 DEF Base, SignalKnown, From
    <2> QED BY <2>1, <2>2 DEF SignalKnown, Processing, From
  <1>6. Framed(p) /\ Appends(p, e) /\ Moves(p, At(p, "running"))
    BY <1>1, <1>2, <1>3, <1>4, <1>5, EventMove
  <1> QED BY <1>1, <1>6 DEF e

\* The action ends with a result, which is dispatched.
LEMMA CompleteActionShape ==
    ASSUME Base, NEW p \in Procs, CompleteAction(p)
    PROVE  /\ call[p].pc = "running" /\ From(p) \in Runtime /\ Framed(p) /\ UNCHANGED <<snapshot, job>>
           /\ \E observation \in Observations :
                /\ Appends(p, Event("RUNTIME_ACTION_COMPLETED", From(p), DecidedOutcome(From(p), observation), 0, call[p].id))
                /\ Moves(p, ToOutcome(p, DecidedOutcome(From(p), observation), Len(log) + 1))
  <1>1. call[p].pc = "running" /\ From(p) \in Runtime /\ UNCHANGED <<snapshot, job, results, bounds>>
    BY DEF CompleteAction, Base, SignalKnown
  <1>2. PICK observation \in Observations :
            Appended(p, <<Event("RUNTIME_ACTION_COMPLETED", From(p), DecidedOutcome(From(p), observation), 0, call[p].id)>>)
    BY DEF CompleteAction, From, By
  <1> DEFINE g == DecidedOutcome(From(p), observation)
  <1> DEFINE e == Event("RUNTIME_ACTION_COMPLETED", From(p), g, 0, call[p].id)
  <1>3. g \in Signals \cup {NoSignal}
    <2>1. Action[From(p)].success \in Signals /\ Action[From(p)].failure \in Signals
      BY <1>1, BaseFacts, ConstantFacts
    <2> QED BY <2>1 DEF DecidedOutcome
  <1> HIDE DEF g
  <1>4. e \in Events /\ e.cause <= Len(log) /\ e.by = call[p].id
    <2>1. "RUNTIME_ACTION_COMPLETED" \in EventTypes /\ From(p) \in States /\ 0 \in Nat /\ 0 <= Len(log)
      BY BaseFacts DEF EventTypes
    <2> QED BY <1>3, <2>1, OwnEvent
  <1>5. e.sig = g
    BY DEF Event
  <1>6. Appended(p, <<e>>)
    BY <1>2 DEF g
  <1> HIDE DEF e
  <1>7. log'[Len(log) + 1] = e /\ Len(log') = Len(log) + 1
    <2>1. e.by <= Len(results) /\ Types
      BY <1>4, BaseFacts DEF Base
    <2> QED BY <1>4, <1>6, <2>1, AppendedFacts
  <1> DEFINE C == ToOutcome(p, g, Len(log) + 1)
  <1>8. call' = [call EXCEPT ![p] = C]
    <2>1. Dispatch(p, Len(log'))
      BY DEF CompleteAction
    <2>2. Len(log') = Len(log) + 1 /\ log'[Len(log')].sig = g
      BY <1>5, <1>7
    <2>3. call' = [call EXCEPT ![p] = ToOutcome(p, log'[Len(log')].sig, Len(log'))]
      BY <2>1, DispatchFacts
    <2> QED BY <2>2, <2>3
  <1>9. C \in Calls /\ C.pc = "emit" /\ C.id = call[p].id /\ WorkWithin(C.work, Len(log) + 1) /\ WorkWithin(C.outer, Len(log) + 1)
    <2>1. Len(log) + 1 \in 0 .. (Len(log) + 1)
      BY BaseFacts
    <2> QED BY <1>3, <2>1, OutcomeFits
  <1> HIDE DEF C
  <1>10. ASSUME call'[p] = C PROVE SignalKnown(p)'
    BY <1>9, <1>10 DEF SignalKnown, Processing
  <1>11. Framed(p) /\ Appends(p, e) /\ Moves(p, C)
    BY <1>1, <1>4, <1>6, <1>8, <1>9, <1>10, EventMove
  <1> QED BY <1>1, <1>11 DEF e, C, g

\* The caller's signal is refused when the ledger moved.
LEMMA EmitConflictShape ==
    ASSUME Base, NEW p \in Procs, EmitConflict(p)
    PROVE  /\ call[p].pc = "emit" /\ Work(p).src = "caller" /\ HasExternal(p)
           /\ Framed(p) /\ New = {} /\ engine'[p] = Stopped(p) /\ Ends(p, "failed") /\ UNCHANGED <<log, snapshot, job>>
  BY ThrowShape DEF EmitConflict

\* The signal is in the ledger, and what becomes of it is known.
Emitted(p) ==
    [call[p] EXCEPT !.pc = IF RuntimeOwned(p) THEN "refuse" ELSE IF Accepts(p) THEN "accept" ELSE "unhandled",
                    !.work = [call[p].work EXCEPT !.ev = Len(log) + 1]]

\* The fields of a call whose signal is in the ledger.
LEMMA EmittedType ==
    ASSUME Base, NEW p \in Procs
    PROVE  /\ Emitted(p) \in Calls /\ Emitted(p).id = call[p].id /\ Emitted(p).outer = call[p].outer
           /\ Emitted(p).sig = call[p].sig /\ Emitted(p).resuming = call[p].resuming /\ Emitted(p).first = call[p].first
           /\ Emitted(p).work \in Works /\ Emitted(p).work.ev = Len(log) + 1
           /\ Emitted(p).work.sig = Work(p).sig /\ Emitted(p).work.src = Work(p).src
           /\ Emitted(p).work.cause = Work(p).cause /\ Emitted(p).work.version = Work(p).version
           /\ WorkWithin(Emitted(p).work, Len(log) + 1)
           /\ Emitted(p).pc \in {"accept", "unhandled", "refuse"}
           /\ Emitted(p).pc = "accept" => Accepts(p) /\ ~RuntimeOwned(p)
           /\ Emitted(p).pc = "refuse" <=> RuntimeOwned(p)
           /\ Emitted(p).pc = "unhandled" => ~Accepts(p)
  <1> DEFINE w == [call[p].work EXCEPT !.ev = Len(log) + 1]
  <1> DEFINE x == IF RuntimeOwned(p) THEN "refuse" ELSE IF Accepts(p) THEN "accept" ELSE "unhandled"
  <1>1. call[p] \in Calls /\ call[p].work \in Works /\ Len(log) + 1 \in Nat /\ WorkWithin(call[p].work, Len(log) + 1)
    BY BaseFacts
  <1>2. /\ w \in Works /\ w.ev = Len(log) + 1 /\ w.sig = call[p].work.sig /\ w.src = call[p].work.src
        /\ w.cause = call[p].work.cause /\ w.version = call[p].work.version
    BY <1>1 DEF Works
  <1>3. WorkWithin(w, Len(log) + 1)
    BY <1>1, <1>2 DEF WorkWithin
  <1>4. /\ x \in {"accept", "unhandled", "refuse"} /\ x \in PCs
        /\ x = "accept" => Accepts(p) /\ ~RuntimeOwned(p)
        /\ x = "refuse" <=> RuntimeOwned(p)
        /\ x = "unhandled" => ~Accepts(p)
    BY DEF PCs
  <1> HIDE DEF w, x
  <1>5. Emitted(p) = [call[p] EXCEPT !.pc = x, !.work = w]
    BY DEF Emitted, w, x
  <1> QED BY <1>1, <1>2, <1>3, <1>4, <1>5 DEF Calls, Work

\* The event of a signal.
SignalEvent(p) == [Event("SIGNAL_EMITTED", From(p), Work(p).sig, Work(p).cause, call[p].id) EXCEPT !.src = Work(p).src]

\* The fields of the event of a signal.
LEMMA SignalEventType ==
    ASSUME Base, NEW p \in Procs
    PROVE  /\ SignalEvent(p) \in Events /\ SignalEvent(p).type = "SIGNAL_EMITTED" /\ SignalEvent(p).state = From(p)
           /\ SignalEvent(p).sig = Work(p).sig /\ SignalEvent(p).cause = Work(p).cause
           /\ SignalEvent(p).cause <= Len(log) /\ SignalEvent(p).by = call[p].id /\ SignalEvent(p).src = Work(p).src
  <1>1. /\ From(p) \in States /\ call[p].id \in Nat /\ Work(p).sig \in Signals \cup {NoSignal} /\ Work(p).cause \in Nat
        /\ Work(p).src \in Sources /\ Work(p).cause <= Len(log)
    BY BaseFacts DEF Works, Work, WorkWithin
  <1>2. SignalEvent(p) = [type |-> "SIGNAL_EMITTED", state |-> From(p), sig |-> Work(p).sig, cause |-> Work(p).cause,
                          by |-> call[p].id, src |-> Work(p).src]
    BY DEF SignalEvent, Event
  <1> QED BY <1>1, <1>2 DEF Events, EventTypes

\* A signal gets into the ledger.
LEMMA EmitShape ==
    ASSUME Base, NEW p \in Procs, Emit(p)
    PROVE  /\ call[p].pc = "emit" /\ ~(Work(p).src = "caller" /\ HasExternal(p))
           /\ Framed(p) /\ Appends(p, SignalEvent(p)) /\ Moves(p, Emitted(p)) /\ UNCHANGED <<snapshot, job>>
  <1>1. /\ call[p].pc = "emit" /\ ~(Work(p).src = "caller" /\ HasExternal(p)) /\ Appended(p, <<SignalEvent(p)>>)
        /\ UNCHANGED <<snapshot, job, results, bounds>>
    BY DEF Emit, SignalEvent, By
  <1>2. SignalEvent(p) \in Events /\ SignalEvent(p).cause <= Len(log) /\ SignalEvent(p).by = call[p].id
    BY SignalEventType
  <1>3. Len(log') = Len(log) + 1
    <2>1. SignalEvent(p).by <= Len(results) /\ Types
      BY <1>2, BaseFacts DEF Base
    <2> QED BY <1>1, <1>2, <2>1, AppendedFacts
  <1>4. call' = [call EXCEPT ![p] = Emitted(p)]
    BY <1>3, BaseFacts DEF Emit, Emitted, Calls
  <1>5. /\ Emitted(p) \in Calls /\ Emitted(p).pc # "idle" /\ Emitted(p).id = call[p].id
        /\ WorkWithin(Emitted(p).work, Len(log) + 1) /\ WorkWithin(Emitted(p).outer, Len(log) + 1)
    BY EmittedType, BaseFacts
  <1>6. ASSUME call'[p] = Emitted(p), DOMAIN log' = 1 .. (Len(log) + 1),
               engine'[p] = [engine[p] EXCEPT !.stale = @ \/ Len(log) > engine[p].seen, !.seen = Len(log) + 1]
        PROVE  SignalKnown(p)'
    <2>1. engine'[p].state = engine[p].state
      BY <1>6, BaseFacts DEF Engines
    <2>2. call'[p].pc \in {"accept", "unhandled", "refuse"} /\ call'[p].work.ev \in DOMAIN log'
      BY <1>6, EmittedType, BaseFacts
    <2>3. call'[p].pc = "accept" => Accepts(p)'
      BY <1>6, <2>1, EmittedType DEF Accepts, Work, From
    <2> QED BY <2>2, <2>3 DEF SignalKnown, Work
  <1>7. Framed(p) /\ Appends(p, SignalEvent(p)) /\ Moves(p, Emitted(p))
    BY <1>1, <1>2, <1>4, <1>5, <1>6, EventMove
  <1> QED BY <1>1, <1>7

\* The guard is asked, at the version of the ledger that it sees.
LEMMA BeginGuardShape ==
    ASSUME Base, NEW p \in Procs, BeginGuard(p)
    PROVE  /\ call[p].pc = "accept" /\ Framed(p) /\ Still(p) /\ UNCHANGED <<log, snapshot, job, engine>>
           /\ Moves(p, [call[p] EXCEPT !.pc = "guard", !.work = [call[p].work EXCEPT !.version = Len(log)]])
  <1> DEFINE w == [call[p].work EXCEPT !.version = Len(log)]
  <1> DEFINE C == [call[p] EXCEPT !.pc = "guard", !.work = w]
  <1>1. call[p].pc = "accept" /\ UNCHANGED <<log, snapshot, job, engine, results, bounds>>
    BY DEF BeginGuard
  <1>2. call[p] \in Calls /\ call[p].work \in Works /\ Len(log) \in Nat /\ WorkWithin(call[p].work, Len(log))
    BY BaseFacts
  <1>3. /\ w \in Works /\ w.version = Len(log) /\ w.sig = call[p].work.sig /\ w.src = call[p].work.src
        /\ w.cause = call[p].work.cause /\ w.ev = call[p].work.ev /\ WorkWithin(w, Len(log))
    <2>1. /\ w \in Works /\ w.version = Len(log) /\ w.sig = call[p].work.sig /\ w.src = call[p].work.src
          /\ w.cause = call[p].work.cause /\ w.ev = call[p].work.ev
      BY <1>2 DEF Works
    <2> QED BY <1>2, <2>1 DEF WorkWithin
  <1>4. call' = [call EXCEPT ![p] = C]
    BY <1>2, BaseFacts DEF BeginGuard, Calls
  <1> HIDE DEF w
  <1>5. C \in Calls /\ C.pc = "guard" /\ C.id = call[p].id /\ C.work = w /\ C.outer = call[p].outer
    BY <1>2, <1>3 DEF Calls, PCs
  <1> HIDE DEF C
  <1>6. WorkWithin(C.work, Len(log)) /\ WorkWithin(C.outer, Len(log))
    BY <1>3, <1>5, BaseFacts
  <1>7. SignalKnown(p)'
    <2>1. /\ call'[p].pc = "guard" /\ call'[p].work.version = Len(log) /\ call'[p].work.ev = call[p].work.ev
          /\ call'[p].work.sig = call[p].work.sig /\ engine'[p] = engine[p] /\ log' = log
      BY <1>1, <1>3, <1>4, <1>5, BaseFacts
    <2>2. call[p].work.ev \in DOMAIN log /\ Accepts(p) /\ engine[p].seen <= Len(log)
      BY <1>1, BaseFacts DEF Base, SignalKnown, Processing, Work
    <2> QED BY <2>1, <2>2 DEF SignalKnown, Work, Accepts, From
  <1>8. Framed(p) /\ Still(p) /\ Moves(p, C)
    BY <1>1, <1>4, <1>5, <1>6, <1>7, QuietMove
  <1> QED BY <1>1, <1>8 DEF C, w

\* A call steps to another point and knows no more than before.
LEMMA StepsOn ==
    ASSUME Base, NEW p \in Procs, NEW pc \in PCs \ {"idle"}, call[p].pc # "idle", Goto(p, pc),
           UNCHANGED <<log, snapshot, job, engine, results, bounds>>,
           call'[p] = At(p, pc) => SignalKnown(p)'
    PROVE  Framed(p) /\ Still(p) /\ Moves(p, At(p, pc))
  <1>1. call' = [call EXCEPT ![p] = At(p, pc)]
    BY GotoFacts
  <1>2. /\ At(p, pc) \in Calls /\ At(p, pc).pc # "idle" /\ At(p, pc).id = call[p].id
        /\ WorkWithin(At(p, pc).work, Len(log)) /\ WorkWithin(At(p, pc).outer, Len(log))
    BY AtType, BaseFacts
  <1>3. SignalKnown(p)'
    BY <1>1, <1>2, BaseFacts
  <1> QED BY <1>1, <1>2, <1>3, QuietMove

\* A call appends an event and steps to another point.
LEMMA RecordsOn ==
    ASSUME Base, NEW p \in Procs, NEW pc \in PCs \ {"idle"}, call[p].pc # "idle", Goto(p, pc),
           NEW e \in Events, Appended(p, <<e>>), e.cause <= Len(log), e.by = call[p].id,
           UNCHANGED <<snapshot, job, results, bounds>>,
           (call'[p] = At(p, pc) /\ engine'[p].state = engine[p].state) => SignalKnown(p)'
    PROVE  Framed(p) /\ Appends(p, e) /\ Moves(p, At(p, pc))
  <1>1. call' = [call EXCEPT ![p] = At(p, pc)]
    BY GotoFacts
  <1>2. /\ At(p, pc) \in Calls /\ At(p, pc).pc # "idle" /\ At(p, pc).id = call[p].id
        /\ WorkWithin(At(p, pc).work, Len(log) + 1) /\ WorkWithin(At(p, pc).outer, Len(log) + 1)
    BY AtType, BaseFacts
  <1>3. (/\ call'[p] = At(p, pc)
         /\ engine'[p] = [engine[p] EXCEPT !.stale = @ \/ Len(log) > engine[p].seen, !.seen = Len(log) + 1])
            => SignalKnown(p)'
    BY BaseFacts DEF Engines
  <1> QED BY <1>1, <1>2, <1>3, EventMove

\* What follows a signal that did not transition.
Followed(p) ==
    \/ engine[p].draining /\ Moves(p, At(p, "queue"))
    \/ /\ ~engine[p].draining /\ Work(p).src = "runtime_action" /\ call[p].resuming /\ call[p].sig # NoSignal
       /\ Moves(p, ToOwnSignal(p))
    \/ ~engine[p].draining /\ Ends(p, IF Work(p).src = "caller" THEN "refused" ELSE "ok")

\* The same, in the terms of the module.
NoTransitionGoal(p) ==
    \/ engine[p].draining /\ Goto(p, "queue") /\ UNCHANGED results
    \/ /\ ~engine[p].draining /\ Work(p).src = "runtime_action" /\ call[p].resuming /\ call[p].sig # NoSignal
       /\ call' = [call EXCEPT ![p] = ToOwnSignal(p)] /\ UNCHANGED results
    \/ ~engine[p].draining /\ Return(p, IF Work(p).src = "caller" THEN "refused" ELSE "ok")

\* The three ways on from a signal that did not transition.
LEMMA NotTransitionedFacts ==
    ASSUME Base, NEW p \in Procs, NotTransitioned(p)
    PROVE  NoTransitionGoal(p)
  <1>1. call \in [Procs -> Calls]
    BY BaseFacts
  <1> QED BY <1>1 DEF NotTransitioned, NoTransitionGoal, ToOwnSignal

\* Between two signals nothing is known of one.
LEMMA NothingKnown ==
    ASSUME NEW p \in Procs, call'[p].pc \in {"queue", "emit"}
    PROVE  SignalKnown(p)'
  BY DEF SignalKnown, Processing

\* No transition answers to the signal.
LEMMA UnhandledShape ==
    ASSUME Base, NEW p \in Procs, Unhandled(p)
    PROVE  /\ call[p].pc = "unhandled" /\ Framed(p) /\ Still(p) /\ UNCHANGED <<log, snapshot, job, engine>>
           /\ Followed(p)
  <1>1. call[p].pc = "unhandled" /\ UNCHANGED <<log, snapshot, job, engine, bounds>> /\ NoTransitionGoal(p)
    BY NotTransitionedFacts DEF Unhandled
  <1>2. CASE engine[p].draining /\ Goto(p, "queue") /\ UNCHANGED results
    <2>1. call'[p] = At(p, "queue") => SignalKnown(p)'
      BY AtType, NothingKnown DEF PCs
    <2>2. "queue" \in PCs \ {"idle"}
      BY DEF PCs
    <2>3. Framed(p) /\ Still(p) /\ Moves(p, At(p, "queue"))
      BY <1>1, <1>2, <2>1, <2>2, StepsOn
    <2> QED BY <1>1, <1>2, <2>3 DEF Followed
  <1>3. CASE /\ ~engine[p].draining /\ Work(p).src = "runtime_action" /\ call[p].resuming /\ call[p].sig # NoSignal
             /\ call' = [call EXCEPT ![p] = ToOwnSignal(p)] /\ UNCHANGED results
    <2>1. call'[p].pc = "emit"
      BY <1>3, OwnSignalType, BaseFacts
    <2>2. Framed(p) /\ Still(p) /\ Moves(p, ToOwnSignal(p))
      BY <1>1, <1>3, <2>1, NothingKnown, OwnSignalType, BaseFacts, QuietMove
    <2> QED BY <1>1, <1>3, <2>2 DEF Followed
  <1>4. CASE ~engine[p].draining /\ Return(p, IF Work(p).src = "caller" THEN "refused" ELSE "ok")
    <2> DEFINE r == IF Work(p).src = "caller" THEN "refused" ELSE "ok"
    <2>1. r \in Results /\ Return(p, r) /\ engine' = [engine EXCEPT ![p] = engine[p]]
      BY <1>1, <1>4, BaseFacts DEF Results
    <2> HIDE DEF r
    <2>2. Framed(p) /\ New = {} /\ engine'[p] = engine[p] /\ Ends(p, r)
      BY <1>1, <2>1, BaseFacts, QuietEnd DEF bounds
    <2> QED BY <1>1, <1>4, <2>2 DEF Followed, Still, r
  <1> QED BY <1>1, <1>2, <1>3, <1>4 DEF NoTransitionGoal

\* The signal is refused.
LEMMA RefuseShape ==
    ASSUME Base, NEW p \in Procs, Refuse(p)
    PROVE  /\ call[p].pc = "refuse" /\ Framed(p) /\ UNCHANGED <<snapshot, job>> /\ Followed(p)
           /\ Appends(p, Event("SIGNAL_REFUSED", From(p), Work(p).sig, Work(p).ev, call[p].id))
  <1> DEFINE e == Event("SIGNAL_REFUSED", From(p), Work(p).sig, Work(p).ev, call[p].id)
  <1>1. call[p].pc = "refuse" /\ UNCHANGED <<snapshot, job, bounds>> /\ NoTransitionGoal(p) /\ Appended(p, <<e>>)
    BY NotTransitionedFacts DEF Refuse, By
  <1>2. e \in Events /\ e.cause <= Len(log) /\ e.by = call[p].id
    <2>1. /\ From(p) \in States /\ Work(p).sig \in Signals \cup {NoSignal} /\ Work(p).ev \in Nat /\ Work(p).ev <= Len(log)
      BY BaseFacts DEF Works, Work, WorkWithin
    <2>2. "SIGNAL_REFUSED" \in EventTypes
      BY DEF EventTypes
    <2> QED BY <2>1, <2>2, OwnEvent
  <1> HIDE DEF e
  <1>3. CASE engine[p].draining /\ Goto(p, "queue") /\ UNCHANGED results
    <2>1. call'[p] = At(p, "queue") => SignalKnown(p)'
      BY AtType, NothingKnown DEF PCs
    <2>2. "queue" \in PCs \ {"idle"}
      BY DEF PCs
    <2>3. Framed(p) /\ Appends(p, e) /\ Moves(p, At(p, "queue"))
      BY <1>1, <1>2, <1>3, <2>1, <2>2, RecordsOn
    <2> QED BY <1>1, <1>3, <2>3 DEF Followed, e
  <1>4. CASE /\ ~engine[p].draining /\ Work(p).src = "runtime_action" /\ call[p].resuming /\ call[p].sig # NoSignal
             /\ call' = [call EXCEPT ![p] = ToOwnSignal(p)] /\ UNCHANGED results
    <2>1. call'[p].pc = "emit"
      BY <1>4, OwnSignalType, BaseFacts
    <2>2. /\ ToOwnSignal(p) \in Calls /\ ToOwnSignal(p).pc # "idle" /\ ToOwnSignal(p).id = call[p].id
          /\ WorkWithin(ToOwnSignal(p).work, Len(log) + 1) /\ WorkWithin(ToOwnSignal(p).outer, Len(log) + 1)
      <3>1. Len(log) + 1 \in Nat /\ WorkWithin(call[p].outer, Len(log) + 1)
        BY BaseFacts
      <3> QED BY <3>1, OwnSignalType
    <2>3. SignalKnown(p)'
      BY <2>1, NothingKnown
    <2>4. Framed(p) /\ Appends(p, e) /\ Moves(p, ToOwnSignal(p))
      BY <1>1, <1>2, <1>4, <2>2, <2>3, EventMove
    <2> QED BY <1>1, <1>4, <2>4 DEF Followed, e
  <1>5. CASE ~engine[p].draining /\ Return(p, IF Work(p).src = "caller" THEN "refused" ELSE "ok")
    <2> DEFINE r == IF Work(p).src = "caller" THEN "refused" ELSE "ok"
    <2>1. r \in Results /\ Return(p, r)
      BY <1>5 DEF Results
    <2> HIDE DEF r
    <2>2. Framed(p) /\ Appends(p, e) /\ Ends(p, r)
      BY <1>1, <1>2, <2>1, EventEnd
    <2> QED BY <1>1, <1>5, <2>2 DEF Followed, e, r
  <1> QED BY <1>1, <1>3, <1>4, <1>5 DEF NoTransitionGoal

\* The ledger moved while the guard was asked.
LEMMA GuardConflictShape ==
    ASSUME Base, NEW p \in Procs, GuardConflict(p)
    PROVE  /\ call[p].pc = "guard" /\ HasExternal(p) /\ Framed(p) /\ New = {} /\ engine'[p] = Stopped(p) /\ Ends(p, "failed")
           /\ UNCHANGED <<log, snapshot, job>>
  <1>1. call[p].pc = "guard" /\ Len(log) # Work(p).version /\ Throw(p) /\ UNCHANGED <<log, snapshot, job, bounds>>
    BY DEF GuardConflict
  <1>2. HasExternal(p)
    <2>1. engine[p].seen <= Work(p).version /\ Work(p).version <= Len(log) /\ Work(p).version \in Nat
      BY <1>1, BaseFacts DEF Base, SignalKnown, Work, WorkWithin, Works
    <2>2. engine[p].seen \in Nat /\ Len(log) \in Nat
      BY BaseFacts
    <2> QED BY <1>1, <2>1, <2>2 DEF HasExternal
  <1> QED BY <1>1, <1>2, ThrowShape

\* The guard has answered, and only the caller's signal can be refused.
LEMMA GuardReturnsShape ==
    ASSUME Base, NEW p \in Procs, GuardReturns(p)
    PROVE  /\ call[p].pc = "guard" /\ Framed(p) /\ UNCHANGED <<snapshot, job>>
           /\ Appends(p, Event("GUARD_EVALUATED", From(p), Work(p).sig, Work(p).ev, call[p].id))
           /\ \/ Moves(p, At(p, "exit"))
              \/ Work(p).src = "caller" /\ Moves(p, At(p, "refuse"))
  <1> DEFINE e == Event("GUARD_EVALUATED", From(p), Work(p).sig, Work(p).ev, call[p].id)
  <1>1. call[p].pc = "guard" /\ Appended(p, <<e>>) /\ UNCHANGED <<snapshot, job, results, bounds>>
    BY DEF GuardReturns, By
  <1>2. e \in Events /\ e.cause <= Len(log) /\ e.by = call[p].id
    <2>1. /\ From(p) \in States /\ Work(p).sig \in Signals \cup {NoSignal} /\ Work(p).ev \in Nat /\ Work(p).ev <= Len(log)
      BY BaseFacts DEF Works, Work, WorkWithin
    <2>2. "GUARD_EVALUATED" \in EventTypes
      BY DEF EventTypes
    <2> QED BY <2>1, <2>2, OwnEvent
  <1> HIDE DEF e
  <1>3. Accepts(p) /\ Work(p).ev \in DOMAIN log
    BY <1>1 DEF Base, SignalKnown, Processing
  <1>4. ASSUME NEW pc \in {"exit", "refuse"}, call'[p] = At(p, pc), engine'[p].state = engine[p].state,
               DOMAIN log \subseteq DOMAIN log'
        PROVE  SignalKnown(p)'
    <2>1. call'[p].pc = pc /\ call'[p].work = call[p].work
      BY <1>4, AtType DEF PCs
    <2> QED BY <1>3, <1>4, <2>1 DEF SignalKnown, Accepts, Work, From
  <1>5. DOMAIN log \subseteq DOMAIN log'
    <2>1. e.by <= Len(results) /\ Types
      BY <1>2, BaseFacts DEF Base
    <2>2. log' \in Seq(Events) /\ Len(log') = Len(log) + 1
      BY <1>1, <1>2, <2>1, AppendedFacts
    <2> QED BY <2>2, BaseFacts
  <1>6. \/ Goto(p, "exit")
        \/ Work(p).src = "caller" /\ Goto(p, "refuse")
    BY DEF GuardReturns
  <1>7. ASSUME NEW pc \in {"exit", "refuse"}, Goto(p, pc) PROVE Framed(p) /\ Appends(p, e) /\ Moves(p, At(p, pc))
    <2>1. pc \in PCs \ {"idle"}
      BY DEF PCs
    <2>2. (call'[p] = At(p, pc) /\ engine'[p].state = engine[p].state) => SignalKnown(p)'
      BY <1>4, <1>5
    <2> QED BY <1>1, <1>2, <1>7, <2>1, <2>2, RecordsOn
  <1> QED BY <1>1, <1>6, <1>7 DEF e

\* A step that does more to the ledger and to the engine.
LEMMA CustomMove ==
    ASSUME Base, NEW p \in Procs, call[p].pc # "idle",
           log' \in Seq(Events), Extended, \A i \in New : log'[i].cause < i /\ log'[i].by <= Len(results),
           NEW C \in Calls, call' = [call EXCEPT ![p] = C], WorkWithin(C.work, Len(log')), WorkWithin(C.outer, Len(log')),
           NEW E \in Engines, engine' = [engine EXCEPT ![p] = E], E.seen \in DOMAIN log',
           snapshot' \in [seq : Nat, state : States], snapshot'.seq \in DOMAIN log',
           job' \in [state : States, done : BOOLEAN], UNCHANGED <<results, bounds>>,
           C.pc # "idle", C.id = call[p].id, (call'[p] = C /\ engine'[p] = E) => SignalKnown(p)'
    PROVE  Framed(p) /\ Moves(p, C) /\ engine'[p] = E
  <1>1. call' \in [Procs -> Calls] /\ call'[p] = C /\ \A q \in Procs \ {p} : call'[q] = call[q]
    BY CallMoves DEF Base
  <1>2. engine' \in [Procs -> Engines] /\ engine'[p] = E /\ \A q \in Procs \ {p} : engine'[q] = engine[q]
    BY EngineMoves DEF Base
  <1>3. Bystanders(p)
    BY <1>1, <1>2 DEF Bystanders
  <1>4. Types'
    <2>1. /\ results' \in Seq(Results) /\ Len(results') >= Len(results)
          /\ submits' \in 0 .. MaxSubmits /\ foreign' \in 0 .. MaxForeign /\ crashes' \in 0 .. MaxCrashes
      BY BaseFacts DEF bounds
    <2>2. Types
      BY DEF Base
    <2> QED BY <1>1, <1>2, <1>3, <2>1, <2>2, TypesKept
  <1>5. ResultsStand(p)
    BY BaseFacts DEF ResultsStand
  <1>6. SignalKnown(p)'
    BY <1>1, <1>2
  <1>7. /\ call'[p].pc # "idle" /\ call'[p].id \in DOMAIN results' /\ results'[call'[p].id] = "pending"
        /\ call'[p].id \in {call[p].id, Len(results) + 1}
    BY <1>1, BaseFacts
  <1>8. Base'
    BY <1>3, <1>4, <1>5, <1>6, <1>7, BaseKept
  <1> QED BY <1>1, <1>2, <1>3, <1>5, <1>8 DEF Framed, Moves

\* What the hooks of a state leave: their events, and their signals at the end of the queue.
HooksRan(p, t, s, sigs) ==
    /\ New = (Len(log) + 1) .. (Len(log) + Len(sigs))
    /\ \A m \in 1 .. Len(sigs) : log'[Len(log) + m] = Event(t, s, sigs[m], 0, call[p].id)
    /\ engine'[p].queue = engine[p].queue \o sigs
    /\ engine'[p].state = engine[p].state /\ engine'[p].draining = engine[p].draining /\ engine'[p].depth = engine[p].depth

\* The hooks of a state run.
LEMMA RunHooksShape ==
    ASSUME Base, NEW p \in Procs, NEW t \in {"STATE_EXIT_HOOK", "STATE_ENTRY_HOOK"}, NEW s \in States,
           NEW sigs \in Seq(Signals), RunHooks(p, t, s, sigs), NEW pc \in PCs \ {"idle"}, Goto(p, pc), call[p].pc # "idle",
           UNCHANGED <<snapshot, job, results, bounds>>,
           (call'[p] = At(p, pc) /\ engine'[p].state = engine[p].state /\ DOMAIN log \subseteq DOMAIN log') => SignalKnown(p)'
    PROVE  Framed(p) /\ Moves(p, At(p, pc)) /\ HooksRan(p, t, s, sigs)
  <1> DEFINE new == [i \in DOMAIN sigs |-> Event(t, s, sigs[i], 0, call[p].id)]
  <1> DEFINE b == engine[p].stale \/ (sigs # <<>> /\ Len(log) > engine[p].seen)
  <1> DEFINE n == IF sigs = <<>> THEN engine[p].seen ELSE Len(log')
  <1> DEFINE E == [engine[p] EXCEPT !.queue = engine[p].queue \o sigs, !.stale = b, !.seen = n]
  <1>1. ASSUME NEW i \in DOMAIN sigs
        PROVE  /\ Event(t, s, sigs[i], 0, call[p].id) \in Events
               /\ Event(t, s, sigs[i], 0, call[p].id).cause = 0 /\ Event(t, s, sigs[i], 0, call[p].id).by = call[p].id
    <2>1. sigs[i] \in Signals \cup {NoSignal} /\ t \in EventTypes /\ call[p].id \in Nat /\ 0 \in Nat
      BY <1>1, BaseFacts DEF EventTypes
    <2> QED BY <2>1 DEF Event, Events
  <1>2. new \in Seq(Events) /\ Len(new) = Len(sigs) /\ log \in Seq(Events) /\ log' = log \o new
    <2>1. DOMAIN sigs = 1 .. Len(sigs) /\ Len(sigs) \in Nat
      OBVIOUS
    <2>2. new \in [1 .. Len(sigs) -> Events]
      BY <1>1, <2>1
    <2>3. log' = log \o new
      BY DEF RunHooks, By
    <2> QED BY <2>1, <2>2, <2>3 DEF Base, Types
  <1>3. /\ log' \in Seq(Events) /\ Len(log') = Len(log) + Len(sigs) /\ Len(sigs) \in Nat
        /\ \A i \in DOMAIN log : log'[i] = log[i]
        /\ \A m \in 1 .. Len(sigs) : log'[Len(log) + m] = new[m]
    <2> HIDE DEF new
    <2>1. Len(sigs) \in Nat /\ Len(log) \in Nat /\ DOMAIN log = 1 .. Len(log)
      BY BaseFacts
    <2>2. log' \in Seq(Events) /\ Len(log') = Len(log) + Len(sigs)
      <3>1. log \o new \in Seq(Events) /\ Len(log \o new) = Len(log) + Len(new)
        BY <1>2, ConcatProperties
      <3> QED BY <1>2, <3>1
    <2>3. ASSUME NEW i \in 1 .. (Len(log) + Len(sigs))
          PROVE  log'[i] = IF i <= Len(log) THEN log[i] ELSE new[i - Len(log)]
      BY <1>2, <2>1, ConcatProperties
    <2>4. \A i \in DOMAIN log : log'[i] = log[i]
      BY <2>1, <2>3
    <2>5. ASSUME NEW m \in 1 .. Len(sigs) PROVE log'[Len(log) + m] = new[m]
      <3>1. Len(log) + m \in 1 .. (Len(log) + Len(sigs)) /\ ~(Len(log) + m <= Len(log)) /\ (Len(log) + m) - Len(log) = m
        BY <2>1
      <3> QED BY <2>3, <3>1
    <2> QED BY <2>1, <2>2, <2>4, <2>5
  <1>4. Extended /\ New = (Len(log) + 1) .. (Len(log) + Len(sigs)) /\ DOMAIN log' = 1 .. Len(log')
    <2> HIDE DEF new
    <2>1. Len(log) \in Nat
      BY BaseFacts
    <2> QED BY <1>3, <2>1 DEF Extended, New
  <1>5. \A m \in 1 .. Len(sigs) : log'[Len(log) + m] = Event(t, s, sigs[m], 0, call[p].id)
    <2>1. ASSUME NEW m \in 1 .. Len(sigs) PROVE new[m] = Event(t, s, sigs[m], 0, call[p].id)
      <3>1. m \in DOMAIN sigs
        OBVIOUS
      <3> QED BY <3>1
    <2> HIDE DEF new
    <2> QED BY <1>3, <2>1
  <1>6. \A i \in New : log'[i].cause < i /\ log'[i].by <= Len(results)
    <2>1. ASSUME NEW i \in New PROVE log'[i].cause < i /\ log'[i].by <= Len(results)
      <3>1. PICK m \in 1 .. Len(sigs) : i = Len(log) + m
        <4>1. i - Len(log) \in 1 .. Len(sigs) /\ i = Len(log) + (i - Len(log))
          BY <1>3, <1>4, <2>1, BaseFacts
        <4> QED BY <4>1
      <3>2. log'[i].cause = 0 /\ log'[i].by = call[p].id
        BY <1>1, <1>5, <3>1
      <3>3. 0 < i /\ call[p].id <= Len(results)
        BY <3>1, BaseFacts
      <3> QED BY <3>2, <3>3
    <2> QED BY <2>1
  <1>7. /\ E \in Engines /\ E.seen \in DOMAIN log' /\ E.queue = engine[p].queue \o sigs /\ E.state = engine[p].state
        /\ E.draining = engine[p].draining /\ E.depth = engine[p].depth
    <2>1. b \in BOOLEAN /\ n \in DOMAIN log' /\ n \in Nat
      <3>1. n \in DOMAIN log'
        <4>1. Len(log') \in Nat /\ Len(log') >= Len(log) /\ engine[p].seen \in 1 .. Len(log) /\ Len(log) \in Nat
          BY <1>3, BaseFacts
        <4> QED BY <1>4, <4>1
      <3> QED BY <1>4, <3>1
    <2>2. engine[p].queue \o sigs \in Seq(Signals)
      BY BaseFacts DEF Engines
    <2>3. engine[p] \in Engines
      BY BaseFacts
    <2> HIDE DEF b, n
    <2> QED BY <2>1, <2>2, <2>3 DEF Engines
  <1>8. engine' = [engine EXCEPT ![p] = E]
    BY BaseFacts DEF RunHooks, Queued
  <1>9. call' = [call EXCEPT ![p] = At(p, pc)]
    BY GotoFacts
  <1>10. /\ At(p, pc) \in Calls /\ At(p, pc).pc # "idle" /\ At(p, pc).id = call[p].id
         /\ WorkWithin(At(p, pc).work, Len(log')) /\ WorkWithin(At(p, pc).outer, Len(log'))
    <2>1. Len(log') \in Nat /\ Len(log) <= Len(log') /\ Len(log) \in Nat
      BY <1>3, <1>4, BaseFacts DEF Extended
    <2>2. WorkWithin(call[p].work, Len(log')) /\ WorkWithin(call[p].outer, Len(log'))
      BY <2>1, BaseFacts, WithinMore
    <2> QED BY <2>2, AtType
  <1>11. DOMAIN log \subseteq DOMAIN log' /\ snapshot' \in [seq : Nat, state : States] /\ snapshot'.seq \in DOMAIN log'
         /\ job' \in [state : States, done : BOOLEAN]
    <2>1. DOMAIN log \subseteq DOMAIN log'
      BY <1>3, <1>4, BaseFacts
    <2> QED BY <2>1, BaseFacts
  <1> HIDE DEF E, new, b, n
  <1>12. (call'[p] = At(p, pc) /\ engine'[p] = E) => SignalKnown(p)'
    BY <1>7, <1>11
  <1>13. UNCHANGED <<results, bounds>>
    OBVIOUS
  <1>14. job' \in [state : States, done : BOOLEAN] /\ snapshot' \in [seq : Nat, state : States] /\ snapshot'.seq \in DOMAIN log'
    BY <1>11
  <1>15. log' \in Seq(Events) /\ Extended
    BY <1>3, <1>4
  <1>16. E \in Engines /\ E.seen \in DOMAIN log' /\ At(p, pc) \in Calls
    BY <1>7, <1>10
  <1>17. Framed(p) /\ Moves(p, At(p, pc)) /\ engine'[p] = E
    BY <1>6, <1>8, <1>9, <1>10, <1>12, <1>13, <1>14, <1>15, <1>16, CustomMove
  <1> QED BY <1>4, <1>5, <1>7, <1>17 DEF HooksRan

\* The signals of the hooks between two states.
LEMMA HooksBetweenType ==
    ASSUME NEW s \in States, NEW t \in States, NEW sigs \in Seq(Signals)
    PROVE  HooksBetween(s, t, sigs) \in Seq(Signals) /\ Len(HooksBetween(s, t, sigs)) <= Len(sigs)
  <1>1. <<>> \in Seq(Signals) /\ Len(<<>>) = 0 /\ Len(sigs) \in Nat
    OBVIOUS
  <1> QED BY <1>1 DEF HooksBetween

\* A transition leads to a state.
LEMMA TargetType ==
    ASSUME Base, NEW p \in Procs, Accepts(p)
    PROVE  To(p) \in States
  <1>1. From(p) \in States
    BY BaseFacts
  <1> QED BY <1>1, ConstantFacts DEF Accepts, To

\* The signals of the hooks between the state left and the state entered.
ExitHooks(p) == HooksBetween(From(p), To(p), OnExit[From(p)])
EntryHooks(p) == HooksBetween(log[Work(p).ev].state, From(p), OnEnter[From(p)])

\* The state is left.
LEMMA ExitShape ==
    ASSUME Base, NEW p \in Procs, Exit(p)
    PROVE  /\ call[p].pc = "exit" /\ Framed(p) /\ Moves(p, At(p, "transit")) /\ UNCHANGED <<snapshot, job>>
           /\ ExitHooks(p) \in Seq(Signals) /\ Len(ExitHooks(p)) <= Len(OnExit[From(p)])
           /\ HooksRan(p, "STATE_EXIT_HOOK", From(p), ExitHooks(p))
  <1>1. /\ call[p].pc = "exit" /\ RunHooks(p, "STATE_EXIT_HOOK", From(p), ExitHooks(p)) /\ Goto(p, "transit")
        /\ UNCHANGED <<snapshot, job, results, bounds>>
    BY DEF Exit, ExitHooks
  <1>2. Accepts(p) /\ Work(p).ev \in DOMAIN log
    BY <1>1 DEF Base, SignalKnown, Processing
  <1>3. From(p) \in States /\ To(p) \in States /\ OnExit[From(p)] \in Seq(Signals)
    BY <1>2, TargetType, BaseFacts, ConstantFacts
  <1>4. ExitHooks(p) \in Seq(Signals) /\ Len(ExitHooks(p)) <= Len(OnExit[From(p)])
    BY <1>3, HooksBetweenType DEF ExitHooks
  <1>5. ASSUME call'[p] = At(p, "transit"), engine'[p].state = engine[p].state, DOMAIN log \subseteq DOMAIN log'
        PROVE  SignalKnown(p)'
    <2>1. call'[p].pc = "transit" /\ call'[p].work = call[p].work
      BY <1>5, AtType DEF PCs
    <2> QED BY <1>2, <1>5, <2>1 DEF SignalKnown, Accepts, Work, From
  <1>6. "transit" \in PCs \ {"idle"}
    BY DEF PCs
  <1>7. Framed(p) /\ Moves(p, At(p, "transit")) /\ HooksRan(p, "STATE_EXIT_HOOK", From(p), ExitHooks(p))
    BY <1>1, <1>3, <1>4, <1>5, <1>6, RunHooksShape
  <1> QED BY <1>1, <1>4, <1>7

\* The state is entered.
LEMMA EnterShape ==
    ASSUME Base, NEW p \in Procs, Enter(p)
    PROVE  /\ call[p].pc = "enter" /\ Framed(p) /\ Moves(p, At(p, "snapshot")) /\ UNCHANGED <<snapshot, job>>
           /\ EntryHooks(p) \in Seq(Signals) /\ Len(EntryHooks(p)) <= Len(OnEnter[From(p)])
           /\ HooksRan(p, "STATE_ENTRY_HOOK", From(p), EntryHooks(p))
  <1>1. /\ call[p].pc = "enter" /\ RunHooks(p, "STATE_ENTRY_HOOK", From(p), EntryHooks(p)) /\ Goto(p, "snapshot")
        /\ UNCHANGED <<snapshot, job, results, bounds>>
    BY DEF Enter, EntryHooks, From
  <1>2. Work(p).ev \in DOMAIN log
    BY <1>1 DEF Base, SignalKnown, Processing
  <1>3. From(p) \in States /\ log[Work(p).ev].state \in States /\ OnEnter[From(p)] \in Seq(Signals)
    <2>1. log[Work(p).ev] \in Events
      BY <1>2 DEF Base, Types
    <2> QED BY <2>1, BaseFacts, ConstantFacts DEF Events
  <1>4. EntryHooks(p) \in Seq(Signals) /\ Len(EntryHooks(p)) <= Len(OnEnter[From(p)])
    BY <1>3, HooksBetweenType DEF EntryHooks
  <1>5. ASSUME call'[p] = At(p, "snapshot"), DOMAIN log \subseteq DOMAIN log' PROVE SignalKnown(p)'
    <2>1. call'[p].pc = "snapshot" /\ call'[p].work = call[p].work
      BY <1>5, AtType DEF PCs
    <2> QED BY <1>2, <1>5, <2>1 DEF SignalKnown, Work
  <1>6. "snapshot" \in PCs \ {"idle"}
    BY DEF PCs
  <1>7. Framed(p) /\ Moves(p, At(p, "snapshot")) /\ HooksRan(p, "STATE_ENTRY_HOOK", From(p), EntryHooks(p))
    BY <1>1, <1>3, <1>4, <1>5, <1>6, RunHooksShape
  <1> QED BY <1>1, <1>4, <1>7

\* The run moves.
LEMMA TransitShape ==
    ASSUME Base, NEW p \in Procs, Transit(p)
    PROVE  /\ call[p].pc = "transit" /\ Framed(p) /\ Moves(p, At(p, "enter")) /\ UNCHANGED <<snapshot, job>>
           /\ New = {Len(log) + 1} /\ log'[Len(log) + 1] = Event("STATE_TRANSITION", To(p), Work(p).sig, Work(p).ev, call[p].id)
           /\ engine'[p] = [engine[p] EXCEPT !.state = To(p), !.stale = @ \/ Len(log) > engine[p].seen, !.seen = Len(log) + 1]
           /\ To(p) \in States
  <1> DEFINE e == Event("STATE_TRANSITION", To(p), Work(p).sig, Work(p).ev, call[p].id)
  <1> DEFINE b == engine[p].stale \/ Len(log) > engine[p].seen
  <1> DEFINE E == [engine[p] EXCEPT !.state = To(p), !.stale = b, !.seen = Len(log) + 1]
  <1>1. /\ call[p].pc = "transit" /\ log' = Append(log, e) /\ Goto(p, "enter")
        /\ UNCHANGED <<snapshot, job, results, bounds>>
    BY DEF Transit, By
  <1>2. Accepts(p) /\ Work(p).ev \in DOMAIN log
    BY <1>1 DEF Base, SignalKnown, Processing
  <1>3. To(p) \in States
    BY <1>2, TargetType
  <1>4. e \in Events /\ e.cause <= Len(log) /\ e.by = call[p].id
    <2>1. /\ To(p) \in States /\ Work(p).sig \in Signals \cup {NoSignal} /\ Work(p).ev \in Nat /\ Work(p).ev <= Len(log)
      BY <1>3, BaseFacts DEF Works, Work, WorkWithin
    <2>2. "STATE_TRANSITION" \in EventTypes
      BY DEF EventTypes
    <2> QED BY <2>1, <2>2, OwnEvent
  <1> HIDE DEF e
  <1>5. /\ log' \in Seq(Events) /\ Len(log') = Len(log) + 1 /\ log'[Len(log) + 1] = e /\ Len(log) \in Nat
        /\ \A i \in DOMAIN log : log'[i] = log[i]
    <2>1. log \in Seq(Events)
      BY DEF Base, Types
    <2> QED BY <1>1, <1>4, <2>1
  <1>6. Extended /\ New = {Len(log) + 1} /\ DOMAIN log' = 1 .. (Len(log) + 1) /\ DOMAIN log \subseteq DOMAIN log'
    BY <1>5, BaseFacts DEF Extended, New
  <1>7. E \in Engines /\ E.seen \in DOMAIN log'
    <2>1. b \in BOOLEAN /\ Len(log) + 1 \in Nat /\ Len(log) + 1 \in DOMAIN log' /\ engine[p] \in Engines
      BY <1>6, BaseFacts
    <2> HIDE DEF b
    <2> QED BY <1>3, <2>1 DEF Engines
  <1>8. engine' = [engine EXCEPT ![p] = E]
    BY <1>5, BaseFacts DEF Transit
  <1>9. call' = [call EXCEPT ![p] = At(p, "enter")] /\ "enter" \in PCs
    BY <1>1, GotoFacts DEF PCs
  <1>10. /\ At(p, "enter") \in Calls /\ At(p, "enter").pc = "enter" /\ At(p, "enter").id = call[p].id
         /\ At(p, "enter").work = call[p].work
         /\ WorkWithin(At(p, "enter").work, Len(log')) /\ WorkWithin(At(p, "enter").outer, Len(log'))
    BY <1>5, <1>9, AtType, BaseFacts
  <1>11. ASSUME call'[p] = At(p, "enter") PROVE SignalKnown(p)'
    <2>1. call'[p].pc = "enter" /\ call'[p].work = call[p].work
      BY <1>10, <1>11
    <2> QED BY <1>2, <1>6, <2>1 DEF SignalKnown, Work
  <1>12. /\ \A i \in New : log'[i].cause < i /\ log'[i].by <= Len(results)
         /\ snapshot' \in [seq : Nat, state : States] /\ snapshot'.seq \in DOMAIN log'
         /\ job' \in [state : States, done : BOOLEAN]
    <2>1. e.cause \in Nat /\ e.by <= Len(results)
      BY <1>4, BaseFacts DEF Events
    <2> QED BY <1>1, <1>4, <1>5, <1>6, <2>1, BaseFacts
  <1> HIDE DEF E, b
  <1>13. Framed(p) /\ Moves(p, At(p, "enter")) /\ engine'[p] = E
    <2>1. /\ (call'[p] = At(p, "enter") /\ engine'[p] = E) => SignalKnown(p)'
          /\ UNCHANGED <<results, bounds>> /\ call[p].pc # "idle" /\ At(p, "enter").pc # "idle"
      BY <1>1, <1>10, <1>11
    <2>2. log' \in Seq(Events) /\ Extended
      BY <1>5, <1>6
    <2>3. E \in Engines /\ At(p, "enter") \in Calls
      BY <1>7, <1>10
    <2> QED BY <1>7, <1>8, <1>9, <1>10, <1>12, <2>1, <2>2, <2>3, CustomMove
  <1> QED BY <1>1, <1>3, <1>5, <1>6, <1>13 DEF E, e, b

\* The snapshot is of the ledger as it is.
LEMMA SaveSnapshotShape ==
    ASSUME Base, NEW p \in Procs, SaveSnapshot(p)
    PROVE  /\ call[p].pc = "snapshot" /\ Framed(p) /\ Still(p) /\ Moves(p, At(p, "completed")) /\ UNCHANGED <<log, job, engine>>
           /\ snapshot' = [seq |-> Len(log), state |-> From(p)]
  <1>1. /\ call[p].pc = "snapshot" /\ Goto(p, "completed") /\ snapshot' = [seq |-> Len(log), state |-> From(p)]
        /\ UNCHANGED <<log, job, engine, results, bounds>>
    BY DEF SaveSnapshot
  <1>2. call' = [call EXCEPT ![p] = At(p, "completed")] /\ "completed" \in PCs
    BY <1>1, GotoFacts DEF PCs
  <1>3. /\ At(p, "completed") \in Calls /\ At(p, "completed").pc = "completed" /\ At(p, "completed").id = call[p].id
        /\ At(p, "completed").work = call[p].work
        /\ WorkWithin(At(p, "completed").work, Len(log')) /\ WorkWithin(At(p, "completed").outer, Len(log'))
    BY <1>1, <1>2, AtType, BaseFacts
  <1>4. ASSUME call'[p] = At(p, "completed") PROVE SignalKnown(p)'
    <2>1. Work(p).ev \in DOMAIN log
      BY <1>1 DEF Base, SignalKnown, Processing
    <2> QED BY <1>1, <1>3, <1>4, <2>1 DEF SignalKnown, Work
  <1>5. engine' = [engine EXCEPT ![p] = engine[p]] /\ engine[p] \in Engines /\ engine[p].seen \in DOMAIN log'
    BY <1>1, BaseFacts
  <1>6. log' \in Seq(Events) /\ Extended /\ New = {}
    BY <1>1 DEF Base, Types, Extended, New
  <1>7. /\ snapshot' \in [seq : Nat, state : States] /\ snapshot'.seq \in DOMAIN log'
        /\ job' \in [state : States, done : BOOLEAN]
    BY <1>1, BaseFacts DEF Base, Types
  <1>8. Framed(p) /\ Moves(p, At(p, "completed")) /\ engine'[p] = engine[p]
    BY <1>1, <1>2, <1>3, <1>4, <1>5, <1>6, <1>7, CustomMove
  <1> QED BY <1>1, <1>6, <1>8 DEF Still

\* The transition is complete; the outermost one drains the queue.
LEMMA CompletesShape ==
    ASSUME Base, NEW p \in Procs, Completes(p)
    PROVE  /\ call[p].pc = "completed" /\ Framed(p) /\ UNCHANGED <<snapshot, job>>
           /\ Appends(p, Event("TRANSITION_COMPLETED", From(p), Work(p).sig, Work(p).ev, call[p].id))
           /\ \/ engine[p].draining /\ Moves(p, At(p, "job"))
              \/ ~engine[p].draining /\ Moves(p, [call[p] EXCEPT !.pc = "queue", !.outer = Work(p)])
  <1> DEFINE e == Event("TRANSITION_COMPLETED", From(p), Work(p).sig, Work(p).ev, call[p].id)
  <1> DEFINE C == [call[p] EXCEPT !.pc = "queue", !.outer = Work(p)]
  <1>1. call[p].pc = "completed" /\ UNCHANGED <<snapshot, job, results, bounds>> /\ Appended(p, <<e>>)
    BY DEF Completes, By
  <1>2. e \in Events /\ e.cause <= Len(log) /\ e.by = call[p].id
    <2>1. /\ From(p) \in States /\ Work(p).sig \in Signals \cup {NoSignal} /\ Work(p).ev \in Nat /\ Work(p).ev <= Len(log)
      BY BaseFacts DEF Works, Work, WorkWithin
    <2>2. "TRANSITION_COMPLETED" \in EventTypes
      BY DEF EventTypes
    <2> QED BY <2>1, <2>2, OwnEvent
  <1> HIDE DEF e
  <1>3. call[p] \in Calls /\ Work(p) \in Works /\ call \in [Procs -> Calls]
    BY BaseFacts DEF Work
  <1>4. CASE engine[p].draining
    <2>1. call' = [call EXCEPT ![p] = At(p, "job")]
      BY <1>3, <1>4 DEF Completes, At
    <2>2. /\ At(p, "job") \in Calls /\ At(p, "job").pc = "job" /\ At(p, "job").id = call[p].id
          /\ WorkWithin(At(p, "job").work, Len(log) + 1) /\ WorkWithin(At(p, "job").outer, Len(log) + 1)
      BY AtType, BaseFacts DEF PCs
    <2>3. call'[p] = At(p, "job") => SignalKnown(p)'
      BY <2>2 DEF SignalKnown, Processing
    <2>4. Framed(p) /\ Appends(p, e) /\ Moves(p, At(p, "job"))
      BY <1>1, <1>2, <2>1, <2>2, <2>3, EventMove
    <2> QED BY <1>1, <1>4, <2>4 DEF e
  <1>5. CASE ~engine[p].draining
    <2>1. call' = [call EXCEPT ![p] = C]
      BY <1>3, <1>5 DEF Completes
    <2>2. C \in Calls /\ C.pc = "queue" /\ C.id = call[p].id /\ C.work = call[p].work /\ C.outer = Work(p)
      BY <1>3 DEF Calls, PCs
    <2> HIDE DEF C
    <2>3. WorkWithin(C.work, Len(log) + 1) /\ WorkWithin(C.outer, Len(log) + 1)
      BY <2>2, BaseFacts DEF Work
    <2>4. call'[p] = C => SignalKnown(p)'
      BY <2>2, NothingKnown
    <2>5. Framed(p) /\ Appends(p, e) /\ Moves(p, C)
      BY <1>1, <1>2, <2>1, <2>2, <2>3, <2>4, EventMove
    <2> QED BY <1>1, <1>5, <2>5 DEF e, C
  <1> QED BY <1>4, <1>5

\* A hook signal leaves the queue.
ToHook(p) == [call[p] EXCEPT !.pc = "emit", !.work = [NoWork EXCEPT !.sig = Head(engine[p].queue), !.src = "hook"]]
Taking(p) == [engine[p] EXCEPT !.queue = Tail(@), !.draining = TRUE, !.depth = @ + 1]

\* The fields of a call that takes a signal from the queue.
LEMMA HookType ==
    ASSUME Base, NEW p \in Procs, engine[p].queue # <<>>
    PROVE  /\ ToHook(p) \in Calls /\ ToHook(p).pc = "emit" /\ ToHook(p).id = call[p].id /\ ToHook(p).outer = call[p].outer
           /\ ToHook(p).sig = call[p].sig /\ ToHook(p).resuming = call[p].resuming
           /\ ToHook(p).work \in Works /\ ToHook(p).work.src = "hook" /\ ToHook(p).work.sig = Head(engine[p].queue)
           /\ ToHook(p).work.sig \in Signals /\ \A n \in Nat : WorkWithin(ToHook(p).work, n)
  <1> DEFINE w == [NoWork EXCEPT !.sig = Head(engine[p].queue), !.src = "hook"]
  <1>1. engine[p].queue \in Seq(Signals) /\ Head(engine[p].queue) \in Signals
    BY BaseFacts DEF Engines
  <1>2. w \in Works /\ w.src = "hook" /\ w.sig = Head(engine[p].queue) /\ \A n \in Nat : WorkWithin(w, n)
    <2>1. NoWork \in Works /\ NoWork.cause = 0 /\ NoWork.ev = 0 /\ NoWork.version = 0
      BY NoCallType DEF NoWork
    <2> DEFINE g == Head(engine[p].queue)
    <2>2. g \in Signals
      BY <1>1
    <2> HIDE DEF g
    <2>3. w \in Works /\ w.src = "hook" /\ w.sig = g /\ w.cause = 0 /\ w.ev = 0 /\ w.version = 0
      BY <2>1, <2>2 DEF Works, Sources, g
    <2> QED BY <2>3 DEF WorkWithin, g
  <1> HIDE DEF w
  <1>3. call[p] \in Calls /\ ToHook(p) = [call[p] EXCEPT !.pc = "emit", !.work = w]
    BY BaseFacts DEF ToHook, w
  <1> QED BY <1>1, <1>2, <1>3 DEF Calls, PCs

\* The fields of its engine.
LEMMA TakingType ==
    ASSUME Base, NEW p \in Procs, engine[p].queue # <<>>
    PROVE  /\ Taking(p) \in Engines /\ Taking(p).queue = Tail(engine[p].queue) /\ Taking(p).draining
           /\ Taking(p).depth = engine[p].depth + 1 /\ Taking(p).seen = engine[p].seen
           /\ Taking(p).state = engine[p].state /\ Taking(p).stale = engine[p].stale
  <1>1. engine[p] \in Engines /\ engine[p].queue \in Seq(Signals) /\ engine[p].depth \in Nat
    BY BaseFacts DEF Engines
  <1>2. Tail(engine[p].queue) \in Seq(Signals) /\ engine[p].depth + 1 \in Nat
    BY <1>1
  <1> QED BY <1>1, <1>2 DEF Taking, Engines

\* The next signal is taken from the queue.
LEMMA DrainNextShape ==
    ASSUME Base, NEW p \in Procs, DrainNext(p)
    PROVE  /\ call[p].pc = "queue" /\ engine[p].queue # <<>> /\ ~AtLimit(p) /\ Framed(p) /\ New = {}
           /\ engine'[p] = Taking(p) /\ Moves(p, ToHook(p)) /\ UNCHANGED <<log, snapshot, job>>
  <1>1. /\ call[p].pc = "queue" /\ engine[p].queue # <<>> /\ ~AtLimit(p)
        /\ UNCHANGED <<log, snapshot, job, results, bounds>>
    BY DEF DrainNext
  <1>2. engine' = [engine EXCEPT ![p] = Taking(p)] /\ call' = [call EXCEPT ![p] = ToHook(p)]
    BY BaseFacts DEF DrainNext, Taking, ToHook
  <1>3. Taking(p) \in Engines /\ Taking(p).seen \in DOMAIN log' /\ ToHook(p) \in Calls
    BY <1>1, HookType, TakingType, BaseFacts
  <1>4. WorkWithin(ToHook(p).work, Len(log')) /\ WorkWithin(ToHook(p).outer, Len(log')) /\ ToHook(p).pc # "idle"
        /\ ToHook(p).id = call[p].id
    BY <1>1, HookType, BaseFacts
  <1>5. (call'[p] = ToHook(p) /\ engine'[p] = Taking(p)) => SignalKnown(p)'
    BY <1>1, HookType, NothingKnown
  <1>6. log' \in Seq(Events) /\ Extended /\ New = {}
    BY <1>1 DEF Base, Types, Extended, New
  <1>7. /\ snapshot' \in [seq : Nat, state : States] /\ snapshot'.seq \in DOMAIN log'
        /\ job' \in [state : States, done : BOOLEAN] /\ UNCHANGED <<results, bounds>> /\ call[p].pc # "idle"
    BY <1>1, BaseFacts
  <1>8. Framed(p) /\ Moves(p, ToHook(p)) /\ engine'[p] = Taking(p)
    BY <1>2, <1>3, <1>4, <1>5, <1>6, <1>7, CustomMove
  <1> QED BY <1>1, <1>6, <1>8

\* The drain is over and the caller gets an error.
CutShort(p) ==
    [engine[p] EXCEPT !.queue = <<>>, !.draining = FALSE, !.depth = 0,
                      !.stale = @ \/ Len(log) > engine[p].seen, !.seen = Len(log) + 1]

\* The fields of an engine whose drain is cut.
LEMMA CutShortType ==
    ASSUME Base, NEW p \in Procs
    PROVE  /\ CutShort(p) \in Engines /\ CutShort(p).queue = <<>> /\ ~CutShort(p).draining /\ CutShort(p).depth = 0
           /\ CutShort(p).seen = Len(log) + 1 /\ CutShort(p).state = engine[p].state
           /\ CutShort(p).stale <=> (engine[p].stale \/ Len(log) > engine[p].seen)
  <1> DEFINE b == engine[p].stale \/ Len(log) > engine[p].seen
  <1>1. engine[p] \in Engines /\ Len(log) + 1 \in Nat /\ <<>> \in Seq(Signals) /\ b \in BOOLEAN
    BY BaseFacts
  <1>2. CutShort(p) = [engine[p] EXCEPT !.queue = <<>>, !.draining = FALSE, !.depth = 0, !.stale = b, !.seen = Len(log) + 1]
    BY DEF CutShort
  <1>3. CutShort(p) \in Engines /\ CutShort(p).queue = <<>> /\ ~CutShort(p).draining /\ CutShort(p).depth = 0
        /\ CutShort(p).seen = Len(log) + 1 /\ CutShort(p).state = engine[p].state
    <2> DEFINE n == Len(log) + 1
    <2> DEFINE empty == <<>>
    <2>1. n \in Nat /\ empty \in Seq(Signals) /\ 0 \in Nat /\ FALSE \in BOOLEAN
      BY <1>1
    <2>2. CutShort(p) = [engine[p] EXCEPT !.queue = empty, !.draining = FALSE, !.depth = 0, !.stale = b, !.seen = n]
      BY <1>2
    <2> HIDE DEF b, n, empty
    <2>3. CutShort(p) \in Engines
      BY <1>1, <2>1, <2>2 DEF Engines
    <2>4. CutShort(p).queue = empty /\ ~CutShort(p).draining /\ CutShort(p).depth = 0 /\ CutShort(p).seen = n
          /\ CutShort(p).state = engine[p].state
      BY <1>1, <2>1, <2>2 DEF Engines
    <2> QED BY <2>3, <2>4 DEF n, empty
  <1>4. CutShort(p).stale <=> b
    BY <1>1, <1>2 DEF Engines
  <1> QED BY <1>3, <1>4

\* The drain is cut at its limit.
LEMMA CycleDetectedShape ==
    ASSUME Base, NEW p \in Procs, CycleDetected(p)
    PROVE  /\ call[p].pc = "queue" /\ Framed(p) /\ UNCHANGED <<snapshot, job>>
           /\ New = {Len(log) + 1}
           /\ log'[Len(log) + 1] = Event("SIGNAL_QUEUE_CYCLE_DETECTED", From(p), NoSignal, 0, call[p].id)
           /\ engine'[p] = CutShort(p) /\ Ends(p, "failed")
  <1> DEFINE e == Event("SIGNAL_QUEUE_CYCLE_DETECTED", From(p), NoSignal, 0, call[p].id)
  <1>1. /\ call[p].pc = "queue" /\ log' = Append(log, e) /\ Return(p, "failed") /\ UNCHANGED <<snapshot, job, bounds>>
    BY DEF CycleDetected, By
  <1>2. e \in Events /\ e.cause = 0 /\ e.by = call[p].id
    <2>1. "SIGNAL_QUEUE_CYCLE_DETECTED" \in EventTypes /\ From(p) \in States /\ 0 \in Nat /\ call[p].id \in Nat
      BY BaseFacts DEF EventTypes
    <2> QED BY <2>1 DEF Event, Events
  <1> HIDE DEF e
  <1>3. /\ log' \in Seq(Events) /\ Len(log') = Len(log) + 1 /\ log'[Len(log) + 1] = e /\ Len(log) \in Nat
        /\ \A i \in DOMAIN log : log'[i] = log[i]
    <2>1. log \in Seq(Events)
      BY DEF Base, Types
    <2> QED BY <1>1, <1>2, <2>1
  <1>4. Extended /\ New = {Len(log) + 1} /\ DOMAIN log' = 1 .. (Len(log) + 1)
    BY <1>3, BaseFacts DEF Extended, New
  <1>5. engine' = [engine EXCEPT ![p] = CutShort(p)]
    BY <1>3, BaseFacts DEF CycleDetected, CutShort
  <1>6. CutShort(p) \in Engines /\ CutShort(p).seen \in DOMAIN log'
    BY <1>4, CutShortType, BaseFacts
  <1>7. call' = [call EXCEPT ![p] = NoCall] /\ results' = [results EXCEPT ![By(p)] = "failed"] /\ "failed" \in Results
    BY <1>1 DEF Return, Results
  <1>8. results' \in Seq(Results) /\ Len(results') = Len(results) /\ ResultsStand(p)
    BY <1>1, <1>7, ResultRecorded
  <1>9. call' \in [Procs -> Calls] /\ call'[p] = NoCall /\ \A q \in Procs \ {p} : call'[q] = call[q]
    BY <1>7, CallMoves, NoCallType DEF Base
  <1>10. engine' \in [Procs -> Engines] /\ engine'[p] = CutShort(p) /\ \A q \in Procs \ {p} : engine'[q] = engine[q]
    BY <1>5, <1>6, EngineMoves DEF Base
  <1>11. Bystanders(p)
    BY <1>9, <1>10 DEF Bystanders
  <1>12. Types'
    <2>1. /\ Len(results') >= Len(results) /\ snapshot' \in [seq : Nat, state : States] /\ snapshot'.seq \in DOMAIN log'
          /\ job' \in [state : States, done : BOOLEAN]
          /\ submits' \in 0 .. MaxSubmits /\ foreign' \in 0 .. MaxForeign /\ crashes' \in 0 .. MaxCrashes
      BY <1>1, <1>4, <1>8, BaseFacts DEF bounds
    <2>2. \A i \in New : log'[i].cause < i /\ log'[i].by <= Len(results)
      BY <1>2, <1>3, <1>4, BaseFacts
    <2>3. WorkWithin(NoCall.work, Len(log')) /\ WorkWithin(NoCall.outer, Len(log'))
      <3>1. Len(log') \in Nat
        BY <1>3
      <3> QED BY <3>1, NoCallType
    <2>4. Types
      BY DEF Base
    <2>5. engine'[p].seen \in DOMAIN log' /\ WorkWithin(call'[p].work, Len(log')) /\ WorkWithin(call'[p].outer, Len(log'))
      BY <1>6, <1>9, <1>10, <2>3
    <2> QED BY <1>3, <1>4, <1>8, <1>9, <1>10, <1>11, <2>1, <2>2, <2>4, <2>5, TypesKept
  <1>13. SignalKnown(p)' /\ call'[p].pc = "idle" /\ call'[p].id = 0
    BY <1>9, IdleKnown
  <1>14. Base'
    BY <1>4, <1>8, <1>11, <1>12, <1>13, BaseKept
  <1>15. Framed(p) /\ Ends(p, "failed")
    BY <1>4, <1>7, <1>8, <1>9, <1>11, <1>14 DEF Framed, Ends, By
  <1> QED BY <1>1, <1>3, <1>4, <1>10, <1>15 DEF e

\* The queue is served: back to the signal that started the drain.
ToJob(p) == [call[p] EXCEPT !.pc = "job", !.work = call[p].outer]

\* The queue is served.
LEMMA QueueEmptyShape ==
    ASSUME Base, NEW p \in Procs, QueueEmpty(p)
    PROVE  /\ call[p].pc = "queue" /\ engine[p].queue = <<>> /\ Framed(p) /\ New = {}
           /\ engine'[p] = Stopped(p) /\ Moves(p, ToJob(p)) /\ UNCHANGED <<log, snapshot, job>>
  <1>1. call[p].pc = "queue" /\ engine[p].queue = <<>> /\ UNCHANGED <<log, snapshot, job, results, bounds>>
    BY DEF QueueEmpty
  <1>2. engine' = [engine EXCEPT ![p] = Stopped(p)] /\ call' = [call EXCEPT ![p] = ToJob(p)]
    BY BaseFacts DEF QueueEmpty, Stopped, ToJob
  <1>3. /\ ToJob(p) \in Calls /\ ToJob(p).pc = "job" /\ ToJob(p).id = call[p].id
        /\ ToJob(p).work = call[p].outer /\ ToJob(p).outer = call[p].outer
    BY BaseFacts DEF ToJob, Calls, PCs
  <1>4. Stopped(p) \in Engines /\ Stopped(p).seen \in DOMAIN log'
    BY <1>1, StoppedType, BaseFacts
  <1>5. WorkWithin(ToJob(p).work, Len(log')) /\ WorkWithin(ToJob(p).outer, Len(log'))
    BY <1>1, <1>3, BaseFacts
  <1>6. (call'[p] = ToJob(p) /\ engine'[p] = Stopped(p)) => SignalKnown(p)'
    BY <1>3 DEF SignalKnown, Processing
  <1>7. log' \in Seq(Events) /\ Extended /\ New = {}
    BY <1>1 DEF Base, Types, Extended, New
  <1>8. /\ snapshot' \in [seq : Nat, state : States] /\ snapshot'.seq \in DOMAIN log'
        /\ job' \in [state : States, done : BOOLEAN] /\ UNCHANGED <<results, bounds>> /\ call[p].pc # "idle"
    BY <1>1, BaseFacts
  <1>9. Framed(p) /\ Moves(p, ToJob(p)) /\ engine'[p] = Stopped(p)
    <2>1. ToJob(p).pc # "idle" /\ ToJob(p).id = call[p].id /\ ToJob(p) \in Calls
      BY <1>3
    <2>2. Stopped(p) \in Engines /\ Stopped(p).seen \in DOMAIN log'
      BY <1>4
    <2>3. \A i \in New : log'[i].cause < i /\ log'[i].by <= Len(results)
      BY <1>7
    <2> HIDE DEF ToJob, Stopped
    <2> QED BY <1>2, <1>5, <1>6, <1>7, <1>8, <2>1, <2>2, <2>3, CustomMove
  <1> QED BY <1>1, <1>7, <1>9

\* The fields of a call that is back at the signal that started the drain.
LEMMA ToJobType ==
    ASSUME Base, NEW p \in Procs
    PROVE  /\ ToJob(p) \in Calls /\ ToJob(p).pc = "job" /\ ToJob(p).id = call[p].id
           /\ ToJob(p).work = call[p].outer /\ ToJob(p).outer = call[p].outer
           /\ ToJob(p).sig = call[p].sig /\ ToJob(p).resuming = call[p].resuming
  BY BaseFacts DEF ToJob, Calls, PCs

\* After the metadata: the rest of the queue, or the runtime states reached.
Onward(p) ==
    [call[p] EXCEPT !.pc = IF engine[p].draining THEN "queue" ELSE "drain", !.resuming = @ /\ Work(p).src # "caller"]

\* The fields of a call that goes on after the metadata.
LEMMA OnwardType ==
    ASSUME Base, NEW p \in Procs
    PROVE  /\ Onward(p) \in Calls /\ Onward(p).id = call[p].id /\ Onward(p).work = call[p].work /\ Onward(p).outer = call[p].outer
           /\ Onward(p).sig = call[p].sig /\ Onward(p).pc \in {"queue", "drain"}
           /\ (Onward(p).pc = "queue" <=> engine[p].draining)
           /\ (Onward(p).first <=> call[p].first)
           /\ (Onward(p).resuming <=> (call[p].resuming /\ Work(p).src # "caller"))
  <1> DEFINE x == IF engine[p].draining THEN "queue" ELSE "drain"
  <1> DEFINE b == call[p].resuming /\ Work(p).src # "caller"
  <1>1. call[p] \in Calls /\ x \in PCs /\ b \in BOOLEAN /\ x \in {"queue", "drain"} /\ (x = "queue" <=> engine[p].draining)
    BY BaseFacts DEF PCs, Calls
  <1>2. Onward(p) = [call[p] EXCEPT !.pc = x, !.resuming = b]
    BY DEF Onward
  <1>3. Onward(p).resuming <=> b
    <2> HIDE DEF x, b
    <2> QED BY <1>1, <1>2 DEF Calls
  <1> HIDE DEF x, b
  <1>4. Onward(p).first <=> call[p].first
    BY <1>1, <1>2 DEF Calls
  <1>5. /\ Onward(p) \in Calls /\ Onward(p).id = call[p].id /\ Onward(p).work = call[p].work /\ Onward(p).outer = call[p].outer
        /\ Onward(p).sig = call[p].sig /\ Onward(p).pc = x
    BY <1>1, <1>2 DEF Calls
  <1> QED BY <1>1, <1>3, <1>4, <1>5 DEF b

\* The job's metadata are written.
LEMMA UpdateJobShape ==
    ASSUME Base, NEW p \in Procs, UpdateJob(p)
    PROVE  /\ call[p].pc = "job" /\ Framed(p) /\ Still(p) /\ Moves(p, Onward(p)) /\ UNCHANGED <<log, snapshot, engine>>
           /\ job' = [state |-> From(p), done |-> From(p) \in Terminals]
  <1>1. /\ call[p].pc = "job" /\ UNCHANGED <<log, snapshot, engine, results, bounds>>
        /\ job' = [state |-> From(p), done |-> From(p) \in Terminals]
    BY DEF UpdateJob, JobState
  <1>2. call' = [call EXCEPT ![p] = Onward(p)]
    BY BaseFacts DEF UpdateJob, Onward
  <1>3. /\ Onward(p) \in Calls /\ Onward(p).id = call[p].id /\ Onward(p).pc # "idle"
        /\ WorkWithin(Onward(p).work, Len(log')) /\ WorkWithin(Onward(p).outer, Len(log'))
    BY <1>1, OnwardType, BaseFacts
  <1>4. engine' = [engine EXCEPT ![p] = engine[p]] /\ engine[p] \in Engines /\ engine[p].seen \in DOMAIN log'
    BY <1>1, BaseFacts
  <1>5. (call'[p] = Onward(p) /\ engine'[p] = engine[p]) => SignalKnown(p)'
    <2>1. Onward(p).pc \in {"queue", "drain"}
      BY OnwardType
    <2> QED BY <2>1 DEF SignalKnown, Processing
  <1>6. log' \in Seq(Events) /\ Extended /\ New = {}
    BY <1>1 DEF Base, Types, Extended, New
  <1>7. /\ snapshot' \in [seq : Nat, state : States] /\ snapshot'.seq \in DOMAIN log'
        /\ job' \in [state : States, done : BOOLEAN] /\ UNCHANGED <<results, bounds>> /\ call[p].pc # "idle"
    BY <1>1, BaseFacts
  <1>8. Framed(p) /\ Moves(p, Onward(p)) /\ engine'[p] = engine[p]
    BY <1>2, <1>3, <1>4, <1>5, <1>6, <1>7, CustomMove
  <1> QED BY <1>1, <1>6, <1>8 DEF Still

\* The fields of an engine that was just opened.
LEMMA OpenedType ==
    ASSUME Base
    PROVE  /\ Opened \in Engines /\ Opened.seen = Len(log) /\ Opened.queue = <<>> /\ ~Opened.draining /\ ~Opened.stale
           /\ Opened.depth = 0 /\ Opened.state = Rehydrated /\ Rehydrated \in States
  <1>1. Rehydrated \in States /\ Len(log) \in Nat /\ <<>> \in Seq(Signals)
    BY RehydratedState DEF Base, Types
  <1> DEFINE s == Rehydrated
  <1> DEFINE n == Len(log)
  <1> DEFINE empty == <<>>
  <1>2. s \in States /\ n \in Nat /\ empty \in Seq(Signals)
    BY <1>1
  <1>3. Opened = [state |-> s, seen |-> n, stale |-> FALSE, queue |-> empty, draining |-> FALSE, depth |-> 0]
    BY DEF Opened
  <1> HIDE DEF s, n, empty
  <1>4. /\ Opened \in Engines /\ Opened.seen = n /\ Opened.queue = empty /\ ~Opened.draining /\ ~Opened.stale
        /\ Opened.depth = 0 /\ Opened.state = s
    BY <1>2, <1>3 DEF Engines
  <1> QED BY <1>1, <1>4 DEF s, n, empty

\* The process dies and another one opens the run.
LEMMA CrashShape ==
    ASSUME Base, NEW p \in Procs, Crash(p)
    PROVE  /\ call[p].pc # "idle" /\ Framed(p) /\ New = {} /\ engine'[p] = Opened /\ Ends(p, "died") /\ UNCHANGED <<log, snapshot>>
           /\ job' = [job EXCEPT !.state = Rehydrated]
  <1>1. /\ call[p].pc # "idle" /\ Return(p, "died") /\ engine' = [engine EXCEPT ![p] = Opened]
        /\ job' = [job EXCEPT !.state = Rehydrated] /\ UNCHANGED <<log, snapshot, submits, foreign>>
    BY DEF Crash, Return
  <1>2. Opened \in Engines /\ Opened.seen \in DOMAIN log
    <2>1. Len(log) \in DOMAIN log
      BY DEF Base, Types
    <2> QED BY <2>1, OpenedType
  <1>3. job' \in [state : States, done : BOOLEAN] /\ "died" \in Results
    <2>1. Rehydrated \in States /\ job \in [state : States, done : BOOLEAN]
      BY OpenedType, BaseFacts
    <2> QED BY <1>1, <2>1 DEF Results
  <1>4. submits' \in 0 .. MaxSubmits /\ foreign' \in 0 .. MaxForeign /\ crashes' \in 0 .. MaxCrashes
    <2>1. crashes < MaxCrashes /\ crashes' = crashes + 1 /\ MaxCrashes \in Nat /\ crashes \in 0 .. MaxCrashes
      BY ConstantFacts, BaseFacts DEF Crash
    <2> QED BY <1>1, <2>1, BaseFacts
  <1>5. Framed(p) /\ New = {} /\ engine'[p] = Opened /\ Ends(p, "died")
    BY <1>1, <1>2, <1>3, <1>4, QuietEnd
  <1> QED BY <1>1, <1>5

\* Another program appends.
LEMMA ForeignShape ==
    ASSUME Base, Foreign
    PROVE  /\ Base' /\ Extended /\ New = {Len(log) + 1}
           /\ log'[Len(log) + 1] = Event("FOREIGN", Rehydrated, NoSignal, 0, 0)
           /\ UNCHANGED <<snapshot, job, engine, call, results>>
  <1> DEFINE e == Event("FOREIGN", Rehydrated, NoSignal, 0, 0)
  <1>1. log' = Append(log, e) /\ UNCHANGED <<snapshot, job, engine, call, results, submits, crashes>>
        /\ foreign < MaxForeign /\ foreign' = foreign + 1
    BY DEF Foreign
  <1>2. e \in Events /\ e.cause = 0 /\ e.by = 0
    <2>1. Rehydrated \in States
      BY RehydratedState DEF Base
    <2> QED BY <2>1 DEF Event, Events, EventTypes
  <1> HIDE DEF e
  <1>3. /\ log' \in Seq(Events) /\ Len(log') = Len(log) + 1 /\ log'[Len(log) + 1] = e /\ Len(log) \in Nat
        /\ \A i \in DOMAIN log : log'[i] = log[i]
    <2>1. log \in Seq(Events)
      BY DEF Base, Types
    <2> QED BY <1>1, <1>2, <2>1
  <1>4. Extended /\ New = {Len(log) + 1} /\ DOMAIN log' = 1 .. (Len(log) + 1) /\ DOMAIN log \subseteq DOMAIN log'
    <2>1. DOMAIN log = 1 .. Len(log)
      BY DEF Base, Types
    <2> QED BY <1>3, <2>1 DEF Extended, New
  <1>5. Types'
    <2>1. \A i \in DOMAIN log' : log'[i].cause < i /\ log'[i].by <= Len(results')
      <3>1. Len(results) \in Nat /\ DOMAIN log = 1 .. Len(log)
        BY DEF Base, Types
      <3>2. ASSUME NEW i \in DOMAIN log' PROVE log'[i].cause < i /\ log'[i].by <= Len(results')
        <4>1. CASE i = Len(log) + 1
          BY <1>1, <1>2, <1>3, <3>1, <4>1
        <4>2. CASE i # Len(log) + 1
          BY <1>1, <1>3, <1>4, <3>1, <4>2 DEF Base, Types
        <4> QED BY <4>1, <4>2
      <3> QED BY <3>2
    <2>2. foreign' \in 0 .. MaxForeign
      <3>1. foreign \in 0 .. MaxForeign /\ MaxForeign \in Nat
        BY ConstantFacts DEF Base, Types
      <3> QED BY <1>1, <3>1
    <2>3. ASSUME NEW q \in Procs
          PROVE  engine'[q].seen \in DOMAIN log' /\ WorkWithin(call'[q].work, Len(log')) /\ WorkWithin(call'[q].outer, Len(log'))
      BY <1>1, <1>3, <1>4, BaseFacts
    <2>4. Len(log') > 0 /\ snapshot'.seq \in DOMAIN log' /\ snapshot' \in [seq : Nat, state : States]
      BY <1>1, <1>3, <1>4 DEF Base, Types
    <2>5. engine' \in [Procs -> Engines] /\ call' \in [Procs -> Calls] /\ job' \in [state : States, done : BOOLEAN]
          /\ results' \in Seq(Results) /\ submits' \in 0 .. MaxSubmits /\ crashes' \in 0 .. MaxCrashes
      BY <1>1 DEF Base, Types
    <2> QED BY <1>3, <2>1, <2>2, <2>3, <2>4, <2>5 DEF Types
  <1>6. CallsAreNumbered'
    BY <1>1 DEF Base, CallsAreNumbered
  <1>7. ASSUME NEW q \in Procs PROVE SignalKnown(q)'
    <2>1. SignalKnown(q) /\ call' = call /\ engine' = engine
      BY <1>1 DEF Base
    <2> QED BY <1>4, <2>1 DEF SignalKnown, Work, From, Accepts
  <1> QED BY <1>1, <1>3, <1>4, <1>5, <1>6, <1>7 DEF Base, e

\* The types hold at the start.
LEMMA InitBase ==
    ASSUME Init
    PROVE  Base
  <1> DEFINE e == Event("SKILL_INITIALIZED", Initial, NoSignal, 0, 0)
  <1>1. e \in Events /\ e.cause = 0 /\ e.by = 0 /\ Initial \in States
    <2>1. Initial \in States
      BY ConstantFacts
    <2> QED BY <2>1 DEF Event, Events, EventTypes
  <1>2. log = <<e>>
    BY DEF Init
  <1> HIDE DEF e
  <1>3. log \in Seq(Events) /\ Len(log) = 1 /\ DOMAIN log = {1} /\ log[1] = e
    BY <1>1, <1>2
  <1>4. engine \in [Procs -> Engines] /\ \A p \in Procs : engine[p].seen = 1
    <2> DEFINE E == [state |-> Initial, seen |-> 1, stale |-> FALSE, queue |-> <<>>, draining |-> FALSE, depth |-> 0]
    <2>1. E \in Engines /\ E.seen = 1
      <3>1. <<>> \in Seq(Signals)
        OBVIOUS
      <3> QED BY <1>1, <3>1 DEF Engines
    <2>2. engine = [p \in Procs |-> E]
      BY DEF Init
    <2> HIDE DEF E
    <2> QED BY <2>1, <2>2
  <1>5. call \in [Procs -> Calls] /\ \A p \in Procs : call[p] = NoCall
    BY NoCallType DEF Init
  <1>6. results = <<>> /\ results \in Seq(Results) /\ Len(results) = 0 /\ snapshot = [seq |-> 1, state |-> Initial]
        /\ job = [state |-> Initial, done |-> FALSE] /\ submits = 0 /\ foreign = 0 /\ crashes = 0
    BY DEF Init
  <1>7. ASSUME NEW p \in Procs
        PROVE  engine[p].seen \in DOMAIN log /\ WorkWithin(call[p].work, Len(log)) /\ WorkWithin(call[p].outer, Len(log))
    BY <1>3, <1>4, <1>5, NoCallType
  <1>8. Types
    BY <1>1, <1>3, <1>4, <1>5, <1>6, <1>7, ConstantFacts DEF Types
  <1>9. CallsAreNumbered
    BY <1>5, NoCallType DEF CallsAreNumbered
  <1>10. ASSUME NEW p \in Procs PROVE SignalKnown(p)
    BY <1>5, NoCallType DEF SignalKnown, Processing
  <1> QED BY <1>8, <1>9, <1>10 DEF Base

-----------------------------------------------------------------------------
(* The signals of a call in the ledger *)

\* Events of hooks and of signals.
Marked == {"SIGNAL_EMITTED", "STATE_ENTRY_HOOK", "STATE_EXIT_HOOK"}

\* The step raises and emits nothing for call c.
Untouched(c) == \A i \in New : log'[i].by = c => log'[i].type \notin Marked

\* The signals of a call are positions of the ledger, so they can be counted.
LEMMA SignalSets ==
    ASSUME Base, NEW c
    PROVE  /\ HookEvents(c) \subseteq 1 .. Len(log) /\ HookSignals(c) \subseteq 1 .. Len(log)
           /\ OwnSignals(c) \subseteq 1 .. Len(log) /\ Len(log) \in Nat
           /\ Raised(c) \in Nat /\ Served(c) \in Nat
           /\ \A i : DrainedIn(c, i) \subseteq 1 .. Len(log) /\ Cardinality(DrainedIn(c, i)) \in Nat
  <1>1. DOMAIN log = 1 .. Len(log) /\ Len(log) \in Nat
    BY DEF Base, Types
  <1>2. /\ HookEvents(c) \subseteq 1 .. Len(log) /\ HookSignals(c) \subseteq 1 .. Len(log)
        /\ OwnSignals(c) \subseteq 1 .. Len(log)
    BY <1>1 DEF HookEvents, HookSignals, OwnSignals, Positions
  <1>3. Raised(c) \in Nat /\ Served(c) \in Nat
    BY <1>1, <1>2, PositionsFinite, FS_CardinalityType DEF Raised, Served
  <1>4. ASSUME NEW i PROVE DrainedIn(c, i) \subseteq 1 .. Len(log) /\ Cardinality(DrainedIn(c, i)) \in Nat
    <2>1. DrainedIn(c, i) \subseteq 1 .. Len(log)
      BY <1>2 DEF DrainedIn
    <2> QED BY <1>1, <2>1, PositionsFinite, FS_CardinalityType
  <1> QED BY <1>1, <1>2, <1>3, <1>4

\* What is new in the sets is at the new positions.
LEMMA SetsGrow ==
    ASSUME Base, Base', Extended, NEW c
    PROVE  /\ HookEvents(c)' =
                HookEvents(c) \cup {i \in New : log'[i].by = c /\ log'[i].type \in {"STATE_ENTRY_HOOK", "STATE_EXIT_HOOK"}}
           /\ HookSignals(c)' =
                HookSignals(c) \cup {i \in New : log'[i].by = c /\ log'[i].type = "SIGNAL_EMITTED" /\ log'[i].src = "hook"}
           /\ OwnSignals(c)' =
                OwnSignals(c) \cup {i \in New : log'[i].by = c /\ log'[i].type = "SIGNAL_EMITTED" /\ log'[i].src # "hook"}
  <1>1. DOMAIN log' = DOMAIN log \cup New /\ \A i \in DOMAIN log : log'[i] = log[i]
    <2>1. DOMAIN log = 1 .. Len(log) /\ DOMAIN log' = 1 .. Len(log') /\ Len(log) \in Nat /\ Len(log') \in Nat
      BY DEF Base, Types
    <2> QED BY <2>1 DEF Extended, New
  <1> QED BY <1>1 DEF HookEvents, HookSignals, OwnSignals, Positions

\* A signal raised earlier keeps its rank.
LEMMA RaisedStays ==
    ASSUME Base, Extended, NEW c, HookEvents(c)' = HookEvents(c), NEW n, NEW s
    PROVE  RaisedAs(c, n, s) => RaisedAs(c, n, s)'
  <1>1. HookEvents(c) \subseteq DOMAIN log /\ \A i \in DOMAIN log : log'[i] = log[i]
    BY DEF HookEvents, Extended
  <1>2. ASSUME RaisedAs(c, n, s) PROVE RaisedAs(c, n, s)'
    <2>1. PICK i \in HookEvents(c) : Before(HookEvents(c), i) = n /\ log[i].sig = s
      BY <1>2 DEF RaisedAs
    <2>2. i \in HookEvents(c)' /\ log'[i].sig = s /\ Before(HookEvents(c), i)' = n
      BY <1>1, <2>1 DEF Before
    <2> QED BY <2>2 DEF RaisedAs
  <1> QED BY <1>2

\* What depends on the signals raised and served.
LEMMA HooksSame ==
    ASSUME Base, Extended, NEW c, HookEvents(c)' = HookEvents(c), HookSignals(c)' = HookSignals(c)
    PROVE  /\ Raised(c)' = Raised(c) /\ Served(c)' = Served(c)
           /\ \A n, s : RaisedAs(c, n, s) => RaisedAs(c, n, s)'
           /\ HooksInOrder(c) => HooksInOrder(c)'
  <1>1. Raised(c)' = Raised(c) /\ Served(c)' = Served(c)
    BY DEF Raised, Served
  <1>2. \A n, s : RaisedAs(c, n, s) => RaisedAs(c, n, s)'
    BY RaisedStays
  <1>3. HooksInOrder(c) => HooksInOrder(c)'
    <2>1. \A i \in DOMAIN log : log'[i] = log[i]
      BY DEF Extended
    <2>2. HookEvents(c) \subseteq DOMAIN log /\ HookSignals(c) \subseteq DOMAIN log
      BY DEF HookEvents, HookSignals, Positions
    <2> QED BY <2>1, <2>2 DEF HooksInOrder, Before
  <1> QED BY <1>1, <1>2, <1>3

\* Nothing that is said of the signals of c changes in a step that leaves c untouched.
LEMMA LedgerSame ==
    ASSUME Base, Base', Extended, NEW c, Untouched(c)
    PROVE  /\ HookEvents(c)' = HookEvents(c) /\ HookSignals(c)' = HookSignals(c) /\ OwnSignals(c)' = OwnSignals(c)
           /\ Raised(c)' = Raised(c) /\ Served(c)' = Served(c)
           /\ \A n, s : RaisedAs(c, n, s) => RaisedAs(c, n, s)'
           /\ \A i : DrainedIn(c, i)' = DrainedIn(c, i)
           /\ HooksInOrder(c) => HooksInOrder(c)'
           /\ CyclesCut(c) => CyclesCut(c)'
  <1>1. HookEvents(c)' = HookEvents(c) /\ HookSignals(c)' = HookSignals(c) /\ OwnSignals(c)' = OwnSignals(c)
    BY SetsGrow DEF Untouched, Marked
  <1>2. \A i : DrainedIn(c, i)' = DrainedIn(c, i)
    BY <1>1 DEF DrainedIn
  <1>3. CyclesCut(c) => CyclesCut(c)'
    BY <1>1, <1>2 DEF CyclesCut
  <1> QED BY <1>1, <1>2, <1>3, HooksSame

\* A call that has not begun has no signals.
LEMMA NoSignalsYet ==
    ASSUME Base, NEW c \in Nat, c > Len(results)
    PROVE  HookEvents(c) = {} /\ HookSignals(c) = {} /\ OwnSignals(c) = {} /\ Raised(c) = 0 /\ Served(c) = 0
  <1>1. \A i \in DOMAIN log : log[i].by # c
    <2>1. ASSUME NEW i \in DOMAIN log PROVE log[i].by # c
      <3>1. log[i].by <= Len(results) /\ log[i] \in Events /\ Len(results) \in Nat
        BY DEF Base, Types
      <3>2. log[i].by \in Nat
        BY <3>1 DEF Events
      <3> QED BY <3>1, <3>2
    <2> QED BY <2>1
  <1>2. HookEvents(c) = {} /\ HookSignals(c) = {} /\ OwnSignals(c) = {}
    BY <1>1 DEF HookEvents, HookSignals, OwnSignals, Positions
  <1> QED BY <1>2, FS_EmptySet DEF Raised, Served

-----------------------------------------------------------------------------
(* What a step of one process leaves alone *)

\* The new events are the call's.
OwnEvents(p) == \A i \in New : log'[i].by = call[p].id

\* A step of p leaves the other calls untouched.
LEMMA OthersUntouched ==
    ASSUME Base, NEW p \in Procs, OwnEvents(p), NEW c, c # call[p].id
    PROVE  Untouched(c)
  BY DEF OwnEvents, Untouched

\* What another process has in flight is as before.
LEMMA BystanderKept ==
    ASSUME HookInv, NEW p \in Procs, Framed(p), OwnEvents(p), call[p].pc # "idle" \/ New = {}, NEW q \in Procs \ {p}
    PROVE  OwnInv(q)'
  <1>1. call'[q] = call[q] /\ engine'[q] = engine[q] /\ Base /\ Base' /\ Extended /\ OwnInv(q)
    BY DEF HookInv, Framed, Bystanders
  <1>2. HasExternal(q) => HasExternal(q)'
    <2>1. Len(log) <= Len(log') /\ Len(log) \in Nat /\ Len(log') \in Nat /\ engine[q].seen \in Nat
      BY <1>1, LengthFacts DEF Extended
    <2> QED BY <1>1, <2>1 DEF HasExternal
  <1>3. QueueState(q)'
    <2>1. QueueState(q)
      BY <1>1 DEF OwnInv
    <2> QED BY <1>1, <1>2, <2>1 DEF QueueState, Unchecked, Empty, Work
  <1>4. ASSUME NEW c, call[q].pc # "idle", call[q].id = c
        PROVE  /\ Untouched(c) /\ c \in DOMAIN results
    <2>1. c # call[p].id \/ New = {}
      <3>1. CASE New = {}
        BY <3>1
      <3>2. CASE call[p].pc # "idle"
        BY <1>1, <1>4, <3>2 DEF Base, CallsAreNumbered
      <3> QED BY <3>1, <3>2
    <2>2. Untouched(c)
      BY <2>1 DEF OwnEvents, Untouched
    <2> QED BY <1>1, <1>4, <2>2, BaseFacts
  <1>5. QueueServes(q)'
    <2>1. ASSUME NEW c, call'[q].pc # "idle", call'[q].id = c PROVE ServesCall(q, c)'
      <3>1. Untouched(c) /\ ServesCall(q, c)
        BY <1>1, <1>4, <2>1 DEF OwnInv, QueueServes
      <3>2. Raised(c)' = Raised(c) /\ Served(c)' = Served(c) /\ \A n, s : RaisedAs(c, n, s) => RaisedAs(c, n, s)'
        BY <1>1, <3>1, LedgerSame
      <3>3. Unchecked(q)' <=> Unchecked(q)
        BY <1>1 DEF Unchecked, Work
      <3>4. (Taken(q)' <=> Taken(q)) /\ TakenCount(q)' = TakenCount(q) /\ Work(q)' = Work(q)
        BY <1>1 DEF Taken, TakenCount, Work
      <3> QED BY <1>1, <3>1, <3>2, <3>3, <3>4 DEF ServesCall
    <2> QED BY <2>1 DEF QueueServes
  <1>6. DepthCounts(q)'
    <2>1. ASSUME NEW c, Draining(q)', call'[q].id = c PROVE DepthOf(q, c)'
      <3>1. Draining(q) /\ call[q].pc # "idle"
        BY <1>1, <2>1 DEF Draining, Taken, Processing, Work
      <3>2. Untouched(c) /\ DepthOf(q, c)
        BY <1>1, <1>4, <2>1, <3>1 DEF OwnInv, DepthCounts
      <3>3. OwnSignals(c)' = OwnSignals(c) /\ \A i : DrainedIn(c, i)' = DrainedIn(c, i)
        BY <1>1, <3>2, LedgerSame
      <3>4. TakenCount(q)' = TakenCount(q)
        BY <1>1 DEF Taken, TakenCount, Work
      <3> QED BY <1>1, <3>2, <3>3, <3>4 DEF DepthOf, LastOwn
    <2> QED BY <2>1 DEF DepthCounts
  <1> QED BY <1>3, <1>5, <1>6 DEF OwnInv

\* A step of p keeps the invariant when it does so for p and for the call p executes.
LEMMA StepKeeps ==
    ASSUME HookInv, NEW p \in Procs, Framed(p), OwnEvents(p), call[p].pc # "idle" \/ New = {}, OwnInv(p)',
           \A c \in DOMAIN results : c = call[p].id => HooksInOrder(c)' /\ (results'[c] = "ok" => Raised(c)' = Served(c)'),
           \A c \in Nat : c = call[p].id => CyclesCut(c)'
    PROVE  HookInv'
  <1>1. Base /\ Base' /\ Extended /\ ResultsStand(p) /\ call[p].id \in 0 .. Len(results)
        /\ results \in Seq(Results) /\ results' \in Seq(Results)
    BY BaseFacts DEF HookInv, Framed, Base, Types
  <1>2. ASSUME NEW q \in Procs PROVE OwnInv(q)'
    BY BystanderKept
  <1>3. ASSUME NEW c \in DOMAIN results', c # call[p].id
        PROVE  HooksInOrder(c)' /\ (results'[c] = "ok" => Raised(c)' = Served(c)')
    <2>1. Untouched(c)
      BY <1>1, <1>3, OthersUntouched
    <2>2. CASE c \in DOMAIN results
      <3>1. results'[c] = results[c] /\ HooksInOrder(c) /\ (results[c] = "ok" => Raised(c) = Served(c))
        BY <1>1, <1>3, <2>2 DEF ResultsStand, HookInv
      <3> QED BY <1>1, <2>1, <3>1, LedgerSame
    <2>3. CASE c \notin DOMAIN results
      <3>1. c \in Nat /\ c > Len(results)
        BY <1>1, <2>3
      <3>2. HookSignals(c)' = {} /\ Raised(c)' = 0 /\ Served(c)' = 0
        BY <1>1, <2>1, <3>1, NoSignalsYet, LedgerSame
      <3> QED BY <3>2 DEF HooksInOrder
    <2> QED BY <2>2, <2>3
  <1>4. ASSUME NEW c \in Nat, c # call[p].id PROVE CyclesCut(c)'
    <2>1. CyclesCut(c) /\ Untouched(c)
      BY <1>1, <1>4, OthersUntouched DEF HookInv
    <2> QED BY <1>1, <2>1, LedgerSame
  <1>5. \A c \in DOMAIN results' : HooksInOrder(c)' /\ (results'[c] = "ok" => Raised(c)' = Served(c)')
    <2>1. ASSUME NEW c \in DOMAIN results', c = call[p].id
          PROVE HooksInOrder(c)' /\ (results'[c] = "ok" => Raised(c)' = Served(c)')
      <3>1. c \in DOMAIN results
        BY <1>1, <2>1
      <3> QED BY <2>1, <3>1
    <2> QED BY <1>3, <2>1
  <1>6. \A c \in Nat : CyclesCut(c)'
    BY <1>4
  <1> QED BY <1>1, <1>2, <1>5, <1>6 DEF HookInv

\* The step raises and emits nothing at all.
Plain(p) == OwnEvents(p) /\ \A i \in New : log'[i].type \notin Marked

\* A step that raises and emits nothing keeps the invariant when it keeps the queue of p.
LEMMA PlainKeeps ==
    ASSUME HookInv, NEW p \in Procs, Framed(p), Plain(p), call[p].pc # "idle" \/ New = {}, OwnInv(p)',
           \A c \in DOMAIN results : (c = call[p].id /\ results'[c] = "ok") => Raised(c) = Served(c)
    PROVE  HookInv'
  <1>1. Base /\ Base' /\ Extended /\ OwnEvents(p)
    BY DEF HookInv, Framed, Plain
  <1>2. ASSUME NEW c PROVE Untouched(c)
    BY DEF Plain, Untouched
  <1>3. ASSUME NEW c \in DOMAIN results, c = call[p].id
        PROVE  HooksInOrder(c)' /\ (results'[c] = "ok" => Raised(c)' = Served(c)')
    <2>1. HooksInOrder(c)
      BY DEF HookInv
    <2> QED BY <1>1, <1>2, <1>3, <2>1, LedgerSame
  <1>4. ASSUME NEW c \in Nat PROVE CyclesCut(c)'
    <2>1. CyclesCut(c)
      BY DEF HookInv
    <2> QED BY <1>1, <1>2, <2>1, LedgerSame
  <1> QED BY <1>1, <1>3, <1>4, StepKeeps

-----------------------------------------------------------------------------
(* Steps that raise and emit nothing *)

\* A call that is between two signals of its own has served the queue.
Settled(p) == engine[p].queue = <<>> /\ \A c \in DOMAIN results : c = call[p].id => Raised(c) = Served(c)

\* When the queue must be empty, everything raised was served.
LEMMA SettledFacts ==
    ASSUME HookInv, NEW p \in Procs, call[p].pc # "idle",
           \/ Empty(p) /\ ~Unchecked(p)
           \/ Unchecked(p) /\ ~HasExternal(p)
    PROVE  Settled(p)
  <1>1. Base /\ QueueState(p) /\ QueueServes(p)
    BY DEF HookInv, OwnInv
  <1>2. engine[p].queue = <<>>
    BY <1>1 DEF QueueState
  <1>3. ASSUME NEW c \in DOMAIN results, c = call[p].id PROVE Raised(c) = Served(c)
    <2>1. ServesCall(p, c)
      BY <1>1, <1>3 DEF QueueServes
    <2>2. CASE Unchecked(p)
      BY <2>1, <2>2 DEF ServesCall
    <2>3. CASE Empty(p) /\ ~Unchecked(p)
      <3>1. TakenCount(p) = 0
        BY <2>3 DEF TakenCount, Taken, Empty
      <3>2. Raised(c) = Served(c) + 0 + 0
        BY <1>2, <2>1, <2>3, <3>1 DEF ServesCall
      <3> QED BY <1>1, <3>2, SignalSets
    <2> QED BY <2>2, <2>3
  <1> QED BY <1>2, <1>3 DEF Settled

\* A plain step to another point of the call, with the queue and the depth as they were.
LEMMA PlainMove ==
    ASSUME HookInv, NEW p \in Procs, Framed(p), Plain(p), call[p].pc # "idle", call'[p].pc # "idle", call'[p].id = call[p].id,
           QueueState(p)', ~Taken(p)',
           \/ ~Draining(p)'
           \/ Draining(p) /\ ~Taken(p) /\ engine'[p].depth = engine[p].depth,
           \/ Settled(p) /\ engine'[p].queue = <<>>
           \/ ~Unchecked(p) /\ ~Taken(p) /\ ~Unchecked(p)' /\ engine'[p].queue = engine[p].queue
    PROVE  HookInv'
  <1>1. Base /\ Base' /\ Extended /\ OwnInv(p)
    BY DEF HookInv, Framed
  <1>2. ASSUME NEW c PROVE Untouched(c)
    BY DEF Plain, Untouched
  <1>3. TakenCount(p)' = 0
    BY DEF TakenCount
  <1>4. call[p].id \in DOMAIN results
    BY <1>1, BaseFacts
  <1>5. QueueServes(p)'
    <2>1. ASSUME NEW c, call[p].id = c PROVE ServesCall(p, c)'
      <3>1. /\ Raised(c)' = Raised(c) /\ Served(c)' = Served(c) /\ Served(c) \in Nat
            /\ \A n, s : RaisedAs(c, n, s) => RaisedAs(c, n, s)'
        BY <1>1, <1>2, LedgerSame, SignalSets
      <3>2. CASE Settled(p) /\ engine'[p].queue = <<>>
        <4>1. Raised(c) = Served(c)
          BY <1>4, <2>1, <3>2 DEF Settled
        <4>2. Len(engine'[p].queue) = 0
          BY <3>2
        <4>3. Raised(c)' = Served(c)' + TakenCount(p)' + Len(engine'[p].queue)
          BY <1>3, <3>1, <4>1, <4>2
        <4>4. \A k \in 1 .. Len(engine'[p].queue) : FALSE
          BY <4>2
        <4> QED BY <3>1, <4>1, <4>3, <4>4 DEF ServesCall
      <3>3. CASE ~Unchecked(p) /\ ~Taken(p) /\ ~Unchecked(p)' /\ engine'[p].queue = engine[p].queue
        <4>1. ServesCall(p, c) /\ TakenCount(p) = 0
          BY <1>1, <1>4, <2>1, <3>3 DEF OwnInv, QueueServes, TakenCount
        <4> QED BY <1>3, <3>1, <3>3, <4>1 DEF ServesCall
      <3> QED BY <3>2, <3>3
    <2> QED BY <2>1 DEF QueueServes
  <1>6. DepthCounts(p)'
    <2>1. CASE ~Draining(p)'
      BY <2>1 DEF DepthCounts
    <2>2. CASE Draining(p) /\ ~Taken(p) /\ engine'[p].depth = engine[p].depth
      <3>1. ASSUME NEW c, call[p].id = c PROVE DepthOf(p, c)'
        <4>1. DepthOf(p, c) /\ TakenCount(p) = 0
          BY <1>1, <1>4, <2>2, <3>1 DEF OwnInv, DepthCounts, TakenCount
        <4>2. OwnSignals(c)' = OwnSignals(c) /\ \A i : DrainedIn(c, i)' = DrainedIn(c, i)
          BY <1>1, <1>2, LedgerSame
        <4> QED BY <1>3, <2>2, <4>1, <4>2 DEF DepthOf, LastOwn
      <3> QED BY <3>1 DEF DepthCounts
    <2> QED BY <2>1, <2>2
  <1>7. \A c \in DOMAIN results : (c = call[p].id /\ results'[c] = "ok") => Raised(c) = Served(c)
    <2>1. results'[call'[p].id] = "pending"
      BY <1>1 DEF Base, CallsAreNumbered
    <2> QED BY <2>1
  <1> QED BY <1>5, <1>6, <1>7, PlainKeeps DEF OwnInv

\* The call ends: what it leaves in the queue waits behind a ledger that moved.
LEMMA PlainEnd ==
    ASSUME HookInv, NEW p \in Procs, Framed(p), Plain(p), call[p].pc # "idle", NEW r \in Results, Ends(p, r),
           engine'[p].queue = <<>> \/ HasExternal(p)', ~engine'[p].draining, engine'[p].depth = 0,
           r = "ok" => Settled(p)
    PROVE  HookInv'
  <1>1. call'[p] = NoCall /\ call'[p].pc = "idle"
    BY NoCallType DEF Ends
  <1>2. QueueState(p)'
    BY <1>1, ConstantFacts DEF QueueState, Processing, Unchecked, Empty
  <1>3. QueueServes(p)' /\ DepthCounts(p)'
    BY <1>1 DEF QueueServes, DepthCounts, Draining, Processing, Taken
  <1>4. ASSUME NEW c \in DOMAIN results, c = call[p].id, results'[c] = "ok" PROVE Raised(c) = Served(c)
    <2>1. r = "ok"
      BY <1>4 DEF Ends, HookInv, Base, Types
    <2> QED BY <1>4, <2>1 DEF Settled
  <1> QED BY <1>2, <1>3, <1>4, PlainKeeps DEF OwnInv

\* What an append leaves of the engine.
LEMMA AppendsEngine ==
    ASSUME Base, Base', Extended, NEW p \in Procs, NEW e, Appends(p, e)
    PROVE  /\ engine'[p].queue = engine[p].queue /\ engine'[p].depth = engine[p].depth /\ engine'[p].state = engine[p].state
           /\ (engine'[p].draining <=> engine[p].draining)
           /\ (HasExternal(p)' <=> HasExternal(p))
           /\ engine'[p].seen = Len(log') /\ Len(log') = Len(log) + 1
  <1> DEFINE b == engine[p].stale \/ Len(log) > engine[p].seen
  <1>1. engine[p] \in Engines /\ b \in BOOLEAN /\ Len(log) \in Nat
    BY BaseFacts
  <1>2. Len(log') = Len(log) + 1
    <2> DEFINE n == Len(log)
    <2> DEFINE m == Len(log')
    <2>1. n \in Nat /\ m \in Nat /\ m >= n /\ New = {i \in 1 .. m : i > n} /\ New = {n + 1}
      BY DEF Appends, Extended, Base, Types, New
    <2> HIDE DEF n, m
    <2>2. n + 1 \in 1 .. m /\ n + 2 \notin 1 .. m
      BY <2>1
    <2>3. m = n + 1
      BY <2>1, <2>2
    <2> QED BY <2>3 DEF n, m
  <1>3. engine'[p] = [engine[p] EXCEPT !.stale = b, !.seen = Len(log) + 1]
    BY DEF Appends
  <1>4. engine'[p].stale <=> b
    BY <1>1, <1>3 DEF Engines
  <1>5. (engine'[p].draining <=> engine[p].draining)
    <2> HIDE DEF b
    <2> QED BY <1>1, <1>3 DEF Engines
  <1>6. /\ engine'[p].queue = engine[p].queue /\ engine'[p].depth = engine[p].depth /\ engine'[p].state = engine[p].state
        /\ engine'[p].seen = Len(log) + 1
    <2> HIDE DEF b
    <2> QED BY <1>1, <1>3 DEF Engines
  <1>7. HasExternal(p)' <=> HasExternal(p)
    BY <1>1, <1>2, <1>4, <1>6 DEF HasExternal
  <1> QED BY <1>2, <1>5, <1>6, <1>7

\* One own event that raises and emits nothing.
LEMMA PlainEvent ==
    ASSUME NEW p \in Procs, NEW e, New = {Len(log) + 1}, log'[Len(log) + 1] = e, e.by = call[p].id, e.type \notin Marked
    PROVE  Plain(p)
  BY DEF Plain, OwnEvents

\* No event raises or emits nothing.
LEMMA NoPlainEvent ==
    ASSUME NEW p \in Procs, New = {}
    PROVE  Plain(p)
  BY DEF Plain, OwnEvents

\* Without an event the engine has seen what it had seen.
LEMMA ExternalStays ==
    ASSUME Base, Base', Extended, New = {}, NEW p \in Procs, engine'[p].seen = engine[p].seen, engine[p].stale => engine'[p].stale
    PROVE  Len(log') = Len(log) /\ (HasExternal(p) => HasExternal(p)')
  <1>1. Len(log) \in Nat /\ Len(log') \in Nat /\ Len(log') >= Len(log) /\ DOMAIN log' = 1 .. Len(log')
    BY DEF Base, Types, Extended
  <1>2. Len(log') = Len(log)
    <2> DEFINE n == Len(log)
    <2> DEFINE m == Len(log')
    <2>1. n \in Nat /\ m \in Nat /\ m >= n /\ {i \in 1 .. m : i > n} = {}
      BY <1>1 DEF New
    <2> HIDE DEF n, m
    <2>2. n + 1 \notin 1 .. m
      BY <2>1
    <2>3. m = n
      BY <2>1, <2>2
    <2> QED BY <2>3 DEF n, m
  <1> QED BY <1>2 DEF HasExternal

\* The queue of a call after a step, with its counts and its signals named.
LEMMA ServesAfter ==
    ASSUME NEW p, NEW c, ~Unchecked(p)', NEW r, r = Served(c)', NEW t, t = TakenCount(p)', NEW q, q = engine'[p].queue,
           Raised(c)' = r + t + Len(q),
           Taken(p)' => \A g : g = Work(p)'.sig => RaisedAs(c, r, g)',
           \A k \in 1 .. Len(q) : \A n, g : (n = r + t + k - 1 /\ g = q[k]) => RaisedAs(c, n, g)'
    PROVE  ServesCall(p, c)'
  <1>1. Taken(p)' => RaisedAs(c, Served(c), Work(p).sig)'
    BY DEF RaisedAs
  <1>2. ASSUME NEW k \in 1 .. Len(q) PROVE RaisedAs(c, Served(c) + TakenCount(p) + k - 1, engine[p].queue[k])'
    <2>1. \A n, g : (n = r + t + k - 1 /\ g = q[k]) => RaisedAs(c, n, g)'
      OBVIOUS
    <2> QED BY <2>1 DEF RaisedAs
  <1> QED BY <1>1, <1>2 DEF ServesCall

-----------------------------------------------------------------------------
(* Each step that raises and emits nothing keeps the invariant *)

\* What the proofs of the steps start from.
LEMMA HookParts ==
    ASSUME HookInv, NEW p \in Procs
    PROVE  /\ Base /\ QueueState(p) /\ QueueServes(p) /\ DepthCounts(p) /\ engine[p].depth \in Nat
           /\ engine[p].queue \in Seq(Signals) /\ MaxDrain \in Nat
  BY BaseFacts, ConstantFacts DEF HookInv, OwnInv, Engines

\* What a framed step leaves alone.
LEMMA FramedParts ==
    ASSUME NEW p, Framed(p)
    PROVE  Base' /\ Bystanders(p) /\ Extended /\ ResultsStand(p)
  BY DEF Framed

\* A call begins with an empty queue, or behind a ledger that moved.
LEMMA BeginHooks ==
    ASSUME HookInv, NEW p \in Procs, NEW sig \in Signals \cup {NoSignal}, Begun(p, sig), call[p].pc = "idle"
    PROVE  HookInv'
  <1>1. Base /\ QueueState(p) /\ Framed(p) /\ New = {} /\ engine'[p] = engine[p] /\ Base' /\ Extended
    BY HookParts, FramedParts DEF Begun, Still
  <1>2. call'[p].pc = "drain" /\ call'[p].id = Len(results) + 1 /\ call'[p].resuming /\ call'[p].first
    BY DEF Begun, NoCall
  <1>3. HasExternal(p) => HasExternal(p)'
    BY <1>1, ExternalStays
  <1>4. QueueState(p)'
    BY <1>1, <1>2, <1>3 DEF QueueState, Unchecked, Empty, Processing
  <1>5. QueueServes(p)'
    <2>1. ASSUME NEW c, c = Len(results) + 1 PROVE ServesCall(p, c)'
      <3>1. c \in Nat /\ c > Len(results)
        BY <1>1, <2>1, BaseFacts
      <3>2. Raised(c) = 0 /\ Served(c) = 0
        BY <1>1, <3>1, NoSignalsYet
      <3>3. Raised(c)' = 0 /\ Served(c)' = 0
        BY <1>1, <3>2, LedgerSame DEF Untouched
      <3>4. Unchecked(p)'
        BY <1>2 DEF Unchecked
      <3> QED BY <3>3, <3>4 DEF ServesCall
    <2> QED BY <1>2, <2>1 DEF QueueServes
  <1>6. DepthCounts(p)'
    BY <1>2 DEF DepthCounts, Draining, Processing, Taken
  <1>7. \A c \in DOMAIN results : c # call[p].id
    BY <1>1, BaseFacts DEF Base, CallsAreNumbered
  <1> QED BY <1>1, <1>4, <1>5, <1>6, <1>7, NoPlainEvent, PlainKeeps DEF OwnInv

\* handleSignal begins.
LEMMA SubmitHooks ==
    ASSUME HookInv, NEW p \in Procs, Submit(p)
    PROVE  HookInv'
  <1>1. PICK sig \in Submittable : Begun(p, sig) /\ call[p].pc = "idle"
    BY HookParts, SubmitShape
  <1> QED BY <1>1, ConstantFacts, BeginHooks

\* resumeRuntimeActions begins.
LEMMA ResumeHooks ==
    ASSUME HookInv, NEW p \in Procs, Resume(p)
    PROVE  HookInv'
  BY HookParts, ResumeShape, BeginHooks

\* An engine is opened anew, with an empty queue.
LEMMA ReopenHooks ==
    ASSUME HookInv, NEW p \in Procs, Reopen(p)
    PROVE  HookInv'
  <1>1. Base /\ Framed(p) /\ New = {} /\ engine'[p] = Opened /\ call'[p] = call[p] /\ call[p].pc = "idle"
    BY HookParts, ReopenShape DEF Moves
  <1>2. QueueState(p)'
    <2>1. engine'[p].queue = <<>> /\ ~engine'[p].draining /\ engine'[p].depth = 0
      BY <1>1, OpenedType
    <2> QED BY <1>1, <2>1, ConstantFacts DEF QueueState, Processing, Empty
  <1>3. QueueServes(p)' /\ DepthCounts(p)'
    BY <1>1 DEF QueueServes, DepthCounts, Draining, Processing, Taken
  <1>4. \A c \in DOMAIN results : c # call[p].id
    BY <1>1, BaseFacts DEF Base, CallsAreNumbered
  <1> QED BY <1>1, <1>2, <1>3, <1>4, NoPlainEvent, PlainKeeps DEF OwnInv

\* On to the caller's signal, or the call is over with everything served.
LEMMA DrainedHooks ==
    ASSUME HookInv, NEW p \in Procs, Drained(p)
    PROVE  HookInv'
  <1>1. /\ call[p].pc = "drain" /\ Framed(p) /\ New = {} /\ engine'[p] = engine[p] /\ Base /\ QueueState(p)
        /\ Base' /\ Extended
        /\ \/ call[p].resuming /\ call[p].sig # NoSignal /\ Moves(p, ToOwnSignal(p))
           \/ Ends(p, "ok")
    BY HookParts, DrainedShape, FramedParts DEF Still
  <1>2. HasExternal(p) => HasExternal(p)'
    BY <1>1, ExternalStays
  <1>3. ~engine[p].draining /\ engine[p].depth = 0 /\ ~Taken(p) /\ ~Draining(p)
    BY <1>1 DEF QueueState, Taken, Draining, Processing
  <1>4. CASE Moves(p, ToOwnSignal(p))
    <2>1. call'[p].pc = "emit" /\ call'[p].work.src = "caller" /\ call'[p].id = call[p].id
      BY <1>4, <1>1, OwnSignalType DEF Moves
    <2>2. Unchecked(p)' /\ ~Taken(p)' /\ ~Draining(p)'
      BY <2>1 DEF Unchecked, Taken, Draining, Processing, Work
    <2>3. engine[p].queue = <<>> \/ HasExternal(p)
      BY <1>1 DEF QueueState, Empty
    <2>4. QueueState(p)'
      BY <1>1, <1>2, <1>3, <2>1, <2>3 DEF QueueState, Processing, Unchecked, Work
    <2>5. CASE Unchecked(p)
      <3>1. QueueServes(p)'
        <4>1. ASSUME NEW c \in DOMAIN results, c = call[p].id PROVE ServesCall(p, c)'
          <5>1. Raised(c) = Served(c)
            BY <1>1, <2>5, <4>1, HookParts DEF QueueServes, ServesCall
          <5>2. Raised(c)' = Raised(c) /\ Served(c)' = Served(c)
            BY <1>1, LedgerSame DEF Untouched
          <5> QED BY <2>2, <5>1, <5>2 DEF ServesCall
        <4> QED BY <1>4, <2>1, <4>1 DEF QueueServes, Moves
      <3>2. DepthCounts(p)'
        BY <2>2 DEF DepthCounts
      <3>3. \A c \in DOMAIN results : ~(c = call[p].id /\ results'[c] = "ok")
        BY <1>1, <1>4, BaseFacts DEF Moves
      <3> QED BY <1>1, <2>4, <3>1, <3>2, <3>3, NoPlainEvent, PlainKeeps DEF OwnInv
    <2>6. CASE ~Unchecked(p)
      <3>1. Settled(p)
        BY <1>1, <2>6, SettledFacts DEF Empty
      <3> QED BY <1>1, <2>1, <2>2, <2>4, <3>1, NoPlainEvent, PlainMove DEF Settled
    <2> QED BY <2>5, <2>6
  <1>5. CASE Ends(p, "ok")
    <2>1. \A c \in DOMAIN results : c = call[p].id => Raised(c) = Served(c)
      <3>1. CASE Unchecked(p)
        BY <1>1, <3>1, HookParts DEF QueueServes, ServesCall
      <3>2. CASE ~Unchecked(p)
        BY <1>1, <3>2, SettledFacts DEF Empty, Settled
      <3> QED BY <3>1, <3>2
    <2>2. engine[p].queue = <<>> \/ HasExternal(p)
      BY <1>1 DEF QueueState, Empty
    <2>3. call'[p].pc = "idle"
      BY <1>5, NoCallType DEF Ends
    <2>4. QueueState(p)'
      BY <1>1, <1>2, <1>3, <2>2, <2>3, ConstantFacts DEF QueueState, Processing, Unchecked, Empty
    <2>5. QueueServes(p)' /\ DepthCounts(p)'
      BY <2>3 DEF QueueServes, DepthCounts, Draining, Processing, Taken
    <2> QED BY <1>1, <2>1, <2>4, <2>5, NoPlainEvent, PlainKeeps DEF OwnInv
  <1> QED BY <1>1, <1>4, <1>5

\* An error in the middle of a call whose ledger moved.
LEMMA ThrowHooks ==
    ASSUME HookInv, NEW p \in Procs, call[p].pc # "idle", HasExternal(p),
           Framed(p), New = {}, engine'[p] = Stopped(p), Ends(p, "failed")
    PROVE  HookInv'
  <1>1. Base /\ Base' /\ Extended
    BY HookParts, FramedParts
  <1>2. ~engine'[p].draining /\ engine'[p].depth = 0 /\ engine'[p].seen = engine[p].seen /\ engine'[p].stale = engine[p].stale
    BY <1>1, StoppedType
  <1>3. HasExternal(p)'
    <2>1. ~engine'[p].draining /\ engine'[p].seen = engine[p].seen /\ (engine[p].stale => engine'[p].stale)
      BY <1>1, StoppedType
    <2> QED BY <1>1, <2>1, ExternalStays
  <1>4. ~engine'[p].draining /\ engine'[p].depth = 0
    BY <1>1, StoppedType
  <1> QED BY <1>3, <1>4, NoPlainEvent, PlainEnd DEF Results

\* A call ends because the ledger moved.
LEMMA ConflictHooks ==
    ASSUME HookInv, NEW p \in Procs, DrainConflict(p) \/ EmitConflict(p) \/ GuardConflict(p)
    PROVE  HookInv'
  <1>1. CASE DrainConflict(p)
    BY <1>1, HookParts, DrainConflictShape, ThrowHooks
  <1>2. CASE EmitConflict(p)
    BY <1>2, HookParts, EmitConflictShape, ThrowHooks
  <1>3. CASE GuardConflict(p)
    BY <1>3, HookParts, GuardConflictShape, ThrowHooks
  <1> QED BY <1>1, <1>2, <1>3

\* The window of a runtime state is read.
LEMMA FoldWindowHooks ==
    ASSUME HookInv, NEW p \in Procs, FoldWindow(p)
    PROVE  HookInv'
  <1>1. /\ call[p].pc = "drain" /\ ~StaleChain(p) /\ Framed(p) /\ New = {} /\ engine'[p] = engine[p] /\ Base /\ QueueState(p)
        /\ Base' /\ Extended
        /\ \/ Moves(p, ToOutcome(p, log[Completed(From(p))].sig, Completed(From(p)))) /\ Completed(From(p)) # 0
           \/ Moves(p, At(p, "start"))
    BY HookParts, FoldWindowShape, FramedParts DEF Still
  <1>2. ~engine[p].draining /\ ~Taken(p) /\ ~Draining(p)
    BY <1>1 DEF QueueState, Taken, Draining, Processing
  <1>3. Settled(p)
    <2>1. Unchecked(p) => ~HasExternal(p)
      BY <1>1 DEF Unchecked, StaleChain
    <2> QED BY <1>1, <2>1, SettledFacts DEF Empty
  <1>4. \/ call'[p].pc = "emit" /\ call'[p].work.src = "runtime_action" /\ call'[p].id = call[p].id
        \/ call'[p].pc = "start" /\ call'[p].id = call[p].id
    <2>1. CASE Moves(p, At(p, "start"))
      BY <1>1, <2>1, AtType DEF Moves, PCs
    <2>2. CASE Moves(p, ToOutcome(p, log[Completed(From(p))].sig, Completed(From(p)))) /\ Completed(From(p)) # 0
      <3> DEFINE i == Completed(From(p))
      <3>1. i \in DOMAIN log
        BY <1>1, <2>2, CompletedFacts
      <3>2. i \in Nat /\ log[i] \in Events
        BY <1>1, <3>1, BaseFacts DEF Base, Types
      <3>3. log[i].sig \in Signals \cup {NoSignal}
        BY <3>2 DEF Events
      <3>4. call'[p] = ToOutcome(p, log[i].sig, i)
        BY <2>2 DEF Moves
      <3> HIDE DEF i
      <3> QED BY <1>1, <3>2, <3>3, <3>4, OutcomeType
    <2> QED BY <1>1, <2>1, <2>2
  <1>5. ~Taken(p)' /\ ~Draining(p)'
    BY <1>4 DEF Taken, Draining, Processing, Work
  <1>6. QueueState(p)'
    BY <1>1, <1>2, <1>3, <1>4 DEF QueueState, Processing, Unchecked, Empty, Work, Settled
  <1> QED BY <1>1, <1>3, <1>4, <1>5, <1>6, NoPlainEvent, PlainMove DEF Settled

\* A step between two points where the queue waits behind the signal in hand.
LEMMA CarriedHooks ==
    ASSUME HookInv, NEW p \in Procs, Framed(p), Plain(p), call[p].pc \in Processing,
           engine'[p].queue = engine[p].queue, engine'[p].depth = engine[p].depth,
           engine'[p].draining <=> engine[p].draining,
           call'[p].pc \in (Processing \ {"accept"}) \cup {"queue", "job"}, call'[p].id = call[p].id,
           call'[p].pc # "queue" => Work(p)'.src = Work(p).src /\ call'[p].outer = call[p].outer,
           call'[p].pc \in {"unhandled", "refuse", "guard", "exit"} => call[p].pc \in {"accept", "guard"},
           call'[p].pc = "queue" => call'[p].outer.src # "hook",
           call'[p].pc = "job" => engine[p].draining,
           call'[p].pc = "queue" => (engine[p].draining => call'[p].outer = call[p].outer)
    PROVE  HookInv'
  <1>1. Base /\ QueueState(p)
    BY HookParts
  <1>2. ~Unchecked(p) /\ ~Taken(p) /\ Draining(p)
    BY DEF Unchecked, Taken, Draining, Processing
  <1>3. ~Unchecked(p)' /\ ~Taken(p)' /\ call'[p].pc # "idle"
    BY DEF Unchecked, Taken, Processing
  <1>4. (engine[p].draining <=> Work(p).src = "hook") /\ (engine[p].draining => call[p].outer.src # "hook")
    BY <1>1 DEF QueueState
  <1>5. QueueState(p)'
    <2>1. engine'[p].depth <= MaxDrain
      BY <1>1 DEF QueueState
    <2>2. ~engine'[p].draining => engine'[p].depth = 0
      BY <1>1 DEF QueueState
    <2>3. call'[p].pc \notin {"idle", "drain", "start", "running"}
      BY DEF Processing
    <2>4. call'[p].pc \in Processing \cup {"emit", "job"} => (engine'[p].draining <=> Work(p)'.src = "hook")
      BY <1>4 DEF Processing
    <2>5. (call'[p].pc = "queue" \/ engine'[p].draining) => call'[p].outer.src # "hook"
      BY <1>4
    <2>6. Empty(p)' => engine'[p].queue = <<>>
      <3>1. ASSUME Empty(p)' PROVE Empty(p)
        BY <1>4, <3>1 DEF Empty, Processing, Work
      <3> QED BY <1>1, <1>2, <3>1 DEF QueueState
    <2> QED BY <1>3, <2>1, <2>2, <2>3, <2>4, <2>5, <2>6 DEF QueueState, Work
  <1>6. call[p].pc # "idle"
    BY DEF Processing
  <1> QED BY <1>2, <1>3, <1>5, <1>6, PlainMove

\* A step of the runtime action of the state.
LEMMA ActionHooks ==
    ASSUME HookInv, NEW p \in Procs, StartAction(p) \/ CompleteAction(p)
    PROVE  HookInv'
  <1>1. Base /\ QueueState(p) /\ call[p].pc \in {"start", "running"}
    BY HookParts DEF StartAction, CompleteAction
  <1>2. Settled(p) /\ ~engine[p].draining /\ engine[p].depth = 0
    <2>1. Empty(p) /\ ~Unchecked(p)
      BY <1>1 DEF Empty, Unchecked
    <2> QED BY <1>1, <2>1, SettledFacts DEF QueueState
  <1>3. /\ Framed(p) /\ Plain(p) /\ engine'[p].queue = engine[p].queue /\ engine'[p].depth = engine[p].depth
        /\ (engine'[p].draining <=> engine[p].draining) /\ call'[p].id = call[p].id
        /\ \/ call'[p].pc = "running"
           \/ call'[p].pc = "emit" /\ call'[p].work.src = "runtime_action"
    <2>1. CASE StartAction(p)
      <3> DEFINE e == Event("RUNTIME_ACTION_STARTED", From(p), NoSignal, 0, call[p].id)
      <3>1. Framed(p) /\ Appends(p, e) /\ Moves(p, At(p, "running"))
        BY <1>1, <2>1, StartActionShape
      <3>2. e.by = call[p].id /\ e.type = "RUNTIME_ACTION_STARTED"
        BY DEF Event
      <3> HIDE DEF e
      <3>3. Plain(p)
        BY <3>1, <3>2, PlainEvent DEF Appends, Marked
      <3>4. call'[p].pc = "running" /\ call'[p].id = call[p].id
        BY <1>1, <3>1, AtType DEF Moves, PCs
      <3> QED BY <1>1, <3>1, <3>3, <3>4, AppendsEngine, FramedParts
    <2>2. CASE CompleteAction(p)
      <3>1. Framed(p) /\ From(p) \in Runtime
        BY <1>1, <2>2, CompleteActionShape
      <3>2. PICK o \in Observations :
              /\ Appends(p, Event("RUNTIME_ACTION_COMPLETED", From(p), DecidedOutcome(From(p), o), 0, call[p].id))
              /\ Moves(p, ToOutcome(p, DecidedOutcome(From(p), o), Len(log) + 1))
        BY <1>1, <2>2, CompleteActionShape
      <3> DEFINE g == DecidedOutcome(From(p), o)
      <3> DEFINE e == Event("RUNTIME_ACTION_COMPLETED", From(p), g, 0, call[p].id)
      <3>3. g \in Signals \cup {NoSignal} /\ Len(log) + 1 \in Nat
        <4>1. Action[From(p)].success \in Signals /\ Action[From(p)].failure \in Signals /\ Len(log) \in Nat
          BY <1>1, <3>1, BaseFacts, ConstantFacts
        <4> QED BY <4>1 DEF DecidedOutcome
      <3>4. e.by = call[p].id /\ e.type = "RUNTIME_ACTION_COMPLETED" /\ Appends(p, e) /\ call'[p] = ToOutcome(p, g, Len(log) + 1)
        BY <3>2 DEF Event, Moves
      <3> HIDE DEF e, g
      <3>5. Plain(p)
        BY <3>4, PlainEvent DEF Appends, Marked
      <3>6. call'[p].pc = "emit" /\ call'[p].work.src = "runtime_action" /\ call'[p].id = call[p].id
        BY <1>1, <3>3, <3>4, OutcomeType
      <3> QED BY <1>1, <3>1, <3>4, <3>5, <3>6, AppendsEngine, FramedParts
    <2> QED BY <2>1, <2>2
  <1>4. ~Taken(p)' /\ ~Draining(p)' /\ call'[p].pc # "idle"
    BY <1>3 DEF Taken, Draining, Processing, Work
  <1>5. QueueState(p)'
    BY <1>2, <1>3, ConstantFacts DEF QueueState, Processing, Unchecked, Empty, Work, Settled
  <1>6. engine'[p].queue = <<>> /\ call[p].pc # "idle"
    BY <1>1, <1>2, <1>3 DEF Settled
  <1> QED BY <1>2, <1>3, <1>4, <1>5, <1>6, PlainMove

\* A guard is asked and answers.
LEMMA GuardHooks ==
    ASSUME HookInv, NEW p \in Procs, BeginGuard(p) \/ GuardReturns(p)
    PROVE  HookInv'
  <1>1. Base /\ QueueState(p) /\ call[p].pc \in {"accept", "guard"}
    BY HookParts DEF BeginGuard, GuardReturns
  <1>2. /\ Framed(p) /\ Plain(p) /\ engine'[p].queue = engine[p].queue /\ engine'[p].depth = engine[p].depth
        /\ (engine'[p].draining <=> engine[p].draining) /\ call'[p].id = call[p].id
        /\ Work(p)'.src = Work(p).src /\ call'[p].outer = call[p].outer /\ call'[p].pc \in {"guard", "exit", "refuse"}
    <2>1. CASE BeginGuard(p)
      <3> DEFINE w == [call[p].work EXCEPT !.version = Len(log)]
      <3>1. /\ Framed(p) /\ New = {} /\ engine'[p] = engine[p]
            /\ call'[p] = [call[p] EXCEPT !.pc = "guard", !.work = w]
        BY <1>1, <2>1, BeginGuardShape DEF Still, Moves
      <3>2. w.src = call[p].work.src
        BY <1>1, BaseFacts DEF Works
      <3> HIDE DEF w
      <3>3. call'[p].pc = "guard" /\ call'[p].id = call[p].id /\ call'[p].outer = call[p].outer /\ call'[p].work = w
        BY <1>1, <3>1, BaseFacts DEF Calls
      <3> QED BY <3>1, <3>2, <3>3, NoPlainEvent DEF Work
    <2>2. CASE GuardReturns(p)
      <3> DEFINE e == Event("GUARD_EVALUATED", From(p), Work(p).sig, Work(p).ev, call[p].id)
      <3>1. Framed(p) /\ Appends(p, e) /\ (Moves(p, At(p, "exit")) \/ Moves(p, At(p, "refuse")))
        BY <1>1, <2>2, GuardReturnsShape
      <3>2. e.by = call[p].id /\ e.type = "GUARD_EVALUATED"
        BY DEF Event
      <3> HIDE DEF e
      <3>3. Plain(p)
        BY <3>1, <3>2, PlainEvent DEF Appends, Marked
      <3>4. /\ call'[p].pc \in {"exit", "refuse"} /\ call'[p].id = call[p].id /\ call'[p].work = call[p].work
            /\ call'[p].outer = call[p].outer
        BY <1>1, <3>1, AtType DEF Moves, PCs
      <3> QED BY <1>1, <3>1, <3>3, <3>4, AppendsEngine, FramedParts DEF Work
    <2> QED BY <2>1, <2>2
  <1> QED BY <1>1, <1>2, CarriedHooks DEF Processing

\* A signal that did not transition.
LEMMA FollowedHooks ==
    ASSUME HookInv, NEW p \in Procs, call[p].pc \in {"unhandled", "refuse"}, Framed(p), Plain(p), Followed(p),
           engine'[p].queue = engine[p].queue, engine'[p].depth = engine[p].depth,
           engine'[p].draining <=> engine[p].draining
    PROVE  HookInv'
  <1>1. Base /\ QueueState(p) /\ call[p].pc \in Processing /\ call[p].pc # "idle"
    BY HookParts DEF Processing
  <1>2. CASE engine[p].draining /\ Moves(p, At(p, "queue"))
    <2>1. call'[p].pc = "queue" /\ call'[p].id = call[p].id /\ call'[p].outer = call[p].outer
      BY <1>1, <1>2, AtType DEF Moves, PCs
    <2>2. call[p].outer.src # "hook"
      BY <1>1, <1>2 DEF QueueState
    <2> QED BY <1>1, <2>1, <2>2, CarriedHooks
  <1>3. CASE ~engine[p].draining
    <2>1. Work(p).src # "hook" /\ engine[p].depth = 0 /\ Settled(p)
      <3>1. Work(p).src # "hook" /\ engine[p].depth = 0
        BY <1>1, <1>3 DEF QueueState
      <3>2. Empty(p) /\ ~Unchecked(p)
        BY <3>1 DEF Empty, Unchecked
      <3> QED BY <1>1, <3>1, <3>2, SettledFacts
    <2>2. CASE Moves(p, ToOwnSignal(p))
      <3>1. call'[p].pc = "emit" /\ call'[p].work.src = "caller" /\ call'[p].id = call[p].id
        BY <1>1, <2>2, OwnSignalType DEF Moves
      <3>2. ~Taken(p)' /\ ~Draining(p)' /\ call'[p].pc # "idle"
        BY <3>1 DEF Taken, Draining, Processing, Work
      <3>3. QueueState(p)' /\ engine'[p].queue = <<>>
        BY <1>1, <1>3, <2>1, <3>1, ConstantFacts DEF QueueState, Processing, Unchecked, Empty, Work, Settled
      <3> QED BY <1>1, <2>1, <3>1, <3>2, <3>3, PlainMove
    <2>3. CASE Ends(p, IF Work(p).src = "caller" THEN "refused" ELSE "ok")
      <3> DEFINE r == IF Work(p).src = "caller" THEN "refused" ELSE "ok"
      <3>1. r \in Results /\ Ends(p, r)
        BY <2>3 DEF Results
      <3> HIDE DEF r
      <3>2. engine'[p].queue = <<>> /\ ~engine'[p].draining /\ engine'[p].depth = 0
        BY <1>3, <2>1 DEF Settled
      <3> QED BY <1>1, <2>1, <3>1, <3>2, PlainEnd
    <2> QED BY <1>3, <2>2, <2>3 DEF Followed
  <1> QED BY <1>2, <1>3 DEF Followed

\* A signal that nothing answers to.
LEMMA UnhandledHooks ==
    ASSUME HookInv, NEW p \in Procs, Unhandled(p)
    PROVE  HookInv'
  <1>1. call[p].pc = "unhandled" /\ Framed(p) /\ New = {} /\ engine'[p] = engine[p] /\ Followed(p)
    BY HookParts, UnhandledShape DEF Still
  <1> QED BY <1>1, NoPlainEvent, FollowedHooks

\* A signal that is refused.
LEMMA RefuseHooks ==
    ASSUME HookInv, NEW p \in Procs, Refuse(p)
    PROVE  HookInv'
  <1> DEFINE e == Event("SIGNAL_REFUSED", From(p), Work(p).sig, Work(p).ev, call[p].id)
  <1>1. Base /\ call[p].pc = "refuse" /\ Framed(p) /\ Followed(p) /\ Appends(p, e)
    BY HookParts, RefuseShape
  <1>2. e.by = call[p].id /\ e.type = "SIGNAL_REFUSED"
    BY DEF Event
  <1> HIDE DEF e
  <1>3. Plain(p)
    BY <1>1, <1>2, PlainEvent DEF Appends, Marked
  <1> QED BY <1>1, <1>3, AppendsEngine, FramedParts, FollowedHooks

\* The transition itself.
LEMMA TransitHooks ==
    ASSUME HookInv, NEW p \in Procs, Transit(p)
    PROVE  HookInv'
  <1> DEFINE e == Event("STATE_TRANSITION", To(p), Work(p).sig, Work(p).ev, call[p].id)
  <1> DEFINE b == engine[p].stale \/ Len(log) > engine[p].seen
  <1>1. /\ Base /\ call[p].pc = "transit" /\ Framed(p) /\ Moves(p, At(p, "enter"))
        /\ New = {Len(log) + 1} /\ log'[Len(log) + 1] = e
        /\ engine'[p] = [engine[p] EXCEPT !.state = To(p), !.stale = b, !.seen = Len(log) + 1]
    BY HookParts, TransitShape
  <1>2. e.by = call[p].id /\ e.type = "STATE_TRANSITION"
    BY DEF Event
  <1> HIDE DEF e, b
  <1>3. Plain(p)
    BY <1>1, <1>2, PlainEvent DEF Marked
  <1>4. engine'[p].queue = engine[p].queue /\ engine'[p].depth = engine[p].depth /\ (engine'[p].draining <=> engine[p].draining)
    BY <1>1, BaseFacts DEF Engines
  <1>5. call'[p].pc = "enter" /\ call'[p].id = call[p].id /\ call'[p].work = call[p].work /\ call'[p].outer = call[p].outer
    BY <1>1, AtType DEF Moves, PCs
  <1> QED BY <1>1, <1>3, <1>4, <1>5, CarriedHooks DEF Processing, Work

\* The snapshot.
LEMMA SaveSnapshotHooks ==
    ASSUME HookInv, NEW p \in Procs, SaveSnapshot(p)
    PROVE  HookInv'
  <1>1. /\ Base /\ call[p].pc = "snapshot" /\ Framed(p) /\ Moves(p, At(p, "completed")) /\ New = {} /\ engine'[p] = engine[p]
    BY HookParts, SaveSnapshotShape DEF Still
  <1>2. call'[p].pc = "completed" /\ call'[p].id = call[p].id /\ call'[p].work = call[p].work /\ call'[p].outer = call[p].outer
    BY <1>1, AtType DEF Moves, PCs
  <1>3. Plain(p)
    BY <1>1, NoPlainEvent
  <1> QED BY <1>1, <1>2, <1>3, CarriedHooks DEF Processing, Work

\* The outermost transition starts its drain at depth 0.
LEMMA CompletesHooks ==
    ASSUME HookInv, NEW p \in Procs, Completes(p)
    PROVE  HookInv'
  <1> DEFINE e == Event("TRANSITION_COMPLETED", From(p), Work(p).sig, Work(p).ev, call[p].id)
  <1> DEFINE C == [call[p] EXCEPT !.pc = "queue", !.outer = Work(p)]
  <1>1. /\ Base /\ QueueState(p) /\ call[p].pc = "completed" /\ Framed(p) /\ Appends(p, e)
        /\ \/ engine[p].draining /\ Moves(p, At(p, "job"))
           \/ ~engine[p].draining /\ Moves(p, C)
    BY HookParts, CompletesShape
  <1>2. e.by = call[p].id /\ e.type = "TRANSITION_COMPLETED"
    BY DEF Event
  <1>3. C.pc = "queue" /\ C.id = call[p].id /\ C.outer = Work(p)
    BY <1>1, BaseFacts DEF Calls
  <1> HIDE DEF e, C
  <1>4. Plain(p)
    BY <1>1, <1>2, PlainEvent DEF Appends, Marked
  <1>5. /\ engine'[p].queue = engine[p].queue /\ engine'[p].depth = engine[p].depth
        /\ (engine'[p].draining <=> engine[p].draining)
    BY <1>1, AppendsEngine, FramedParts
  <1>6. CASE engine[p].draining /\ Moves(p, At(p, "job"))
    <2>1. call'[p].pc = "job" /\ call'[p].id = call[p].id /\ call'[p].work = call[p].work /\ call'[p].outer = call[p].outer
      BY <1>1, <1>6, AtType DEF Moves, PCs
    <2> QED BY <1>1, <1>4, <1>5, <1>6, <2>1, CarriedHooks DEF Processing, Work
  <1>7. CASE ~engine[p].draining /\ Moves(p, C)
    <2>1. call'[p].pc = "queue" /\ call'[p].id = call[p].id /\ call'[p].outer = Work(p)
      BY <1>3, <1>7 DEF Moves
    <2>2. Work(p).src # "hook"
      BY <1>1, <1>7 DEF QueueState, Processing
    <2> QED BY <1>1, <1>4, <1>5, <1>7, <2>1, <2>2, CarriedHooks DEF Processing
  <1> QED BY <1>1, <1>6, <1>7

\* The next signal of the queue is in hand.
LEMMA DrainNextHooks ==
    ASSUME HookInv, NEW p \in Procs, DrainNext(p)
    PROVE  HookInv'
  <1>1. /\ Base /\ QueueState(p) /\ call[p].pc = "queue" /\ engine[p].queue # <<>> /\ ~AtLimit(p) /\ Framed(p) /\ New = {}
        /\ engine'[p] = Taking(p) /\ call'[p] = ToHook(p) /\ UNCHANGED results /\ engine[p].depth \in Nat
        /\ engine[p].queue \in Seq(Signals) /\ Base' /\ Extended /\ MaxDrain \in Nat
    BY HookParts, DrainNextShape, FramedParts DEF Moves
  <1>2. /\ engine'[p].queue = Tail(engine[p].queue) /\ engine'[p].draining /\ engine'[p].depth = engine[p].depth + 1
        /\ call'[p].pc = "emit" /\ call'[p].id = call[p].id /\ call'[p].outer = call[p].outer
        /\ call'[p].work.src = "hook" /\ call'[p].work.sig = Head(engine[p].queue)
    BY <1>1, HookType, TakingType
  <1>3. ~Unchecked(p) /\ ~Taken(p) /\ TakenCount(p) = 0 /\ Draining(p)
    BY <1>1 DEF Unchecked, Taken, TakenCount, Draining
  <1>4. ~Unchecked(p)' /\ Taken(p)' /\ TakenCount(p)' = 1
    BY <1>2 DEF Unchecked, Taken, TakenCount, Work
  <1>5. QueueState(p)'
    <2>1. engine'[p].depth <= MaxDrain
      BY <1>1, <1>2 DEF AtLimit
    <2>2. call'[p].outer.src # "hook"
      BY <1>1, <1>2 DEF QueueState
    <2>3. ~Empty(p)'
      BY <1>2 DEF Empty, Work
    <2> QED BY <1>2, <1>4, <2>1, <2>2, <2>3 DEF QueueState, Work, Processing
  <1>6. Len(engine[p].queue) = Len(engine'[p].queue) + 1 /\ Len(engine'[p].queue) \in Nat
        /\ engine[p].queue[1] = Head(engine[p].queue)
        /\ \A k \in 1 .. Len(engine'[p].queue) : k + 1 \in 1 .. Len(engine[p].queue) /\ engine'[p].queue[k] = engine[p].queue[k + 1]
    <2> DEFINE s == engine[p].queue
    <2>1. s \in Seq(Signals) /\ s # <<>>
      BY <1>1
    <2> HIDE DEF s
    <2>2. /\ Len(s) = Len(Tail(s)) + 1 /\ Len(Tail(s)) \in Nat /\ s[1] = Head(s)
          /\ \A k \in 1 .. Len(Tail(s)) : k + 1 \in 1 .. Len(s) /\ Tail(s)[k] = s[k + 1]
      BY <2>1
    <2> QED BY <1>2, <2>2 DEF s
  <1>7. QueueServes(p)'
    <2>1. ASSUME NEW c \in DOMAIN results, call[p].id = c PROVE ServesCall(p, c)'
      <3>1. /\ Raised(c)' = Raised(c) /\ Served(c)' = Served(c) /\ Served(c) \in Nat
            /\ \A n, s : RaisedAs(c, n, s) => RaisedAs(c, n, s)'
        BY <1>1, LedgerSame, SignalSets DEF Untouched
      <3>2. /\ Raised(c) = Served(c) + 0 + Len(engine[p].queue)
            /\ \A k \in 1 .. Len(engine[p].queue) : RaisedAs(c, Served(c) + 0 + k - 1, engine[p].queue[k])
        BY <1>1, <1>3, <2>1, HookParts DEF QueueServes, ServesCall
      <3>3. PICK r : r = Served(c)
        OBVIOUS
      <3>4. PICK s : s = engine[p].queue
        OBVIOUS
      <3>5. PICK q : q = engine'[p].queue
        OBVIOUS
      <3>6. /\ r \in Nat /\ Len(q) \in Nat /\ Len(s) = Len(q) + 1 /\ Raised(c) = r + 0 + Len(s) /\ s[1] = Head(engine[p].queue)
            /\ \A k \in 1 .. Len(q) : k + 1 \in 1 .. Len(s) /\ q[k] = s[k + 1]
            /\ \A k \in 1 .. Len(s) : RaisedAs(c, r + 0 + k - 1, s[k])
        BY <1>6, <3>1, <3>2, <3>3, <3>4, <3>5
      <3>7. Raised(c)' = r + 1 + Len(q)
        BY <3>1, <3>6
      <3>8. RaisedAs(c, r, s[1])'
        <4>1. 1 \in 1 .. Len(s) /\ r + 0 + 1 - 1 = r
          BY <3>6
        <4>2. RaisedAs(c, r, s[1])
          BY <3>6, <4>1
        <4> QED BY <3>1, <4>2
      <3>9. ASSUME NEW k \in 1 .. Len(q), NEW n, NEW g, n = r + 1 + k - 1, g = q[k] PROVE RaisedAs(c, n, g)'
        <4>1. k + 1 \in 1 .. Len(s) /\ g = s[k + 1] /\ n = r + 0 + (k + 1) - 1
          BY <3>6, <3>9
        <4>2. RaisedAs(c, n, g)
          BY <3>6, <4>1
        <4> QED BY <3>1, <4>2
      <3>10. \A g : g = Work(p)'.sig => RaisedAs(c, r, g)'
        BY <1>2, <3>6, <3>8 DEF Work
      <3>11. \A k \in 1 .. Len(q) : \A n, g : (n = r + 1 + k - 1 /\ g = q[k]) => RaisedAs(c, n, g)'
        BY <3>9
      <3>12. r = Served(c)' /\ 1 = TakenCount(p)'
        BY <1>4, <3>1, <3>3
      <3> QED BY <1>4, <3>5, <3>7, <3>10, <3>11, <3>12, ServesAfter
    <2> QED BY <1>1, <1>2, <2>1 DEF QueueServes
  <1>8. DepthCounts(p)'
    <2>1. ASSUME NEW c \in DOMAIN results, call[p].id = c PROVE DepthOf(p, c)'
      <3>1. DepthOf(p, c)
        BY <1>3, <2>1, HookParts DEF DepthCounts
      <3>2. OwnSignals(c)' = OwnSignals(c) /\ \A i : DrainedIn(c, i)' = DrainedIn(c, i)
        BY <1>1, LedgerSame DEF Untouched
      <3>3. \A i : Cardinality(DrainedIn(c, i)) \in Nat
        BY <1>1, SignalSets
      <3> QED BY <1>1, <1>2, <1>3, <1>4, <3>1, <3>2, <3>3 DEF DepthOf, LastOwn
    <2> QED BY <1>1, <1>2, <2>1 DEF DepthCounts
  <1>9. \A c \in DOMAIN results : ~(c = call[p].id /\ results'[c] = "ok")
    BY <1>1, BaseFacts
  <1> QED BY <1>1, <1>5, <1>7, <1>8, <1>9, NoPlainEvent, PlainKeeps DEF OwnInv

\* The drain is over, and with it everything was served.
LEMMA QueueEmptyHooks ==
    ASSUME HookInv, NEW p \in Procs, QueueEmpty(p)
    PROVE  HookInv'
  <1>1. /\ Base /\ QueueState(p) /\ call[p].pc = "queue" /\ engine[p].queue = <<>> /\ Framed(p) /\ New = {}
        /\ engine'[p] = Stopped(p) /\ call'[p] = ToJob(p)
    BY HookParts, QueueEmptyShape DEF Moves
  <1>2. /\ engine'[p].queue = <<>> /\ ~engine'[p].draining /\ engine'[p].depth = 0
        /\ call'[p].pc = "job" /\ call'[p].id = call[p].id /\ call'[p].work = call[p].outer /\ call'[p].outer = call[p].outer
    BY <1>1, StoppedType, ToJobType
  <1>3. call[p].outer.src # "hook" /\ ~Unchecked(p) /\ ~Taken(p)
    BY <1>1 DEF QueueState, Unchecked, Taken
  <1>4. Settled(p)
    <2>1. ASSUME NEW c \in DOMAIN results, c = call[p].id PROVE Raised(c) = Served(c)
      <3>1. ServesCall(p, c) /\ TakenCount(p) = 0
        BY <1>1, <1>3, <2>1, HookParts DEF QueueServes, TakenCount
      <3>2. Raised(c) = Served(c) + 0 + 0
        BY <1>1, <1>3, <3>1 DEF ServesCall
      <3> QED BY <1>1, <3>2, SignalSets
    <2> QED BY <1>1, <2>1 DEF Settled
  <1>5. QueueState(p)'
    BY <1>2, <1>3, ConstantFacts DEF QueueState, Processing, Unchecked, Empty, Work
  <1>6. ~Taken(p)' /\ ~Draining(p)' /\ call'[p].pc # "idle"
    BY <1>2 DEF Taken, Draining, Processing
  <1> QED BY <1>1, <1>2, <1>4, <1>5, <1>6, NoPlainEvent, PlainMove

\* The queue goes on, or the runtime states reached are run.
LEMMA UpdateJobHooks ==
    ASSUME HookInv, NEW p \in Procs, UpdateJob(p)
    PROVE  HookInv'
  <1>1. /\ Base /\ QueueState(p) /\ call[p].pc = "job" /\ Framed(p) /\ New = {} /\ engine'[p] = engine[p] /\ call'[p] = Onward(p)
    BY HookParts, UpdateJobShape DEF Moves, Still
  <1>2. /\ call'[p].id = call[p].id /\ call'[p].outer = call[p].outer /\ call'[p].pc \in {"queue", "drain"}
        /\ (call'[p].pc = "queue" <=> engine[p].draining)
    BY <1>1, OnwardType
  <1>3. ~Unchecked(p) /\ ~Taken(p) /\ ~Taken(p)' /\ call'[p].pc # "idle" /\ Plain(p)
    BY <1>1, <1>2, NoPlainEvent DEF Unchecked, Taken
  <1>4. CASE engine[p].draining
    <2>1. call'[p].pc = "queue" /\ Draining(p) /\ ~Unchecked(p)' /\ ~Empty(p)'
      BY <1>1, <1>2, <1>4 DEF Draining, Unchecked, Empty
    <2>2. QueueState(p)'
      BY <1>1, <1>2, <1>4, <2>1 DEF QueueState, Processing
    <2> QED BY <1>1, <1>2, <1>3, <2>1, <2>2, PlainMove
  <1>5. CASE ~engine[p].draining
    <2>1. call'[p].pc = "drain" /\ ~Draining(p)' /\ Empty(p)
      BY <1>1, <1>2, <1>5 DEF Draining, Processing, Taken, Empty
    <2>2. Settled(p)
      BY <1>1, <1>3, <2>1, SettledFacts
    <2>3. QueueState(p)'
      BY <1>1, <1>2, <1>5, <2>1, <2>2 DEF QueueState, Processing, Settled
    <2> QED BY <1>1, <1>2, <1>3, <2>1, <2>2, <2>3, PlainMove DEF Settled
  <1> QED BY <1>4, <1>5

\* The queue is dropped and the call fails, so it does not promise to have served it.
LEMMA CycleDetectedHooks ==
    ASSUME HookInv, NEW p \in Procs, CycleDetected(p)
    PROVE  HookInv'
  <1> DEFINE e == Event("SIGNAL_QUEUE_CYCLE_DETECTED", From(p), NoSignal, 0, call[p].id)
  <1>1. /\ Base /\ call[p].pc = "queue" /\ Framed(p) /\ New = {Len(log) + 1} /\ log'[Len(log) + 1] = e
        /\ engine'[p] = CutShort(p) /\ Ends(p, "failed")
    BY HookParts, CycleDetectedShape
  <1>2. e.by = call[p].id /\ e.type = "SIGNAL_QUEUE_CYCLE_DETECTED"
    BY DEF Event
  <1> HIDE DEF e
  <1>3. Plain(p)
    BY <1>1, <1>2, PlainEvent DEF Marked
  <1>4. engine'[p].queue = <<>> /\ ~engine'[p].draining /\ engine'[p].depth = 0
    BY <1>1, CutShortType
  <1> QED BY <1>1, <1>3, <1>4, PlainEnd DEF Results

\* The queue dies with its process and with the call.
LEMMA CrashHooks ==
    ASSUME HookInv, NEW p \in Procs, Crash(p)
    PROVE  HookInv'
  <1>1. Base /\ call[p].pc # "idle" /\ Framed(p) /\ New = {} /\ engine'[p] = Opened /\ Ends(p, "died")
    BY HookParts, CrashShape
  <1>2. engine'[p].queue = <<>> /\ ~engine'[p].draining /\ engine'[p].depth = 0
    BY <1>1, OpenedType
  <1> QED BY <1>1, <1>2, NoPlainEvent, PlainEnd DEF Results

\* What another program appends belongs to no call.
LEMMA ForeignHooks ==
    ASSUME HookInv, Foreign
    PROVE  HookInv'
  <1> DEFINE e == Event("FOREIGN", Rehydrated, NoSignal, 0, 0)
  <1>1. /\ Base /\ Base' /\ Extended /\ New = {Len(log) + 1} /\ log'[Len(log) + 1] = e
        /\ UNCHANGED <<snapshot, job, engine, call, results>>
    BY ForeignShape DEF HookInv
  <1>2. e.type = "FOREIGN"
    BY DEF Event
  <1> HIDE DEF e
  <1>3. ASSUME NEW c PROVE Untouched(c)
    BY <1>1, <1>2 DEF Untouched, Marked
  <1>4. ASSUME NEW q \in Procs PROVE OwnInv(q)'
    <2>1. HasExternal(q) => HasExternal(q)'
      <3>1. Len(log) <= Len(log') /\ Len(log) \in Nat /\ Len(log') \in Nat /\ engine[q].seen \in Nat
        BY <1>1, BaseFacts DEF Extended, Base, Types
      <3> QED BY <1>1, <3>1 DEF HasExternal
    <2>2. QueueState(q)'
      <3>1. QueueState(q)
        BY HookParts
      <3> QED BY <1>1, <2>1, <3>1 DEF QueueState, Unchecked, Empty, Work
    <2>3. QueueServes(q)'
      <3>1. ASSUME NEW c \in DOMAIN results, call[q].pc # "idle", call[q].id = c PROVE ServesCall(q, c)'
        <4>1. ServesCall(q, c)
          BY <3>1, HookParts DEF QueueServes
        <4>2. Raised(c)' = Raised(c) /\ Served(c)' = Served(c) /\ \A n, s : RaisedAs(c, n, s) => RaisedAs(c, n, s)'
          BY <1>1, <1>3, LedgerSame
        <4>3. (Unchecked(q)' <=> Unchecked(q)) /\ (Taken(q)' <=> Taken(q)) /\ TakenCount(q)' = TakenCount(q) /\ Work(q)' = Work(q)
          BY <1>1 DEF Unchecked, Taken, TakenCount, Work
        <4> QED BY <1>1, <4>1, <4>2, <4>3 DEF ServesCall
      <3> QED BY <1>1, <3>1 DEF QueueServes
    <2>4. DepthCounts(q)'
      <3>1. ASSUME NEW c \in DOMAIN results, Draining(q), call[q].id = c PROVE DepthOf(q, c)'
        <4>1. DepthOf(q, c)
          BY <3>1, HookParts DEF DepthCounts
        <4>2. OwnSignals(c)' = OwnSignals(c) /\ \A i : DrainedIn(c, i)' = DrainedIn(c, i)
          BY <1>1, <1>3, LedgerSame
        <4>3. TakenCount(q)' = TakenCount(q)
          BY <1>1 DEF Taken, TakenCount, Work
        <4> QED BY <1>1, <4>1, <4>2, <4>3 DEF DepthOf, LastOwn
      <3>2. Draining(q)' => Draining(q)
        BY <1>1 DEF Draining, Taken, Work
      <3> QED BY <1>1, <3>1, <3>2 DEF DepthCounts
    <2> QED BY <2>2, <2>3, <2>4 DEF OwnInv
  <1>5. ASSUME NEW c \in DOMAIN results PROVE HooksInOrder(c)' /\ (results[c] = "ok" => Raised(c)' = Served(c)')
    <2>1. HooksInOrder(c) /\ (results[c] = "ok" => Raised(c) = Served(c))
      BY DEF HookInv
    <2> QED BY <1>1, <1>3, <2>1, LedgerSame
  <1>6. ASSUME NEW c \in Nat PROVE CyclesCut(c)'
    <2>1. CyclesCut(c)
      BY DEF HookInv
    <2> QED BY <1>1, <1>3, <2>1, LedgerSame
  <1> QED BY <1>1, <1>4, <1>5, <1>6 DEF HookInv

-----------------------------------------------------------------------------
(* Steps that emit a signal or raise some *)

\* One event more, at the end.
LEMMA OneMore ==
    ASSUME NEW n \in Nat, NEW S, S \subseteq 1 .. n
    PROVE  /\ Cardinality(S \cup {n + 1}) = Cardinality(S) + 1
           /\ \A i \in 1 .. (n + 1) : {j \in S \cup {n + 1} : j < i} = {j \in S : j < i}
           /\ {j \in S : j < n + 1} = S
  <1>1. (n + 1) .. (n + 1) = {n + 1}
    OBVIOUS
  <1>2. Cardinality(S \cup ((n + 1) .. (n + 1))) = Cardinality(S) + 1
    BY CountExtended
  <1>3. \A i \in 1 .. (n + 1) : {j \in S \cup {n + 1} : j < i} = {j \in S : j < i}
    OBVIOUS
  <1>4. {j \in S : j < n + 1} = S
    <2>1. ASSUME NEW j \in S PROVE j < n + 1
      OBVIOUS
    <2> QED BY <2>1
  <1> QED BY <1>1, <1>2, <1>3, <1>4

\* The ledger after a signal.
LEMMA EmitSets ==
    ASSUME HookInv, NEW p \in Procs, Emit(p), NEW c, c = call[p].id
    PROVE  /\ Base /\ Base' /\ Extended /\ Framed(p) /\ OwnEvents(p) /\ c \in DOMAIN results
           /\ New = {Len(log) + 1} /\ log'[Len(log) + 1].sig = Work(p).sig /\ Len(log') = Len(log) + 1
           /\ HookEvents(c)' = HookEvents(c)
           /\ Work(p).src = "hook" => OwnSignals(c)' = OwnSignals(c) /\ HookSignals(c)' = HookSignals(c) \cup {Len(log) + 1}
           /\ Work(p).src # "hook" => OwnSignals(c)' = OwnSignals(c) \cup {Len(log) + 1} /\ HookSignals(c)' = HookSignals(c)
  <1>1. Base /\ call[p].pc = "emit" /\ Framed(p) /\ Appends(p, SignalEvent(p))
    BY HookParts, EmitShape
  <1>2. Base' /\ Extended
    BY <1>1, FramedParts
  <1> DEFINE e == SignalEvent(p)
  <1>3. e.type = "SIGNAL_EMITTED" /\ e.sig = Work(p).sig /\ e.by = c /\ e.src = Work(p).src
    BY <1>1, SignalEventType
  <1>4. New = {Len(log) + 1} /\ log'[Len(log) + 1] = e
    BY <1>1 DEF Appends
  <1> HIDE DEF e
  <1>5. OwnEvents(p)
    BY <1>3, <1>4 DEF OwnEvents
  <1>6. /\ {i \in New : log'[i].by = c /\ log'[i].type \in {"STATE_ENTRY_HOOK", "STATE_EXIT_HOOK"}} = {}
        /\ Work(p).src = "hook" =>
            /\ {i \in New : log'[i].by = c /\ log'[i].type = "SIGNAL_EMITTED" /\ log'[i].src = "hook"} = {Len(log) + 1}
            /\ {i \in New : log'[i].by = c /\ log'[i].type = "SIGNAL_EMITTED" /\ log'[i].src # "hook"} = {}
        /\ Work(p).src # "hook" =>
            /\ {i \in New : log'[i].by = c /\ log'[i].type = "SIGNAL_EMITTED" /\ log'[i].src = "hook"} = {}
            /\ {i \in New : log'[i].by = c /\ log'[i].type = "SIGNAL_EMITTED" /\ log'[i].src # "hook"} = {Len(log) + 1}
    <2>1. \A i \in New : log'[i].by = c /\ log'[i].type = "SIGNAL_EMITTED" /\ log'[i].src = Work(p).src
      BY <1>3, <1>4
    <2> QED BY <1>4, <2>1
  <1> DEFINE A == {i \in New : log'[i].by = c /\ log'[i].type \in {"STATE_ENTRY_HOOK", "STATE_EXIT_HOOK"}}
  <1> DEFINE B == {i \in New : log'[i].by = c /\ log'[i].type = "SIGNAL_EMITTED" /\ log'[i].src = "hook"}
  <1> DEFINE C == {i \in New : log'[i].by = c /\ log'[i].type = "SIGNAL_EMITTED" /\ log'[i].src # "hook"}
  <1>7. HookEvents(c)' = HookEvents(c) \cup A /\ HookSignals(c)' = HookSignals(c) \cup B /\ OwnSignals(c)' = OwnSignals(c) \cup C
    BY <1>1, <1>2, SetsGrow
  <1>8. /\ A = {}
        /\ Work(p).src = "hook" => B = {Len(log) + 1} /\ C = {}
        /\ Work(p).src # "hook" => B = {} /\ C = {Len(log) + 1}
    BY <1>6
  <1> HIDE DEF A, B, C
  <1>9. /\ HookEvents(c)' = HookEvents(c)
        /\ Work(p).src = "hook" => OwnSignals(c)' = OwnSignals(c) /\ HookSignals(c)' = HookSignals(c) \cup {Len(log) + 1}
        /\ Work(p).src # "hook" => OwnSignals(c)' = OwnSignals(c) \cup {Len(log) + 1} /\ HookSignals(c)' = HookSignals(c)
    BY <1>7, <1>8
  <1> QED BY <1>1, <1>2, <1>3, <1>4, <1>5, <1>9, AppendsEngine, BaseFacts

\* The call and the engine after a signal.
LEMMA EmitCall ==
    ASSUME HookInv, NEW p \in Procs, Emit(p)
    PROVE  /\ call[p].pc = "emit" /\ call'[p].pc \in {"accept", "unhandled", "refuse"} /\ call'[p].id = call[p].id
           /\ call'[p].work.src = Work(p).src /\ call'[p].outer = call[p].outer /\ UNCHANGED results
           /\ engine'[p].queue = engine[p].queue /\ engine'[p].depth = engine[p].depth
           /\ (engine'[p].draining <=> engine[p].draining)
           /\ ~Unchecked(p)' /\ ~Taken(p)' /\ TakenCount(p)' = 0 /\ QueueState(p)'
           /\ Work(p).src # "hook" => Settled(p)
  <1>1. /\ Base /\ QueueState(p) /\ call[p].pc = "emit" /\ ~(Work(p).src = "caller" /\ HasExternal(p)) /\ Framed(p)
        /\ Appends(p, SignalEvent(p)) /\ Moves(p, Emitted(p))
    BY HookParts, EmitShape
  <1>2. /\ engine'[p].queue = engine[p].queue /\ engine'[p].depth = engine[p].depth
        /\ (engine'[p].draining <=> engine[p].draining)
    BY <1>1, FramedParts, AppendsEngine
  <1>3. /\ call'[p].pc \in {"accept", "unhandled", "refuse"} /\ call'[p].id = call[p].id
        /\ call'[p].work.src = Work(p).src /\ call'[p].outer = call[p].outer /\ UNCHANGED results
    BY <1>1, EmittedType DEF Moves
  <1>4. ~Unchecked(p)' /\ ~Taken(p)' /\ TakenCount(p)' = 0
    BY <1>3 DEF Unchecked, Taken, TakenCount
  <1>5. Work(p).src # "hook" => Settled(p)
    <2>1. ASSUME Work(p).src # "hook" PROVE Settled(p)
      <3>1. Empty(p) /\ (Unchecked(p) => ~HasExternal(p))
        BY <1>1, <2>1 DEF Empty, Unchecked
      <3> QED BY <1>1, <3>1, SettledFacts
    <2> QED BY <2>1
  <1>6. QueueState(p)'
    <2>1. engine[p].draining <=> Work(p).src = "hook"
      BY <1>1 DEF QueueState
    <2>2. Empty(p)' => engine'[p].queue = <<>>
      BY <1>2, <1>3, <1>5 DEF Empty, Settled, Work
    <2> QED BY <1>1, <1>2, <1>3, <1>4, <2>1, <2>2 DEF QueueState, Work
  <1> QED BY <1>1, <1>2, <1>3, <1>4, <1>5, <1>6

\* A signal of the call itself: its drain starts anew.
LEMMA EmitOwn ==
    ASSUME HookInv, NEW p \in Procs, Emit(p), Work(p).src # "hook"
    PROVE  HookInv'
  <1>n. PICK n : n = Len(log)
    OBVIOUS
  <1>1. PICK c : c = call[p].id
    OBVIOUS
  <1>2. /\ Base /\ Base' /\ Extended /\ Framed(p) /\ OwnEvents(p) /\ c \in DOMAIN results
        /\ HookEvents(c)' = HookEvents(c) /\ HookSignals(c)' = HookSignals(c) /\ OwnSignals(c)' = OwnSignals(c) \cup {n + 1}
    BY <1>n, <1>1, EmitSets
  <1>3. /\ call[p].pc = "emit" /\ call'[p].id = call[p].id /\ UNCHANGED results /\ Settled(p) /\ QueueState(p)'
        /\ ~Unchecked(p)' /\ TakenCount(p)' = 0 /\ ~Taken(p)' /\ engine'[p].queue = <<>>
        /\ engine'[p].depth \in Nat
    <2>1. engine'[p].queue = engine[p].queue /\ engine'[p].depth = engine[p].depth /\ Settled(p)
      BY EmitCall
    <2> QED BY <2>1, EmitCall, HookParts DEF Settled
  <1>4. /\ HookSignals(c) \subseteq 1 .. n /\ OwnSignals(c) \subseteq 1 .. n /\ n \in Nat
        /\ Raised(c) = Served(c) /\ Served(c) \in Nat
        /\ Raised(c)' = Raised(c) /\ Served(c)' = Served(c) /\ (HooksInOrder(c) => HooksInOrder(c)')
    <2>1. Raised(c) = Served(c)
      BY <1>1, <1>2, <1>3 DEF Settled
    <2> QED BY <1>n, <1>2, <2>1, SignalSets, HooksSame
  <1>5. DrainedIn(c, n + 1)' = {}
    BY <1>2, <1>4 DEF DrainedIn
  <1>6. ASSUME NEW i \in OwnSignals(c) PROVE DrainedIn(c, i)' = DrainedIn(c, i)
    BY <1>2, <1>4 DEF DrainedIn
  <1>7. Cardinality(DrainedIn(c, n + 1))' = 0
    BY <1>5, FS_EmptySet
  <1>8. QueueServes(p)'
    <2>1. Len(<<>>) = 0 /\ Served(c)' \in Nat
      BY <1>4
    <2>2. Raised(c)' = Served(c)' + 0 + Len(<<>>)
      BY <1>4, <2>1
    <2>3. \A k \in 1 .. Len(<<>>) : FALSE
      BY <2>1
    <2>4. PICK r : r = Served(c)'
      OBVIOUS
    <2>5. \A k \in 1 .. Len(<<>>) : \A m, g : (m = r + 0 + k - 1 /\ g = <<>>[k]) => RaisedAs(c, m, g)'
      BY <2>3
    <2>6. Raised(c)' = r + 0 + Len(<<>>) /\ 0 = TakenCount(p)' /\ <<>> = engine'[p].queue
      BY <1>3, <2>2, <2>4
    <2>7. ServesCall(p, c)'
      BY <1>3, <2>4, <2>5, <2>6, ServesAfter
    <2> QED BY <1>1, <1>3, <2>7 DEF QueueServes
  <1>9. DepthCounts(p)'
    <2>1. ASSUME NEW i \in OwnSignals(c)', LastOwn(c, i)' PROVE Cardinality(DrainedIn(c, i))' + TakenCount(p)' <= engine'[p].depth
      <3>1. n + 1 <= i
        BY <1>2, <2>1 DEF LastOwn
      <3>2. i = n + 1
        BY <1>2, <1>4, <3>1
      <3> QED BY <1>3, <1>7, <3>2
    <2> QED BY <1>1, <1>3, <2>1 DEF DepthCounts, DepthOf
  <1>10. CyclesCut(c)'
    <2>1. ASSUME NEW i \in OwnSignals(c)' PROVE Cardinality(DrainedIn(c, i))' <= MaxDrain
      <3>1. CASE i = n + 1
        BY <1>7, <3>1, ConstantFacts
      <3>2. CASE i \in OwnSignals(c)
        <4>1. call[p].id \in Nat
          BY <1>2, BaseFacts
        <4>2. CyclesCut(c)
          BY <1>1, <4>1 DEF HookInv
        <4> QED BY <1>6, <3>2, <4>2 DEF CyclesCut
      <3> QED BY <1>2, <3>1, <3>2
    <2> QED BY <2>1 DEF CyclesCut
  <1>11. HooksInOrder(c)' /\ (results'[c] = "ok" => Raised(c)' = Served(c)')
    <2>1. HooksInOrder(c)
      BY <1>2 DEF HookInv
    <2> QED BY <1>4, <2>1
  <1> QED BY <1>1, <1>2, <1>3, <1>8, <1>9, <1>10, <1>11, StepKeeps DEF OwnInv

\* A signal that a hook raised: the next one in order, and one more of this drain.
LEMMA EmitHook ==
    ASSUME HookInv, NEW p \in Procs, Emit(p), Work(p).src = "hook"
    PROVE  HookInv'
  <1>n. PICK n : n = Len(log)
    OBVIOUS
  <1>1. PICK c : c = call[p].id
    OBVIOUS
  <1>2. /\ Base /\ Base' /\ Extended /\ Framed(p) /\ OwnEvents(p) /\ c \in DOMAIN results /\ log'[n + 1].sig = Work(p).sig
        /\ HookEvents(c)' = HookEvents(c) /\ HookSignals(c)' = HookSignals(c) \cup {n + 1} /\ OwnSignals(c)' = OwnSignals(c)
    BY <1>n, <1>1, EmitSets
  <1>3. /\ call[p].pc = "emit" /\ call'[p].id = call[p].id /\ UNCHANGED results /\ QueueState(p)'
        /\ ~Unchecked(p)' /\ TakenCount(p)' = 0 /\ ~Taken(p)' /\ engine'[p].queue = engine[p].queue
        /\ engine'[p].depth = engine[p].depth /\ engine[p].depth \in Nat /\ engine[p].depth <= MaxDrain /\ MaxDrain \in Nat
    BY EmitCall, HookParts DEF QueueState
  <1>4. ~Unchecked(p) /\ Taken(p) /\ TakenCount(p) = 1 /\ Draining(p)
    BY <1>3 DEF Unchecked, Taken, TakenCount, Draining
  <1>5. /\ HookSignals(c) \subseteq 1 .. n /\ HookEvents(c) \subseteq 1 .. n /\ OwnSignals(c) \subseteq 1 .. n /\ n \in Nat
        /\ Served(c) \in Nat /\ Raised(c)' = Raised(c) /\ \A m, g : RaisedAs(c, m, g) => RaisedAs(c, m, g)'
    <2>1. Raised(c)' = Raised(c) /\ \A m, g : RaisedAs(c, m, g) => RaisedAs(c, m, g)'
      BY <1>2, RaisedStays DEF Raised
    <2> QED BY <1>n, <1>2, <2>1, SignalSets
  <1>6. /\ Raised(c) = Served(c) + 1 + Len(engine[p].queue)
        /\ RaisedAs(c, Served(c), Work(p).sig)
        /\ \A k \in 1 .. Len(engine[p].queue) : RaisedAs(c, Served(c) + 1 + k - 1, engine[p].queue[k])
    <2>1. ServesCall(p, c)
      BY <1>1, <1>2, <1>3, HookParts DEF QueueServes
    <2> QED BY <1>4, <2>1 DEF ServesCall
  <1>7. /\ Served(c)' = Served(c) + 1
        /\ \A i \in 1 .. (n + 1) : {j \in HookSignals(c)' : j < i} = {j \in HookSignals(c) : j < i}
        /\ {j \in HookSignals(c) : j < n + 1} = HookSignals(c)
    BY <1>2, <1>5, OneMore DEF Served
  <1>8. QueueServes(p)'
    <2>1. PICK r : r = Served(c) + 1
      OBVIOUS
    <2>2. PICK q : q = engine[p].queue
      OBVIOUS
    <2>3. /\ Len(q) \in Nat /\ r \in Nat /\ Raised(c)' = r + 0 + Len(q) /\ r = Served(c)' /\ q = engine'[p].queue
          /\ 0 = TakenCount(p)'
      <3>1. Len(engine[p].queue) \in Nat
        BY HookParts
      <3> QED BY <1>3, <1>5, <1>6, <1>7, <2>1, <2>2, <3>1
    <2>4. \A k \in 1 .. Len(q) : \A m, g : (m = r + 0 + k - 1 /\ g = q[k]) => RaisedAs(c, m, g)'
      <3>1. ASSUME NEW k \in 1 .. Len(q) PROVE RaisedAs(c, r + 0 + k - 1, q[k])'
        <4>1. Served(c) + 1 + k - 1 = r + 0 + k - 1
          BY <1>5, <2>1
        <4>2. RaisedAs(c, r + 0 + k - 1, q[k])
          BY <1>6, <2>2, <4>1
        <4> QED BY <1>5, <4>2
      <3> QED BY <3>1
    <2>5. Taken(p)' => \A g : g = Work(p)'.sig => RaisedAs(c, r, g)'
      BY <1>3
    <2>6. ServesCall(p, c)'
      <3>1. r = Served(c)' /\ 0 = TakenCount(p)' /\ q = engine'[p].queue /\ Raised(c)' = r + 0 + Len(q) /\ ~Unchecked(p)'
        BY <1>3, <2>3
      <3> QED BY <2>4, <2>5, <3>1, ServesAfter
    <2> QED BY <1>1, <1>3, <2>6 DEF QueueServes
  <1>9. ASSUME NEW i \in OwnSignals(c), LastOwn(c, i)
        PROVE  Cardinality(DrainedIn(c, i))' <= engine[p].depth
    <2>1. DrainedIn(c, i)' = DrainedIn(c, i) \cup {n + 1}
      <3>1. i < n + 1 /\ \A k \in OwnSignals(c) : k <= i
        BY <1>5, <1>9 DEF LastOwn
      <3> QED BY <1>2, <3>1 DEF DrainedIn
    <2>2. DrainedIn(c, i) \subseteq 1 .. n /\ Cardinality(DrainedIn(c, i)) \in Nat
      BY <1>n, <1>2, SignalSets
    <2>3. Cardinality(DrainedIn(c, i) \cup {n + 1}) = Cardinality(DrainedIn(c, i)) + 1
      BY <1>5, <2>2, OneMore
    <2>4. Cardinality(DrainedIn(c, i)) + 1 <= engine[p].depth
      <3>1. DepthOf(p, c)
        BY <1>1, <1>2, <1>4, HookParts DEF DepthCounts
      <3> QED BY <1>4, <1>9, <3>1 DEF DepthOf
    <2> QED BY <2>1, <2>3, <2>4
  <1>10. DepthCounts(p)'
    <2>1. ASSUME NEW i \in OwnSignals(c)', LastOwn(c, i)' PROVE Cardinality(DrainedIn(c, i))' + TakenCount(p)' <= engine'[p].depth
      <3>1. i \in OwnSignals(c) /\ LastOwn(c, i)
        BY <1>2, <2>1 DEF LastOwn
      <3>2. Cardinality(DrainedIn(c, i))' <= engine[p].depth
        BY <1>9, <3>1
      <3>3. Cardinality(DrainedIn(c, i))' \in Nat
        <4>1. DrainedIn(c, i)' \subseteq 1 .. (n + 1) /\ n + 1 \in Nat
          BY <1>2, <1>5 DEF DrainedIn
        <4> QED BY <4>1, PositionsFinite, FS_CardinalityType
      <3> QED BY <1>3, <3>2, <3>3
    <2> QED BY <1>1, <1>3, <2>1 DEF DepthCounts, DepthOf
  <1>11. CyclesCut(c)'
    <2>1. ASSUME NEW i \in OwnSignals(c)' PROVE Cardinality(DrainedIn(c, i))' <= MaxDrain
      <3>1. i \in OwnSignals(c)
        BY <1>2
      <3>2. CASE LastOwn(c, i)
        <4>1. Cardinality(DrainedIn(c, i))' \in Nat
          <5>1. DrainedIn(c, i)' \subseteq 1 .. (n + 1) /\ n + 1 \in Nat
            BY <1>2, <1>5 DEF DrainedIn
          <5> QED BY <5>1, PositionsFinite, FS_CardinalityType
        <4> QED BY <1>3, <1>9, <3>1, <3>2, <4>1
      <3>3. CASE ~LastOwn(c, i)
        <4>1. PICK k \in OwnSignals(c) : ~(k <= i)
          BY <3>1, <3>3 DEF LastOwn
        <4>2. DrainedIn(c, i)' = DrainedIn(c, i)
          <5>1. ~(n + 1 < k)
            BY <1>5
          <5> QED BY <1>2, <4>1, <5>1 DEF DrainedIn
        <4>3. CyclesCut(c)
          <5>1. call[p].id \in Nat
            BY <1>2, BaseFacts
          <5> QED BY <1>1, <5>1 DEF HookInv
        <4> QED BY <3>1, <4>2, <4>3 DEF CyclesCut
      <3> QED BY <3>2, <3>3
    <2> QED BY <2>1 DEF CyclesCut
  <1>12. HooksInOrder(c)'
    <2>1. \A i \in 1 .. n : log'[i] = log[i]
      BY <1>n, <1>2, BaseFacts DEF Extended
    <2>2. ASSUME NEW j \in HookSignals(c)
          PROVE  \E i \in HookEvents(c)' :
                     i < j /\ log'[i].sig = log'[j].sig /\ Before(HookEvents(c), i)' = Before(HookSignals(c), j)'
      <3>1. HooksInOrder(c)
        BY <1>2 DEF HookInv
      <3>2. PICK i \in HookEvents(c) : i < j /\ log[i].sig = log[j].sig /\ Before(HookEvents(c), i) = Before(HookSignals(c), j)
        BY <3>1 DEF HooksInOrder
      <3>3. Before(HookEvents(c), i)' = Before(HookEvents(c), i)
        BY <1>2 DEF Before
      <3>4. Before(HookSignals(c), j)' = Before(HookSignals(c), j)
        <4>1. j \in 1 .. (n + 1)
          BY <1>5
        <4> QED BY <1>7, <4>1 DEF Before
      <3>5. log'[i].sig = log'[j].sig
        BY <1>5, <2>1, <3>2
      <3> QED BY <1>2, <3>2, <3>3, <3>4, <3>5
    <2>3. \E i \in HookEvents(c)' : i < n + 1 /\ log'[i].sig = log'[n + 1].sig
                                     /\ Before(HookEvents(c), i)' = Before(HookSignals(c), n + 1)'
      <3>1. PICK i \in HookEvents(c) : Before(HookEvents(c), i) = Served(c) /\ log[i].sig = Work(p).sig
        BY <1>6 DEF RaisedAs
      <3>2. Before(HookEvents(c), i)' = Served(c)
        BY <1>2, <3>1 DEF Before
      <3>3. Before(HookSignals(c), n + 1)' = Served(c)
        <4>1. n + 1 \in 1 .. (n + 1)
          BY <1>5
        <4> QED BY <1>7, <4>1 DEF Before, Served
      <3>4. i < n + 1 /\ log'[i].sig = log'[n + 1].sig
        BY <1>2, <1>5, <2>1, <3>1
      <3> QED BY <1>2, <3>2, <3>3, <3>4
    <2> QED BY <1>2, <2>2, <2>3 DEF HooksInOrder
  <1>13. results'[c] # "ok"
    BY <1>1, <1>2, <1>3, BaseFacts
  <1> QED BY <1>1, <1>2, <1>3, <1>8, <1>10, <1>11, <1>12, <1>13, StepKeeps DEF OwnInv

\* A signal is emitted.
LEMMA EmitHooks ==
    ASSUME HookInv, NEW p \in Procs, Emit(p)
    PROVE  HookInv'
  BY EmitOwn, EmitHook

\* Hooks raise signals: they queue up behind the earlier ones.
LEMMA RaiseHooks ==
    ASSUME HookInv, NEW p \in Procs, call[p].pc \in {"exit", "enter"}, Framed(p),
           NEW t \in {"STATE_EXIT_HOOK", "STATE_ENTRY_HOOK"}, NEW s, NEW sigs \in Seq(Signals), HooksRan(p, t, s, sigs),
           NEW pc \in {"transit", "snapshot"}, Moves(p, At(p, pc))
    PROVE  HookInv'
  <1>n. PICK n : n = Len(log)
    OBVIOUS
  <1>l. PICK l : l = Len(sigs)
    OBVIOUS
  <1>1. PICK c : c = call[p].id
    OBVIOUS
  <1>2. /\ Base /\ Base' /\ Extended /\ QueueState(p) /\ c \in DOMAIN results /\ n \in Nat /\ l \in Nat
        /\ UNCHANGED results /\ engine[p].queue \in Seq(Signals) /\ call[p].pc # "idle"
    BY <1>n, <1>l, <1>1, HookParts, FramedParts, BaseFacts DEF Moves
  <1>3. New = (n + 1) .. (n + l)
    BY <1>n, <1>l DEF HooksRan
  <1>4. ASSUME NEW m \in 1 .. l PROVE log'[n + m].type = t /\ log'[n + m].by = c /\ log'[n + m].sig = sigs[m]
    <2>1. log'[n + m] = Event(t, s, sigs[m], 0, c)
      BY <1>n, <1>l, <1>1, <1>4 DEF HooksRan
    <2>2. /\ Event(t, s, sigs[m], 0, c).type = t /\ Event(t, s, sigs[m], 0, c).by = c
          /\ Event(t, s, sigs[m], 0, c).sig = sigs[m]
      BY DEF Event
    <2> QED BY <2>1, <2>2
  <1>5. ASSUME NEW i \in New PROVE log'[i].type = t /\ log'[i].by = c
    <2>1. i - n \in 1 .. l /\ n + (i - n) = i
      BY <1>2, <1>3, <1>5
    <2> QED BY <1>4, <2>1
  <1>6. OwnEvents(p)
    BY <1>1, <1>5 DEF OwnEvents
  <1>7. /\ HookEvents(c)' = HookEvents(c) \cup ((n + 1) .. (n + l))
        /\ HookSignals(c)' = HookSignals(c) /\ OwnSignals(c)' = OwnSignals(c)
    <2> DEFINE A == {i \in New : log'[i].by = c /\ log'[i].type \in {"STATE_ENTRY_HOOK", "STATE_EXIT_HOOK"}}
    <2> DEFINE B == {i \in New : log'[i].by = c /\ log'[i].type = "SIGNAL_EMITTED" /\ log'[i].src = "hook"}
    <2> DEFINE C == {i \in New : log'[i].by = c /\ log'[i].type = "SIGNAL_EMITTED" /\ log'[i].src # "hook"}
    <2>1. HookEvents(c)' = HookEvents(c) \cup A /\ HookSignals(c)' = HookSignals(c) \cup B /\ OwnSignals(c)' = OwnSignals(c) \cup C
      BY <1>2, SetsGrow
    <2>2. A = New /\ B = {} /\ C = {}
      BY <1>5
    <2> HIDE DEF A, B, C
    <2> QED BY <1>3, <2>1, <2>2
  <1>8. /\ HookEvents(c) \subseteq 1 .. n /\ HookSignals(c) \subseteq 1 .. n /\ Served(c) \in Nat /\ Raised(c) \in Nat
    BY <1>n, <1>2, SignalSets
  <1>9. /\ Raised(c)' = Raised(c) + l /\ Served(c)' = Served(c)
        /\ \A i \in 1 .. (n + 1) : Before(HookEvents(c), i)' = Before(HookEvents(c), i)
        /\ \A m \in 1 .. l : Before(HookEvents(c), n + m)' = Raised(c) + (m - 1)
    <2> DEFINE S == HookEvents(c)
    <2> DEFINE T == S \cup ((n + 1) .. (n + l))
    <2>1. Cardinality(T) = Cardinality(S) + l
      BY <1>2, <1>8, CountExtended
    <2>a. S \subseteq 1 .. n /\ n \in Nat /\ l \in Nat
      BY <1>2, <1>8
    <2> HIDE DEF S
    <2>2. /\ \A i \in 1..(n + 1) : {j \in T : j < i} = {j \in S : j < i}
          /\ \A m \in 1..l : Cardinality({j \in T : j < n + m}) = Cardinality(S) + (m - 1)
      BY <2>a, RanksExtended
    <2>3. T = HookEvents(c)'
      BY <1>7 DEF S
    <2> HIDE DEF T
    <2>4. Raised(c)' = Raised(c) + l /\ Served(c)' = Served(c)
      BY <1>7, <2>1, <2>3 DEF Raised, Served, S
    <2>5. \A i \in 1 .. (n + 1) : Before(HookEvents(c), i)' = Before(HookEvents(c), i)
      BY <2>2, <2>3 DEF Before, S
    <2>6. \A m \in 1 .. l : Before(HookEvents(c), n + m)' = Raised(c) + (m - 1)
      BY <2>2, <2>3 DEF Before, Raised, S
    <2> QED BY <2>4, <2>5, <2>6
  <1>10. ASSUME NEW m, NEW g, RaisedAs(c, m, g) PROVE RaisedAs(c, m, g)'
    <2>1. PICK i \in HookEvents(c) : Before(HookEvents(c), i) = m /\ log[i].sig = g
      BY <1>10 DEF RaisedAs
    <2>2. i \in DOMAIN log /\ i \in 1 .. (n + 1)
      BY <1>2, <1>8 DEF HookEvents
    <2>3. i \in HookEvents(c)' /\ Before(HookEvents(c), i)' = m /\ log'[i].sig = g
      BY <1>2, <1>7, <1>9, <2>1, <2>2 DEF Extended
    <2> QED BY <2>3 DEF RaisedAs
  <1>11. ASSUME NEW m \in 1 .. l, NEW k, k = Raised(c) + (m - 1), NEW g, g = sigs[m] PROVE RaisedAs(c, k, g)'
    <2>1. n + m \in HookEvents(c)'
      BY <1>2, <1>7
    <2>2. log'[n + m].sig = g /\ Before(HookEvents(c), n + m)' = k
      BY <1>4, <1>9, <1>11
    <2> QED BY <2>1, <2>2 DEF RaisedAs
  <1>12. /\ call'[p].pc = pc /\ call'[p].id = call[p].id /\ call'[p].work = call[p].work /\ call'[p].outer = call[p].outer
         /\ engine'[p].depth = engine[p].depth /\ engine'[p].queue = engine[p].queue \o sigs
    BY <1>2, AtType DEF Moves, PCs, HooksRan
  <1>13. ~Unchecked(p) /\ ~Taken(p) /\ TakenCount(p) = 0 /\ Draining(p)
    BY DEF Unchecked, Taken, TakenCount, Draining, Processing
  <1>14. ~Unchecked(p)' /\ ~Taken(p)' /\ TakenCount(p)' = 0 /\ ~Empty(p)'
    BY <1>12 DEF Unchecked, Taken, TakenCount, Empty
  <1>15. QueueState(p)'
    <2>1. engine'[p].draining <=> engine[p].draining
      BY DEF HooksRan
    <2> QED BY <1>2, <1>12, <1>14, <2>1 DEF QueueState, Processing, Work
  <1>16. QueueServes(p)'
    <2>1. PICK q : q = engine[p].queue
      OBVIOUS
    <2>2. PICK r : r = Served(c)
      OBVIOUS
    <2>3. /\ Raised(c) = r + 0 + Len(q) /\ \A k \in 1 .. Len(q) : RaisedAs(c, r + 0 + k - 1, q[k])
          /\ r \in Nat /\ q \in Seq(Signals) /\ Len(q) \in Nat
      <3>1. ServesCall(p, c)
        BY <1>1, <1>2, HookParts DEF QueueServes
      <3>2. Raised(c) = r + 0 + Len(q) /\ \A k \in 1 .. Len(q) : RaisedAs(c, r + 0 + k - 1, q[k])
        BY <1>13, <2>1, <2>2, <3>1 DEF ServesCall
      <3> QED BY <1>2, <1>8, <2>1, <2>2, <3>2
    <2>4. PICK z : z = q \o sigs
      OBVIOUS
    <2>5. /\ z = engine'[p].queue /\ Len(z) = Len(q) + l
          /\ \A k \in 1 .. Len(q) : z[k] = q[k]
          /\ \A k \in (Len(q) + 1) .. (Len(q) + l) : z[k] = sigs[k - Len(q)]
      BY <1>l, <1>12, <2>1, <2>3, <2>4
    <2>6. ASSUME NEW k \in 1 .. Len(z), NEW m, NEW g, m = r + 0 + k - 1, g = z[k] PROVE RaisedAs(c, m, g)'
      <3>1. CASE k <= Len(q)
        <4>1. k \in 1 .. Len(q) /\ g = q[k]
          BY <2>3, <2>5, <2>6, <3>1
        <4>2. RaisedAs(c, m, g)
          BY <2>3, <2>6, <4>1
        <4> QED BY <1>10, <4>2
      <3>2. CASE k > Len(q)
        <4>1. k - Len(q) \in 1 .. l /\ g = sigs[k - Len(q)] /\ m = Raised(c) + ((k - Len(q)) - 1)
          BY <1>2, <2>3, <2>5, <2>6, <3>2
        <4> QED BY <1>11, <4>1
      <3> QED BY <2>3, <3>1, <3>2
    <2>7. /\ r = Served(c)' /\ 0 = TakenCount(p)' /\ z = engine'[p].queue /\ Raised(c)' = r + 0 + Len(z) /\ ~Unchecked(p)'
      BY <1>2, <1>9, <1>14, <2>2, <2>3, <2>5
    <2>8. \A k \in 1 .. Len(z) : \A m, g : (m = r + 0 + k - 1 /\ g = z[k]) => RaisedAs(c, m, g)'
      BY <2>6
    <2>9. Taken(p)' => \A g : g = Work(p)'.sig => RaisedAs(c, r, g)'
      BY <1>14
    <2>10. ServesCall(p, c)'
      BY <2>7, <2>8, <2>9, ServesAfter
    <2> QED BY <1>1, <1>12, <2>10 DEF QueueServes
  <1>17. DepthCounts(p)'
    <2>1. DepthOf(p, c)
      BY <1>1, <1>2, <1>13, HookParts DEF DepthCounts
    <2>2. \A i : DrainedIn(c, i)' = DrainedIn(c, i)
      BY <1>7 DEF DrainedIn
    <2>3. DepthOf(p, c)'
      BY <1>7, <1>12, <1>13, <1>14, <2>1, <2>2 DEF DepthOf, LastOwn
    <2> QED BY <1>1, <1>12, <2>3 DEF DepthCounts
  <1>18. CyclesCut(c)'
    <2>1. CyclesCut(c)
      <3>1. call[p].id \in Nat
        BY <1>2, BaseFacts
      <3> QED BY <1>1, <3>1 DEF HookInv
    <2>2. \A i : DrainedIn(c, i)' = DrainedIn(c, i)
      BY <1>7 DEF DrainedIn
    <2> QED BY <1>7, <2>1, <2>2 DEF CyclesCut
  <1>19. HooksInOrder(c)'
    <2>1. ASSUME NEW j \in HookSignals(c)
          PROVE  \E i \in HookEvents(c)' :
                     i < j /\ log'[i].sig = log'[j].sig /\ Before(HookEvents(c), i)' = Before(HookSignals(c), j)'
      <3>1. HooksInOrder(c)
        BY <1>2 DEF HookInv
      <3>2. PICK i \in HookEvents(c) : i < j /\ log[i].sig = log[j].sig /\ Before(HookEvents(c), i) = Before(HookSignals(c), j)
        BY <3>1 DEF HooksInOrder
      <3>3. i \in DOMAIN log /\ j \in DOMAIN log /\ i \in 1 .. (n + 1)
        BY <1>2, <1>8 DEF HookEvents, HookSignals, Positions
      <3>4. Before(HookEvents(c), i)' = Before(HookEvents(c), i) /\ Before(HookSignals(c), j)' = Before(HookSignals(c), j)
        BY <1>7, <1>9, <3>3 DEF Before
      <3>5. log'[i].sig = log'[j].sig /\ i \in HookEvents(c)'
        BY <1>2, <1>7, <3>2, <3>3 DEF Extended
      <3> QED BY <3>2, <3>4, <3>5
    <2> QED BY <1>7, <2>1 DEF HooksInOrder
  <1>20. results'[c] # "ok"
    BY <1>1, <1>2, BaseFacts
  <1> QED BY <1>1, <1>2, <1>6, <1>15, <1>16, <1>17, <1>18, <1>19, <1>20, StepKeeps DEF OwnInv

\* The exit hooks of a state.
LEMMA ExitHooksKept ==
    ASSUME HookInv, NEW p \in Procs, Exit(p)
    PROVE  HookInv'
  BY HookParts, ExitShape, RaiseHooks

\* The entry hooks of a state.
LEMMA EnterHooksKept ==
    ASSUME HookInv, NEW p \in Procs, Enter(p)
    PROVE  HookInv'
  BY HookParts, EnterShape, RaiseHooks

-----------------------------------------------------------------------------
(* The signals hooks raise end in order *)

\* At the start nothing was raised.
LEMMA InitHooks ==
    ASSUME Init
    PROVE  HookInv
  <1>1. Base /\ results = <<>> /\ log = <<Event("SKILL_INITIALIZED", Initial, NoSignal, 0, 0)>>
    BY InitBase DEF Init
  <1>2. Event("SKILL_INITIALIZED", Initial, NoSignal, 0, 0).type = "SKILL_INITIALIZED"
    BY DEF Event
  <1>3. ASSUME NEW p \in Procs PROVE OwnInv(p)
    <2>1. call[p].pc = "idle"
      BY NoCallType DEF Init
    <2>2. engine[p].queue = <<>> /\ ~engine[p].draining /\ engine[p].depth = 0
      BY DEF Init
    <2>3. QueueState(p)
      BY <2>1, <2>2, ConstantFacts DEF QueueState, Processing, Empty
    <2> QED BY <2>1, <2>3 DEF OwnInv, QueueServes, DepthCounts, Draining, Processing, Taken
  <1>4. \A i \in DOMAIN log : log[i].type = "SKILL_INITIALIZED"
    BY <1>1, <1>2
  <1>5. ASSUME NEW c \in Nat PROVE CyclesCut(c)
    <2>1. OwnSignals(c) = {}
      BY <1>4 DEF OwnSignals, Positions
    <2> QED BY <2>1 DEF CyclesCut
  <1> QED BY <1>1, <1>3, <1>5 DEF HookInv

\* A step that changes nothing.
LEMMA StutterHooks ==
    ASSUME HookInv, UNCHANGED vars
    PROVE  HookInv'
  <1>1. UNCHANGED <<log, snapshot, job, engine, call, results, submits, foreign, crashes>>
    BY DEF vars
  <1>2. Base'
    BY <1>1 DEF HookInv, Base, Types, CallsAreNumbered, SignalKnown, Work, From, Accepts
  <1>3. Base /\ Extended /\ New = {}
    BY <1>1 DEF HookInv, Base, Types, Extended, New
  <1>4. ASSUME NEW c
        PROVE  /\ Raised(c)' = Raised(c) /\ Served(c)' = Served(c) /\ OwnSignals(c)' = OwnSignals(c)
               /\ \A n, s : RaisedAs(c, n, s) => RaisedAs(c, n, s)'
               /\ \A i : DrainedIn(c, i)' = DrainedIn(c, i)
               /\ HooksInOrder(c) => HooksInOrder(c)'
               /\ CyclesCut(c) => CyclesCut(c)'
    BY <1>2, <1>3, LedgerSame DEF Untouched
  <1>5. ASSUME NEW q \in Procs PROVE OwnInv(q)'
    <2>1. OwnInv(q)
      BY DEF HookInv
    <2>2. /\ (Unchecked(q)' <=> Unchecked(q)) /\ (Taken(q)' <=> Taken(q)) /\ TakenCount(q)' = TakenCount(q) /\ Work(q)' = Work(q)
          /\ (HasExternal(q)' <=> HasExternal(q)) /\ (Empty(q)' <=> Empty(q)) /\ (Draining(q)' <=> Draining(q))
      BY <1>1 DEF Unchecked, Taken, TakenCount, Work, HasExternal, Empty, Draining
    <2>3. QueueState(q)'
      BY <1>1, <2>1, <2>2 DEF OwnInv, QueueState
    <2>4. \A c : ServesCall(q, c) => ServesCall(q, c)'
      BY <1>1, <1>4, <2>2 DEF ServesCall
    <2>5. \A c : DepthOf(q, c) => DepthOf(q, c)'
      BY <1>1, <1>4, <2>2 DEF DepthOf, LastOwn
    <2> QED BY <1>1, <2>1, <2>2, <2>3, <2>4, <2>5 DEF OwnInv, QueueServes, DepthCounts
  <1> QED BY <1>1, <1>2, <1>4, <1>5 DEF HookInv

\* Every step keeps the invariant.
LEMMA NextHooks ==
    ASSUME HookInv, [Next]_vars
    PROVE  HookInv'
  <1>1. ASSUME NEW p \in Procs, Step(p) PROVE HookInv'
    BY <1>1, DrainedHooks, ConflictHooks, FoldWindowHooks, ActionHooks, EmitHooks, UnhandledHooks, RefuseHooks,
       GuardHooks, ExitHooksKept, TransitHooks, EnterHooksKept, SaveSnapshotHooks, CompletesHooks,
       DrainNextHooks, CycleDetectedHooks, QueueEmptyHooks, UpdateJobHooks DEF Step
  <1>2. ASSUME NEW p \in Procs, Submit(p) \/ Resume(p) \/ Reopen(p) \/ Crash(p) PROVE HookInv'
    BY <1>2, SubmitHooks, ResumeHooks, ReopenHooks, CrashHooks
  <1>3. CASE Foreign
    BY <1>3, ForeignHooks
  <1>4. CASE UNCHANGED vars
    BY <1>4, StutterHooks
  <1> QED BY <1>1, <1>2, <1>3, <1>4 DEF Next

\* The invariant holds in every reachable state.
LEMMA HooksInductive == Spec => []HookInv
  <1>1. Init => HookInv
    BY InitHooks
  <1>2. HookInv /\ [Next]_vars => HookInv'
    BY NextHooks
  <1> QED BY <1>1, <1>2, PTL DEF Spec

\* The signals the hooks of a call raise are served by it, in order, or the call fails at the limit.
THEOREM HookSignalsEndAlways == Spec => []HookSignalsEnd
  <1>1. HookInv => HookSignalsEnd
    <2> SUFFICES ASSUME HookInv PROVE HookSignalsEnd
      OBVIOUS
    <2>1. Base
      BY DEF HookInv
    <2>2. TypeOK
      <3>1. \A i \in DOMAIN log :
              /\ log[i].type \in EventTypes /\ log[i].state \in States /\ log[i].sig \in Signals \cup {NoSignal}
              /\ log[i].cause < i /\ log[i].by \in 0 .. Len(results)
        <4>1. ASSUME NEW i \in DOMAIN log PROVE log[i] \in Events /\ log[i].cause < i /\ log[i].by <= Len(results)
          BY <2>1 DEF Base, Types
        <4>2. Len(results) \in Nat
          BY <2>1 DEF Base, Types
        <4> QED BY <4>1, <4>2 DEF Events
      <3>2. /\ snapshot.seq \in DOMAIN log /\ snapshot.state \in States /\ job.state \in States /\ job.done \in BOOLEAN
            /\ submits \in 0 .. MaxSubmits /\ foreign \in 0 .. MaxForeign /\ crashes \in 0 .. MaxCrashes
        BY <2>1 DEF Base, Types
      <3>3. ASSUME NEW p \in Procs
            PROVE  /\ engine[p].state \in States /\ engine[p].seen \in DOMAIN log /\ engine[p].depth \in Nat
                   /\ Range(engine[p].queue) \subseteq Signals
        <4>1. engine[p] \in Engines /\ engine[p].seen \in DOMAIN log
          BY <2>1, BaseFacts
        <4>2. engine[p].queue \in Seq(Signals) /\ engine[p].state \in States /\ engine[p].depth \in Nat
          BY <4>1 DEF Engines
        <4> QED BY <4>1, <4>2 DEF Range
      <3>4. ASSUME NEW p \in Procs PROVE call[p].pc = "idle" <=> call[p].id = 0
        BY <2>1, BaseFacts DEF Base, CallsAreNumbered
      <3>5. Range(results) \subseteq {"pending", "ok", "refused", "failed", "died"}
        BY <2>1 DEF Base, Types, Results, Range
      <3> QED BY <3>1, <3>2, <3>3, <3>4, <3>5 DEF TypeOK
    <2>3. HooksAreServed
      BY DEF HookInv, HooksAreServed, HooksInOrder, Raised, Served
    <2>4. CyclesAreCut
      <3> SUFFICES ASSUME NEW i \in Positions("SIGNAL_EMITTED"), log[i].src # "hook"
                   PROVE  Cardinality(DrainedAfter(i)) <= MaxDrain
        BY DEF CyclesAreCut
      <3>1. PICK c : c = log[i].by
        OBVIOUS
      <3>2. c \in Nat
        <4>1. log[i] \in Events
          BY <2>1 DEF Base, Types, Positions
        <4> QED BY <3>1, <4>1 DEF Events
      <3>3. CyclesCut(c) /\ i \in OwnSignals(c)
        BY <3>1, <3>2 DEF HookInv, OwnSignals
      <3>4. DrainedAfter(i) = DrainedIn(c, i)
        BY <3>1 DEF DrainedAfter, DrainedIn
      <3> QED BY <3>3, <3>4 DEF CyclesCut
    <2> QED BY <2>2, <2>3, <2>4 DEF HookSignalsEnd
  <1> QED BY <1>1, HooksInductive, PTL

-----------------------------------------------------------------------------
(* Outcome signals carry a recorded result *)

\* A transition names the signal that caused it.
CausesKnown == \A i \in Positions("STATE_TRANSITION") : log[i].cause \in DOMAIN log

\* The rules about results and outcomes.
Decides == CompletionsDecide /\ CausesKnown /\ OutcomesAreDecided /\ \A p \in Procs : WorkIsDecided(p)

\* The event of an outcome refers to a result of the state it leaves.
IsDecided(e) ==
    (e.state \in Runtime /\ e.sig \in Outcomes(e.state)) =>
        e.cause \in Positions("RUNTIME_ACTION_COMPLETED") /\ log[e.cause].state = e.state /\ log[e.cause].sig = e.sig

\* What a step appends obeys the rules about results and outcomes.
NewDecides ==
    \A i \in New :
        /\ log'[i].type = "RUNTIME_ACTION_COMPLETED" => log'[i].state \in Runtime /\ log'[i].sig \in Outcomes(log'[i].state)
        /\ log'[i].type = "STATE_TRANSITION" => \E j \in DOMAIN log : log'[i].cause = j /\ IsDecided(log[j])

\* The events a ledger has stay where they are.
LEMMA PositionsStay ==
    ASSUME Base, Base', Extended, NEW t
    PROVE  /\ Positions(t) \subseteq DOMAIN log /\ DOMAIN log \subseteq DOMAIN log' /\ DOMAIN log' = DOMAIN log \cup New
           /\ \A i \in Positions(t) : i \in Positions(t)' /\ log'[i] = log[i]
           /\ \A i \in Positions(t)' : i \in Positions(t) \/ (i \in New /\ log'[i].type = t)
  <1>1. DOMAIN log = 1 .. Len(log) /\ DOMAIN log' = 1 .. Len(log') /\ Len(log) \in Nat /\ Len(log') \in Nat
    BY DEF Base, Types
  <1> QED BY <1>1 DEF Positions, Extended, New

\* The rules hold of the whole ledger when they hold of what is new.
LEMMA LedgerDecides ==
    ASSUME Base, Base', Extended, CompletionsDecide, CausesKnown, OutcomesAreDecided, NewDecides
    PROVE  CompletionsDecide' /\ CausesKnown' /\ OutcomesAreDecided'
  <1>1. CompletionsDecide'
    BY PositionsStay DEF CompletionsDecide, NewDecides
  <1>2. CausesKnown'
    BY PositionsStay DEF CausesKnown, NewDecides
  <1>3. \A e : IsDecided(e) => IsDecided(e)'
    BY PositionsStay DEF IsDecided
  <1>4. ASSUME NEW i \in Positions("STATE_TRANSITION")' PROVE \E j \in DOMAIN log : log'[i].cause = j /\ IsDecided(log[j])
    <2>1. CASE i \in Positions("STATE_TRANSITION")
      <3>1. log'[i] = log[i] /\ log[i].cause \in DOMAIN log
        BY <2>1, PositionsStay DEF CausesKnown
      <3>2. IsDecided(log[log[i].cause])
        BY <2>1 DEF OutcomesAreDecided, IsDecided, Outcomes
      <3> QED BY <3>1, <3>2
    <2>2. CASE i \in New /\ log'[i].type = "STATE_TRANSITION"
      BY <2>2 DEF NewDecides
    <2> QED BY <2>1, <2>2, PositionsStay
  <1>5. ASSUME NEW i \in Positions("STATE_TRANSITION")', NEW e, e = log'[log'[i].cause] PROVE IsDecided(e)'
    <2>1. PICK j \in DOMAIN log : log'[i].cause = j /\ IsDecided(log[j])
      BY <1>4
    <2>2. log'[j] = log[j]
      BY DEF Extended
    <2>3. e = log[j]
      BY <1>5, <2>1, <2>2
    <2> QED BY <1>3, <2>1, <2>3
  <1>6. OutcomesAreDecided'
    BY <1>5 DEF OutcomesAreDecided, IsDecided, Outcomes
  <1> QED BY <1>1, <1>2, <1>6

\* A signal in the ledger and its work stay as they are.
LEMMA WorkStays ==
    ASSUME Base, Base', Extended, NEW p \in Procs, WorkIsDecided(p), engine'[p].state = engine[p].state,
           call'[p].work.sig = call[p].work.sig, call'[p].work.src = call[p].work.src,
           call'[p].work.cause = call[p].work.cause, call'[p].work.ev = call[p].work.ev,
           \/ call'[p].pc = call[p].pc
           \/ {call[p].pc, call'[p].pc} \subseteq {"accept", "guard", "exit", "transit"}
    PROVE  WorkIsDecided(p)'
  <1>1. SignalKnown(p)
    BY DEF Base
  <1>2. ASSUME NEW i \in Positions("RUNTIME_ACTION_COMPLETED")
        PROVE  i \in Positions("RUNTIME_ACTION_COMPLETED")' /\ log'[i] = log[i]
    BY PositionsStay
  <1>3. call[p].pc \in {"accept", "guard", "exit", "transit"} => log'[Work(p).ev] = log[Work(p).ev]
    BY <1>1 DEF SignalKnown, Processing, Extended
  <1>4. RuntimeOwned(p)' <=> RuntimeOwned(p)
    BY DEF RuntimeOwned, Work, From
  <1>5. From(p)' = From(p) /\ Work(p)'.sig = Work(p).sig /\ Work(p)'.src = Work(p).src /\ Work(p)'.cause = Work(p).cause
        /\ Work(p)'.ev = Work(p).ev
    BY DEF From, Work
  <1> QED BY <1>2, <1>3, <1>4, <1>5 DEF WorkIsDecided

\* A call that has no signal on the way to a transition.
LEMMA NoWorkDecided ==
    ASSUME NEW p \in Procs,
           \/ call'[p].pc \in PCs \ {"emit", "accept", "unhandled", "refuse", "guard", "exit", "transit"}
           \/ call'[p].pc \in {"emit", "unhandled", "refuse"} /\ call'[p].work.src # "runtime_action"
    PROVE  WorkIsDecided(p)'
  BY DEF WorkIsDecided, Work, PCs

\* A step of p obeys the rules when what it appends and the work of p do.
LEMMA DecidesKept ==
    ASSUME Base, Decides, NEW p \in Procs, Framed(p), NewDecides, WorkIsDecided(p)'
    PROVE  Decides'
  <1>1. Base' /\ Bystanders(p) /\ Extended
    BY FramedParts
  <1>2. CompletionsDecide' /\ CausesKnown' /\ OutcomesAreDecided'
    BY <1>1, LedgerDecides DEF Decides
  <1>3. ASSUME NEW q \in Procs PROVE WorkIsDecided(q)'
    <2>1. CASE q # p
      BY <1>1, <2>1, WorkStays DEF Decides, Bystanders
    <2> QED BY <2>1
  <1> QED BY <1>2, <1>3 DEF Decides

\* Neither a result nor a transition.
LEMMA OtherEvent ==
    ASSUME NEW e, New = {Len(log) + 1}, log'[Len(log) + 1] = e, e.type \notin {"RUNTIME_ACTION_COMPLETED", "STATE_TRANSITION"}
    PROVE  NewDecides
  BY DEF NewDecides

\* Without an event there is nothing to obey.
LEMMA NoNewDecides ==
    ASSUME New = {}
    PROVE  NewDecides
  BY DEF NewDecides

\* A call begins with no signal in hand.
LEMMA BeginDecides ==
    ASSUME Base, Decides, NEW p \in Procs, NEW sig, Begun(p, sig)
    PROVE  Decides'
  <1>1. call'[p].pc = "drain"
    BY DEF Begun, NoCall
  <1>2. WorkIsDecided(p)'
    BY <1>1, NoWorkDecided DEF PCs
  <1> QED BY <1>2, NoNewDecides, DecidesKept DEF Begun, Still

\* A call that ends.
LEMMA EndsDecided ==
    ASSUME NEW p \in Procs, NEW r, Ends(p, r)
    PROVE  WorkIsDecided(p)'
  BY NoCallType, NoWorkDecided DEF Ends, PCs

\* What follows a signal that did not transition is no outcome on its way.
LEMMA FollowedDecided ==
    ASSUME Base, NEW p \in Procs, Followed(p)
    PROVE  WorkIsDecided(p)'
  <1>1. CASE Moves(p, At(p, "queue"))
    BY <1>1, AtType, NoWorkDecided DEF Moves, PCs
  <1>2. CASE Moves(p, ToOwnSignal(p))
    BY <1>2, OwnSignalType, NoWorkDecided DEF Moves, PCs
  <1>3. CASE \E r : Ends(p, r)
    BY <1>3, EndsDecided
  <1> QED BY <1>1, <1>2, <1>3 DEF Followed

\* Steps without an event, and without an outcome on its way.
LEMMA QuietDecides ==
    ASSUME Base, Decides, NEW p \in Procs,
           Drained(p) \/ DrainConflict(p) \/ EmitConflict(p) \/ Unhandled(p) \/ GuardConflict(p) \/ SaveSnapshot(p)
             \/ DrainNext(p) \/ QueueEmpty(p) \/ UpdateJob(p) \/ Reopen(p) \/ Crash(p)
    PROVE  Decides'
  <1>1. CASE Drained(p)
    <2>1. Framed(p) /\ New = {} /\ (Moves(p, ToOwnSignal(p)) \/ Ends(p, "ok"))
      BY <1>1, DrainedShape DEF Still
    <2>2. WorkIsDecided(p)'
      BY <2>1, OwnSignalType, NoWorkDecided, EndsDecided DEF Moves, PCs
    <2> QED BY <2>1, <2>2, NoNewDecides, DecidesKept
  <1>2. CASE DrainConflict(p)
    BY <1>2, DrainConflictShape, EndsDecided, NoNewDecides, DecidesKept
  <1>3. CASE EmitConflict(p)
    BY <1>3, EmitConflictShape, EndsDecided, NoNewDecides, DecidesKept
  <1>4. CASE Unhandled(p)
    BY <1>4, UnhandledShape, FollowedDecided, NoNewDecides, DecidesKept DEF Still
  <1>5. CASE GuardConflict(p)
    BY <1>5, GuardConflictShape, EndsDecided, NoNewDecides, DecidesKept
  <1>6. CASE SaveSnapshot(p)
    <2>1. Framed(p) /\ New = {} /\ Moves(p, At(p, "completed"))
      BY <1>6, SaveSnapshotShape DEF Still
    <2>2. WorkIsDecided(p)'
      BY <2>1, AtType, NoWorkDecided DEF Moves, PCs
    <2> QED BY <2>1, <2>2, NoNewDecides, DecidesKept
  <1>7. CASE DrainNext(p)
    <2>1. Framed(p) /\ New = {} /\ Moves(p, ToHook(p)) /\ engine[p].queue # <<>>
      BY <1>7, DrainNextShape
    <2>2. WorkIsDecided(p)'
      BY <2>1, HookType, NoWorkDecided DEF Moves
    <2> QED BY <2>1, <2>2, NoNewDecides, DecidesKept
  <1>8. CASE QueueEmpty(p)
    <2>1. Framed(p) /\ New = {} /\ Moves(p, ToJob(p))
      BY <1>8, QueueEmptyShape
    <2>2. WorkIsDecided(p)'
      BY <2>1, ToJobType, NoWorkDecided DEF Moves, PCs
    <2> QED BY <2>1, <2>2, NoNewDecides, DecidesKept
  <1>9. CASE UpdateJob(p)
    <2>1. Framed(p) /\ New = {} /\ Moves(p, Onward(p))
      BY <1>9, UpdateJobShape DEF Still
    <2>2. WorkIsDecided(p)'
      BY <2>1, OnwardType, NoWorkDecided DEF Moves, PCs
    <2> QED BY <2>1, <2>2, NoNewDecides, DecidesKept
  <1>10. CASE Reopen(p)
    <2>1. Framed(p) /\ New = {} /\ call'[p] = call[p] /\ call[p].pc = "idle"
      BY <1>10, ReopenShape DEF Moves
    <2>2. WorkIsDecided(p)'
      BY <2>1, NoWorkDecided DEF PCs
    <2> QED BY <2>1, <2>2, NoNewDecides, DecidesKept
  <1>11. CASE Crash(p)
    BY <1>11, CrashShape, EndsDecided, NoNewDecides, DecidesKept
  <1> QED BY <1>1, <1>2, <1>3, <1>4, <1>5, <1>6, <1>7, <1>8, <1>9, <1>10, <1>11

\* An event of the call that is neither a result nor a transition, and no outcome on its way.
LEMMA RecordsDecide ==
    ASSUME Base, Decides, NEW p \in Procs,
           StartAction(p) \/ Refuse(p) \/ Completes(p) \/ CycleDetected(p)
    PROVE  Decides'
  <1>1. CASE StartAction(p)
    <2>1. Framed(p) /\ Moves(p, At(p, "running")) /\ Appends(p, Event("RUNTIME_ACTION_STARTED", From(p), NoSignal, 0, call[p].id))
      BY <1>1, StartActionShape
    <2>2. WorkIsDecided(p)'
      BY <2>1, AtType, NoWorkDecided DEF Moves, PCs
    <2>3. NewDecides
      BY <2>1, OtherEvent DEF Appends, Event
    <2> QED BY <2>1, <2>2, <2>3, DecidesKept
  <1>2. CASE Refuse(p)
    <2>1. /\ Framed(p) /\ Followed(p)
          /\ Appends(p, Event("SIGNAL_REFUSED", From(p), Work(p).sig, Work(p).ev, call[p].id))
      BY <1>2, RefuseShape
    <2>2. NewDecides
      BY <2>1, OtherEvent DEF Appends, Event
    <2> QED BY <2>1, <2>2, FollowedDecided, DecidesKept
  <1>3. CASE Completes(p)
    <2>1. /\ Framed(p) /\ Appends(p, Event("TRANSITION_COMPLETED", From(p), Work(p).sig, Work(p).ev, call[p].id))
          /\ Moves(p, At(p, "job")) \/ Moves(p, [call[p] EXCEPT !.pc = "queue", !.outer = Work(p)])
      BY <1>3, CompletesShape
    <2>2. call'[p].pc \in {"job", "queue"}
      BY <2>1, BaseFacts DEF Moves, At, Calls
    <2>3. WorkIsDecided(p)'
      BY <2>2, NoWorkDecided DEF PCs
    <2>4. NewDecides
      BY <2>1, OtherEvent DEF Appends, Event
    <2> QED BY <2>1, <2>3, <2>4, DecidesKept
  <1>4. CASE CycleDetected(p)
    <2>1. /\ Framed(p) /\ New = {Len(log) + 1} /\ Ends(p, "failed")
          /\ log'[Len(log) + 1] = Event("SIGNAL_QUEUE_CYCLE_DETECTED", From(p), NoSignal, 0, call[p].id)
      BY <1>4, CycleDetectedShape
    <2>2. NewDecides
      BY <2>1, OtherEvent DEF Event
    <2> QED BY <2>1, <2>2, EndsDecided, DecidesKept
  <1> QED BY <1>1, <1>2, <1>3, <1>4

\* A recorded result is an outcome of its state.
LEMMA FoldWindowDecides ==
    ASSUME Base, Decides, NEW p \in Procs, FoldWindow(p)
    PROVE  Decides'
  <1>1. /\ Framed(p) /\ New = {} /\ engine'[p] = engine[p] /\ UNCHANGED log
        /\ \/ Completed(From(p)) # 0 /\ Moves(p, ToOutcome(p, log[Completed(From(p))].sig, Completed(From(p))))
           \/ Completed(From(p)) = 0 /\ Moves(p, At(p, "start"))
    BY FoldWindowShape DEF Still
  <1>2. CASE Completed(From(p)) # 0 /\ Moves(p, ToOutcome(p, log[Completed(From(p))].sig, Completed(From(p))))
    <2>1. PICK i : i = Completed(From(p))
      OBVIOUS
    <2>2. i \in Positions("RUNTIME_ACTION_COMPLETED") /\ log[i].state = From(p) /\ i \in DOMAIN log
      BY <1>2, <2>1, CompletedFacts
    <2>3. PICK g : g = log[i].sig
      OBVIOUS
    <2>4. log[i] \in Events /\ i \in Nat
      BY <2>2 DEF Base, Types
    <2>5. g \in Signals \cup {NoSignal}
      BY <2>3, <2>4 DEF Events
    <2>6. call'[p].pc = "emit" /\ Work(p)'.sig = g /\ Work(p)'.cause = i
      BY <1>2, <2>1, <2>3, <2>4, <2>5, OutcomeType DEF Moves, Work
    <2>7. i \in Positions("RUNTIME_ACTION_COMPLETED")' /\ log'[i].state = From(p)' /\ log'[i].sig = g
      BY <1>1, <2>2, <2>3 DEF Positions, From
    <2>8. WorkIsDecided(p)'
      BY <2>6, <2>7 DEF WorkIsDecided
    <2> QED BY <1>1, <2>8, NoNewDecides, DecidesKept
  <1>3. CASE Moves(p, At(p, "start"))
    <2>1. WorkIsDecided(p)'
      BY <1>3, AtType, NoWorkDecided DEF Moves, PCs
    <2> QED BY <1>1, <2>1, NoNewDecides, DecidesKept
  <1> QED BY <1>1, <1>2, <1>3

\* The result that is recorded is an outcome of the state, and is dispatched with it.
LEMMA CompleteActionDecides ==
    ASSUME Base, Decides, NEW p \in Procs, CompleteAction(p)
    PROVE  Decides'
  <1>1. PICK observation \in Observations :
          /\ Appends(p, Event("RUNTIME_ACTION_COMPLETED", From(p), DecidedOutcome(From(p), observation), 0, call[p].id))
          /\ Moves(p, ToOutcome(p, DecidedOutcome(From(p), observation), Len(log) + 1))
    BY CompleteActionShape
  <1>2. Framed(p) /\ From(p) \in Runtime /\ Base' /\ Extended
    BY CompleteActionShape, FramedParts
  <1>3. PICK g : g = DecidedOutcome(From(p), observation)
    OBVIOUS
  <1>4. g \in Outcomes(From(p)) /\ g \in Signals \cup {NoSignal}
    <2>1. g \in Outcomes(From(p))
      BY <1>3 DEF DecidedOutcome, Outcomes
    <2>2. Outcomes(From(p)) \subseteq Signals
      BY <1>2, ConstantFacts DEF Outcomes
    <2> QED BY <2>1, <2>2
  <1>5. PICK n : n = Len(log) + 1
    OBVIOUS
  <1>6. n \in Nat /\ n \in New /\ New = {n} /\ log'[n] = Event("RUNTIME_ACTION_COMPLETED", From(p), g, 0, call[p].id)
        /\ engine'[p].state = engine[p].state
    <2>1. engine'[p].state = engine[p].state
      BY <1>1, <1>2, AppendsEngine
    <2>2. New = {n} /\ log'[n] = Event("RUNTIME_ACTION_COMPLETED", From(p), g, 0, call[p].id)
      BY <1>1, <1>3, <1>5 DEF Appends
    <2>3. n \in Nat
      BY <1>5, BaseFacts
    <2> QED BY <2>1, <2>2, <2>3
  <1>7. log'[n].type = "RUNTIME_ACTION_COMPLETED" /\ log'[n].state = From(p) /\ log'[n].sig = g
    BY <1>6 DEF Event
  <1>8. NewDecides
    BY <1>2, <1>4, <1>6, <1>7 DEF NewDecides
  <1>9. WorkIsDecided(p)'
    <2>1. call'[p].pc = "emit" /\ Work(p)'.sig = g /\ Work(p)'.cause = n
      BY <1>1, <1>3, <1>4, <1>5, <1>6, OutcomeType DEF Moves, Work
    <2>2. n \in Positions("RUNTIME_ACTION_COMPLETED")' /\ From(p)' = From(p)
      BY <1>6, <1>7 DEF Positions, New, From
    <2> QED BY <1>7, <2>1, <2>2 DEF WorkIsDecided
  <1> QED BY <1>2, <1>8, <1>9, DecidesKept

\* An outcome that is on its way is accepted: the state routes both of its outcomes.
LEMMA EmitDecides ==
    ASSUME Base, Decides, NEW p \in Procs, Emit(p)
    PROVE  Decides'
  <1>1. /\ call[p].pc = "emit" /\ Framed(p) /\ Appends(p, SignalEvent(p)) /\ call'[p] = Emitted(p) /\ Base' /\ Extended
        /\ WorkIsDecided(p) /\ CompletionsDecide
    BY EmitShape, FramedParts DEF Moves, Decides
  <1>2. PICK n : n = Len(log) + 1
    OBVIOUS
  <1>3. /\ n \in New /\ New = {n} /\ log'[n] = SignalEvent(p) /\ engine'[p].state = engine[p].state
    BY <1>1, <1>2, BaseFacts, AppendsEngine DEF Appends
  <1>4. NewDecides
    BY <1>2, <1>3, OtherEvent, SignalEventType
  <1>5. /\ Work(p)'.sig = Work(p).sig /\ Work(p)'.src = Work(p).src /\ Work(p)'.cause = Work(p).cause /\ Work(p)'.ev = n
        /\ From(p)' = From(p) /\ call'[p].pc \in {"accept", "unhandled", "refuse"}
    BY <1>1, <1>2, <1>3, EmittedType DEF Work, From
  <1>6. RuntimeOwned(p)' <=> RuntimeOwned(p)
    BY <1>5 DEF RuntimeOwned
  <1>7. ASSUME Work(p).src = "runtime_action"
        PROVE  /\ Work(p).cause \in Positions("RUNTIME_ACTION_COMPLETED")
               /\ log[Work(p).cause].state = From(p) /\ log[Work(p).cause].sig = Work(p).sig
               /\ call'[p].pc = "accept"
    <2>1. PICK i : i = Work(p).cause
      OBVIOUS
    <2>2. i \in Positions("RUNTIME_ACTION_COMPLETED") /\ log[i].state = From(p) /\ log[i].sig = Work(p).sig
      BY <1>1, <1>7, <2>1 DEF WorkIsDecided
    <2>3. From(p) \in Runtime /\ Work(p).sig \in Outcomes(From(p))
      BY <1>1, <2>2 DEF CompletionsDecide
    <2>4. Accepts(p)
      BY <2>3, ConstantFacts DEF Accepts, Outcomes
    <2>5. ~RuntimeOwned(p)
      BY <1>7 DEF RuntimeOwned
    <2> QED BY <1>1, <2>1, <2>2, <2>4, <2>5, EmittedType
  <1>8. Work(p).src = "runtime_action" =>
          /\ Work(p).cause \in Positions("RUNTIME_ACTION_COMPLETED")'
          /\ log'[Work(p).cause].state = From(p) /\ log'[Work(p).cause].sig = Work(p).sig /\ call'[p].pc = "accept"
    BY <1>1, <1>7, PositionsStay
  <1>9. call'[p].pc = "accept" => ~RuntimeOwned(p)
    BY <1>1, EmittedType
  <1>10. log'[n].state = From(p) /\ log'[n].sig = Work(p).sig /\ log'[n].cause = Work(p).cause
    BY <1>3, SignalEventType
  <1>11. WorkIsDecided(p)'
    BY <1>5, <1>6, <1>8, <1>9, <1>10 DEF WorkIsDecided
  <1> QED BY <1>1, <1>4, <1>11, DecidesKept

\* Through the guard to the transition, with the same work.
LEMMA AcceptedDecides ==
    ASSUME Base, Decides, NEW p \in Procs, BeginGuard(p) \/ GuardReturns(p)
    PROVE  Decides'
  <1>1. WorkIsDecided(p)
    BY DEF Decides
  <1>2. CASE BeginGuard(p)
    <2>1. /\ call[p].pc = "accept" /\ Framed(p) /\ New = {} /\ engine'[p] = engine[p] /\ Base' /\ Extended
          /\ call'[p] = [call[p] EXCEPT !.pc = "guard", !.work = [call[p].work EXCEPT !.version = Len(log)]]
      BY <1>2, BeginGuardShape, FramedParts DEF Still, Moves
    <2>2. /\ call'[p].pc = "guard" /\ call'[p].work.sig = call[p].work.sig /\ call'[p].work.src = call[p].work.src
          /\ call'[p].work.cause = call[p].work.cause /\ call'[p].work.ev = call[p].work.ev
      BY <2>1, BaseFacts DEF Calls, Works
    <2>3. WorkIsDecided(p)'
      BY <1>1, <2>1, <2>2, WorkStays
    <2> QED BY <2>1, <2>3, NoNewDecides, DecidesKept
  <1>3. CASE GuardReturns(p)
    <2>1. /\ call[p].pc = "guard" /\ Framed(p) /\ Base' /\ Extended
          /\ Appends(p, Event("GUARD_EVALUATED", From(p), Work(p).sig, Work(p).ev, call[p].id))
          /\ \/ Moves(p, At(p, "exit"))
             \/ Work(p).src = "caller" /\ Moves(p, At(p, "refuse"))
      BY <1>3, GuardReturnsShape, FramedParts
    <2>2. engine'[p].state = engine[p].state
      BY <2>1, AppendsEngine
    <2>3. call'[p].work = call[p].work /\ (call'[p].pc = "exit" \/ (call'[p].pc = "refuse" /\ call[p].work.src = "caller"))
      BY <2>1, AtType DEF Moves, PCs, Work
    <2>4. WorkIsDecided(p)'
      BY <1>1, <2>1, <2>2, <2>3, WorkStays, NoWorkDecided
    <2>5. NewDecides
      BY <2>1, OtherEvent DEF Appends, Event
    <2> QED BY <2>1, <2>4, <2>5, DecidesKept
  <1> QED BY <1>2, <1>3

\* Hooks raise signals: they neither record results nor transition.
LEMMA RaiseDecides ==
    ASSUME Base, Decides, NEW p \in Procs, NEW pc, <<call[p].pc, pc>> \in {<<"exit", "transit">>, <<"enter", "snapshot">>},
           Framed(p), Moves(p, At(p, pc)), NEW t \in {"STATE_EXIT_HOOK", "STATE_ENTRY_HOOK"}, NEW s, NEW sigs \in Seq(Signals),
           HooksRan(p, t, s, sigs)
    PROVE  Decides'
  <1>1. /\ Base' /\ Extended /\ WorkIsDecided(p)
        /\ call'[p].pc = pc /\ call'[p].work = call[p].work /\ engine'[p].state = engine[p].state
    BY FramedParts, AtType DEF Moves, PCs, HooksRan, Decides
  <1>2. PICK n : n = Len(log)
    OBVIOUS
  <1>3. n \in Nat /\ Len(sigs) \in Nat /\ New = (n + 1) .. (n + Len(sigs))
    BY <1>2, BaseFacts DEF HooksRan
  <1>4. ASSUME NEW i \in New PROVE log'[i].type = t
    <2>1. PICK m \in 1 .. Len(sigs) : i = n + m
      <3>1. i - n \in 1 .. Len(sigs) /\ n + (i - n) = i
        BY <1>3
      <3> QED BY <3>1
    <2>2. log'[i] = Event(t, s, sigs[m], 0, call[p].id)
      BY <1>2, <2>1 DEF HooksRan
    <2> QED BY <2>2 DEF Event
  <1>5. NewDecides
    BY <1>4 DEF NewDecides
  <1>6. WorkIsDecided(p)'
    BY <1>1, WorkStays, NoWorkDecided DEF PCs
  <1> QED BY <1>5, <1>6, DecidesKept

\* A signal that transitions is not an outcome, or it carries a result.
LEMMA TransitDecides ==
    ASSUME Base, Decides, NEW p \in Procs, Transit(p)
    PROVE  Decides'
  <1>1. /\ call[p].pc = "transit" /\ Framed(p) /\ Moves(p, At(p, "enter")) /\ New = {Len(log) + 1}
        /\ log'[Len(log) + 1] = Event("STATE_TRANSITION", To(p), Work(p).sig, Work(p).ev, call[p].id)
    BY TransitShape
  <1>2. WorkIsDecided(p)'
    BY <1>1, AtType, NoWorkDecided DEF Moves, PCs
  <1>3. PICK j : j = Work(p).ev
    OBVIOUS
  <1>4. WorkIsDecided(p) /\ SignalKnown(p)
    BY DEF Decides, Base
  <1>5. /\ j \in DOMAIN log /\ log[j].state = From(p) /\ log[j].sig = Work(p).sig /\ log[j].cause = Work(p).cause
        /\ ~RuntimeOwned(p)
        /\ Work(p).src = "runtime_action" =>
             /\ Work(p).cause \in Positions("RUNTIME_ACTION_COMPLETED")
             /\ log[Work(p).cause].state = From(p) /\ log[Work(p).cause].sig = Work(p).sig
    BY <1>1, <1>3, <1>4 DEF WorkIsDecided, SignalKnown, Processing
  <1>6. IsDecided(log[j])
    BY <1>5 DEF IsDecided, RuntimeOwned, Outcomes
  <1>7. log'[Len(log) + 1].type = "STATE_TRANSITION" /\ log'[Len(log) + 1].cause = j
    BY <1>1, <1>3 DEF Event
  <1>8. NewDecides
    BY <1>1, <1>5, <1>6, <1>7 DEF NewDecides
  <1> QED BY <1>1, <1>2, <1>8, DecidesKept

\* At the start there is no transition.
LEMMA InitDecides ==
    ASSUME Init
    PROVE  Decides
  <1>1. \A i \in DOMAIN log : log[i].type = "SKILL_INITIALIZED"
    BY DEF Init, Event
  <1>2. ASSUME NEW p \in Procs PROVE WorkIsDecided(p)
    BY NoCallType DEF Init, WorkIsDecided
  <1> QED BY <1>1, <1>2 DEF Decides, CompletionsDecide, CausesKnown, OutcomesAreDecided, Positions

\* Every step keeps the rules.
LEMMA NextDecides ==
    ASSUME Base, Base', Decides, [Next]_vars
    PROVE  Decides'
  <1>1. ASSUME NEW p \in Procs, Step(p) \/ Reopen(p) \/ Crash(p) PROVE Decides'
    <2>1. CASE Exit(p)
      <3>1. /\ call[p].pc = "exit" /\ Framed(p) /\ Moves(p, At(p, "transit")) /\ ExitHooks(p) \in Seq(Signals)
            /\ HooksRan(p, "STATE_EXIT_HOOK", From(p), ExitHooks(p))
        BY <2>1, ExitShape
      <3>2. <<call[p].pc, "transit">> \in {<<"exit", "transit">>, <<"enter", "snapshot">>}
        BY <3>1
      <3> QED BY <3>1, <3>2, RaiseDecides
    <2>2. CASE Enter(p)
      <3>1. /\ call[p].pc = "enter" /\ Framed(p) /\ Moves(p, At(p, "snapshot")) /\ EntryHooks(p) \in Seq(Signals)
            /\ HooksRan(p, "STATE_ENTRY_HOOK", From(p), EntryHooks(p))
        BY <2>2, EnterShape
      <3>2. <<call[p].pc, "snapshot">> \in {<<"exit", "transit">>, <<"enter", "snapshot">>}
        BY <3>1
      <3> QED BY <3>1, <3>2, RaiseDecides
    <2> QED BY <1>1, <2>1, <2>2, QuietDecides, RecordsDecide, FoldWindowDecides, CompleteActionDecides, EmitDecides,
               AcceptedDecides, TransitDecides DEF Step
  <1>2. ASSUME NEW p \in Procs, Submit(p) \/ Resume(p) PROVE Decides'
    BY <1>2, SubmitShape, ResumeShape, BeginDecides
  <1>3. ASSUME Extended, UNCHANGED <<engine, call>>, NewDecides PROVE Decides'
    <2>1. CompletionsDecide' /\ CausesKnown' /\ OutcomesAreDecided'
      BY <1>3, LedgerDecides DEF Decides
    <2>2. \A p \in Procs : WorkIsDecided(p)'
      BY <1>3, WorkStays DEF Decides
    <2> QED BY <2>1, <2>2 DEF Decides
  <1>4. CASE Foreign
    BY <1>3, <1>4, ForeignShape, OtherEvent DEF Event
  <1>5. CASE UNCHANGED vars
    <2>1. Extended /\ New = {} /\ UNCHANGED <<engine, call>>
      BY <1>5 DEF Base, Types, Extended, New, vars
    <2> QED BY <1>3, <2>1, NoNewDecides
  <1> QED BY <1>1, <1>2, <1>4, <1>5 DEF Next

\* The rules hold in every reachable state.
LEMMA DecidesInductive == Spec => [](Base /\ Decides)
  <1>1. Init => Decides
    BY InitDecides
  <1>2. HookInv /\ HookInv' /\ Decides /\ [Next]_vars => Decides'
    BY NextDecides DEF HookInv
  <1>3. HookInv => Base
    BY DEF HookInv
  <1> QED BY <1>1, <1>2, <1>3, HooksInductive, PTL DEF Spec

\* The outcome of a runtime state moves a run only with a result recorded for it.
THEOREM OutcomesAreDecidedAlways == Spec => []OutcomesAreDecided
  <1>1. Decides => OutcomesAreDecided
    BY DEF Decides
  <1> QED BY <1>1, DecidesInductive, PTL

-----------------------------------------------------------------------------
(* One process: a result is used for the visit that obtained it *)

\* One process holds the run open.
OneProcess == \E p : Procs = {p}

\* No visit reuses, or repeats, the result of another.
Visits == ResultsAreReused /\ \A p \in Procs : VisitInv(p)

\* No result of a state is recorded since the latest snapshot: its visits until then were left.
LEMMA NoResultInWindow ==
    ASSUME Base, NEW s, Completed(s) = 0, NEW i \in Positions("RUNTIME_ACTION_COMPLETED"), log[i].state = s
    PROVE  i <= snapshot.seq
  <1> DEFINE S == {0} \cup (Window(s) \cap Positions("RUNTIME_ACTION_COMPLETED"))
  <1>1. Len(log) \in Nat /\ S \subseteq 0 .. Len(log) /\ S # {} /\ i \in 1 .. Len(log) /\ snapshot.seq \in Nat
    BY DEF Base, Types, Window, Positions
  <1>2. \A j \in S : Max(S) >= j
    BY <1>1, MaxFacts
  <1>3. i > snapshot.seq => i \in S
    BY <1>1 DEF Window, Positions
  <1>4. Max(S) = 0
    BY DEF Completed
  <1> HIDE DEF S
  <1> QED BY <1>1, <1>2, <1>3, <1>4

\* An action starts only when the visits that have a result were left.
NewReused ==
    \A j \in New : log'[j].type = "RUNTIME_ACTION_STARTED" =>
        /\ New = {j}
        /\ \A i \in Positions("RUNTIME_ACTION_COMPLETED") : log[i].state = log'[j].state => Left(i)

\* A visit that was left stays left.
LEMMA LeftStays ==
    ASSUME Base, Base', Extended
    PROVE  \A i : Left(i) => Left(i)'
  BY PositionsStay DEF Left

\* Results are reused when an action starts only where the visits with a result were left.
LEMMA ReusedKept ==
    ASSUME Base, Base', Extended, ResultsAreReused, NewReused
    PROVE  ResultsAreReused'
  <1> SUFFICES ASSUME NEW i \in Positions("RUNTIME_ACTION_COMPLETED")', NEW j \in Positions("RUNTIME_ACTION_STARTED")',
                      i < j, log'[i].state = log'[j].state
               PROVE  \E k \in Positions("STATE_TRANSITION")' : i < k /\ k < j
    BY DEF ResultsAreReused
  <1>1. i \in Nat /\ j \in Nat /\ Len(log) \in Nat /\ DOMAIN log = 1 .. Len(log) /\ i \in DOMAIN log' /\ j \in DOMAIN log'
        /\ DOMAIN log' = 1 .. Len(log') /\ Len(log') \in Nat
    BY DEF Positions, Base, Types
  <1>2. CASE j <= Len(log)
    <2>1. i \in Positions("RUNTIME_ACTION_COMPLETED") /\ j \in Positions("RUNTIME_ACTION_STARTED") /\ log[i].state = log[j].state
      BY <1>1, <1>2 DEF Positions, Extended
    <2>2. PICK k \in Positions("STATE_TRANSITION") : i < k /\ k < j
      BY <2>1 DEF ResultsAreReused
    <2> QED BY <2>2, PositionsStay
  <1>3. CASE j > Len(log)
    <2>1. j \in New /\ log'[j].type = "RUNTIME_ACTION_STARTED"
      BY <1>1, <1>3 DEF New, Positions
    <2>2. New = {j}
      BY <2>1 DEF NewReused
    <2>3. i \in Positions("RUNTIME_ACTION_COMPLETED") /\ log'[i] = log[i]
      <3>1. i \notin New
        BY <1>1, <2>2
      <3> QED BY <3>1, PositionsStay
    <2>4. Left(i)
      BY <2>1, <2>3 DEF NewReused
    <2>5. PICK k \in Positions("STATE_TRANSITION") : i < k
      BY <2>4 DEF Left
    <2>6. k \in DOMAIN log /\ k \in Positions("STATE_TRANSITION")'
      BY <2>5, PositionsStay
    <2> QED BY <1>1, <1>3, <2>5, <2>6
  <1> QED BY <1>1, <1>2, <1>3

\* A step that neither starts nor ends a visit, nor takes a result.
LEMMA VisitKept ==
    ASSUME Base, Base', Extended, NEW p \in Procs, VisitInv(p), UNCHANGED snapshot,
           \A i \in New : log'[i].type # "RUNTIME_ACTION_COMPLETED",
           call'[p].pc \in {"enter", "snapshot"} => call[p].pc \in {"enter", "snapshot"},
           call'[p].pc = "start" => call[p].pc = "start" /\ engine'[p].state = engine[p].state,
           (call'[p].work.src = "runtime_action" /\ call'[p].pc \in {"emit", "accept", "guard"}) =>
               /\ call[p].work.src = "runtime_action" /\ call[p].pc \in {"emit", "accept", "guard"}
               /\ call'[p].work.cause = call[p].work.cause
    PROVE  VisitInv(p)'
  <1>1. \A i \in Positions("RUNTIME_ACTION_COMPLETED")' : i \in Positions("RUNTIME_ACTION_COMPLETED") /\ log'[i] = log[i]
    BY PositionsStay
  <1>2. \A i : Left(i) => Left(i)'
    BY LeftStays
  <1>3. call'[p].pc = "start" => From(p)' = From(p)
    BY DEF From
  <1> QED BY <1>1, <1>2, <1>3 DEF VisitInv, Work

\* A step of the only process.
LEMMA VisitsKept ==
    ASSUME NEW p, Procs = {p}, Base, Base', Extended, Visits, NewReused, VisitInv(p)'
    PROVE  Visits'
  BY ReusedKept DEF Visits

\* A step after which the call neither holds a result nor is about to start or to leave a state.
LEMMA VisitPassed ==
    ASSUME Base, Base', Extended, NEW p \in Procs, VisitInv(p), UNCHANGED snapshot,
           \A i \in New : log'[i].type # "RUNTIME_ACTION_COMPLETED",
           call'[p].pc \notin {"enter", "snapshot", "start"},
           call'[p].pc \notin {"emit", "accept", "guard"} \/ call'[p].work.src # "runtime_action"
    PROVE  VisitInv(p)'
  BY VisitKept

\* A signal that did not transition leaves no result in hand.
LEMMA FollowedPasses ==
    ASSUME Base, NEW p \in Procs, Followed(p)
    PROVE  /\ call'[p].pc \notin {"enter", "snapshot", "start"}
           /\ call'[p].pc \notin {"emit", "accept", "guard"} \/ call'[p].work.src # "runtime_action"
  <1>1. CASE Moves(p, At(p, "queue"))
    BY <1>1, AtType DEF Moves, PCs
  <1>2. CASE Moves(p, ToOwnSignal(p))
    BY <1>2, OwnSignalType DEF Moves
  <1>3. CASE \E r : Ends(p, r)
    BY <1>3, NoCallType DEF Ends
  <1> QED BY <1>1, <1>2, <1>3 DEF Followed

\* Steps without an event.
LEMMA QuietVisits ==
    ASSUME NEW p, Procs = {p}, Base, Base', Visits,
           \/ Submit(p) \/ Resume(p) \/ Reopen(p) \/ Crash(p)
           \/ Drained(p) \/ DrainConflict(p) \/ EmitConflict(p) \/ Unhandled(p) \/ GuardConflict(p)
           \/ DrainNext(p) \/ QueueEmpty(p) \/ UpdateJob(p) \/ BeginGuard(p)
    PROVE  Visits'
  <1>1. p \in Procs /\ VisitInv(p)
    BY DEF Visits
  <1>2. ASSUME Framed(p), New = {}, UNCHANGED snapshot,
               call'[p].pc \notin {"enter", "snapshot", "start"},
               call'[p].pc \notin {"emit", "accept", "guard"} \/ call'[p].work.src # "runtime_action"
        PROVE  Visits'
    BY <1>1, <1>2, FramedParts, VisitPassed, VisitsKept DEF NewReused
  <1>3. ASSUME NEW r, Framed(p), New = {}, UNCHANGED snapshot, Ends(p, r) PROVE Visits'
    BY <1>2, <1>3, NoCallType DEF Ends
  <1>4. CASE Submit(p) \/ Resume(p)
    <2>1. PICK sig : Begun(p, sig) /\ UNCHANGED snapshot
      BY <1>1, <1>4, SubmitShape, ResumeShape
    <2>2. call'[p].pc = "drain"
      BY <2>1 DEF Begun, NoCall
    <2> QED BY <1>2, <2>1, <2>2 DEF Begun, Still
  <1>5. CASE Reopen(p)
    <2>1. Framed(p) /\ New = {} /\ UNCHANGED snapshot /\ call'[p].pc = "idle"
      BY <1>1, <1>5, ReopenShape DEF Moves
    <2> QED BY <1>2, <2>1
  <1>6. CASE Crash(p)
    BY <1>1, <1>3, <1>6, CrashShape
  <1>7. CASE Drained(p)
    <2>1. Framed(p) /\ New = {} /\ UNCHANGED snapshot /\ (Moves(p, ToOwnSignal(p)) \/ Ends(p, "ok"))
      BY <1>1, <1>7, DrainedShape DEF Still
    <2>2. Moves(p, ToOwnSignal(p)) => call'[p].pc = "emit" /\ call'[p].work.src = "caller"
      BY <1>1, OwnSignalType DEF Moves
    <2> QED BY <1>2, <1>3, <2>1, <2>2
  <1>8. CASE DrainConflict(p) \/ EmitConflict(p) \/ GuardConflict(p)
    BY <1>1, <1>3, <1>8, DrainConflictShape, EmitConflictShape, GuardConflictShape
  <1>9. CASE Unhandled(p)
    BY <1>1, <1>2, <1>9, UnhandledShape, FollowedPasses DEF Still
  <1>10. CASE DrainNext(p)
    <2>1. Framed(p) /\ New = {} /\ UNCHANGED snapshot /\ call'[p] = ToHook(p) /\ engine[p].queue # <<>>
      BY <1>1, <1>10, DrainNextShape DEF Moves
    <2>2. call'[p].pc = "emit" /\ call'[p].work.src = "hook"
      BY <1>1, <2>1, HookType
    <2> QED BY <1>2, <2>1, <2>2
  <1>11. CASE QueueEmpty(p)
    <2>1. Framed(p) /\ New = {} /\ UNCHANGED snapshot /\ call'[p].pc = "job"
      BY <1>1, <1>11, QueueEmptyShape, ToJobType DEF Moves
    <2> QED BY <1>2, <2>1
  <1>12. CASE UpdateJob(p)
    <2>1. Framed(p) /\ New = {} /\ UNCHANGED snapshot /\ call'[p].pc \in {"queue", "drain"}
      BY <1>1, <1>12, UpdateJobShape, OnwardType DEF Moves, Still
    <2> QED BY <1>2, <2>1
  <1>13. CASE BeginGuard(p)
    <2>1. /\ call[p].pc = "accept" /\ Framed(p) /\ New = {} /\ UNCHANGED snapshot
          /\ call'[p] = [call[p] EXCEPT !.pc = "guard", !.work = [call[p].work EXCEPT !.version = Len(log)]]
      BY <1>1, <1>13, BeginGuardShape DEF Still, Moves
    <2>2. call'[p].pc = "guard" /\ call'[p].work.src = call[p].work.src /\ call'[p].work.cause = call[p].work.cause
      BY <1>1, <2>1, BaseFacts DEF Calls, Works
    <2>3. VisitInv(p)'
      BY <1>1, <2>1, <2>2, FramedParts, VisitKept
    <2> QED BY <2>1, <2>3, FramedParts, VisitsKept DEF NewReused
  <1> QED BY <1>4, <1>5, <1>6, <1>7, <1>8, <1>9, <1>10, <1>11, <1>12, <1>13

\* Steps with one event that is no result and starts nothing.
LEMMA RecordsVisit ==
    ASSUME NEW p, Procs = {p}, Base, Base', Visits,
           Refuse(p) \/ Completes(p) \/ CycleDetected(p) \/ Emit(p) \/ GuardReturns(p)
    PROVE  Visits'
  <1>1. p \in Procs /\ VisitInv(p)
    BY DEF Visits
  <1>2. ASSUME NEW e, New = {Len(log) + 1}, log'[Len(log) + 1] = e, Framed(p), VisitInv(p)',
               e.type \notin {"RUNTIME_ACTION_STARTED", "RUNTIME_ACTION_COMPLETED"}
        PROVE  Visits'
    BY <1>2, FramedParts, VisitsKept DEF NewReused
  <1>3. ASSUME NEW e, New = {Len(log) + 1}, log'[Len(log) + 1] = e, Framed(p), UNCHANGED snapshot,
               e.type \notin {"RUNTIME_ACTION_STARTED", "RUNTIME_ACTION_COMPLETED"},
               call'[p].pc \notin {"enter", "snapshot", "start"},
               call'[p].pc \notin {"emit", "accept", "guard"} \/ call'[p].work.src # "runtime_action"
        PROVE  Visits'
    BY <1>1, <1>2, <1>3, FramedParts, VisitPassed
  <1>4. CASE Refuse(p)
    <2>1. /\ Framed(p) /\ Followed(p) /\ UNCHANGED snapshot
          /\ Appends(p, Event("SIGNAL_REFUSED", From(p), Work(p).sig, Work(p).ev, call[p].id))
      BY <1>1, <1>4, RefuseShape
    <2> QED BY <1>1, <1>3, <2>1, FollowedPasses DEF Appends, Event
  <1>5. CASE Completes(p)
    <2>1. /\ Framed(p) /\ UNCHANGED snapshot
          /\ Appends(p, Event("TRANSITION_COMPLETED", From(p), Work(p).sig, Work(p).ev, call[p].id))
          /\ Moves(p, At(p, "job")) \/ Moves(p, [call[p] EXCEPT !.pc = "queue", !.outer = Work(p)])
      BY <1>1, <1>5, CompletesShape
    <2>2. call'[p].pc \in {"job", "queue"}
      BY <1>1, <2>1, BaseFacts DEF Moves, At, Calls
    <2> QED BY <1>3, <2>1, <2>2 DEF Appends, Event
  <1>6. CASE CycleDetected(p)
    <2>1. /\ Framed(p) /\ New = {Len(log) + 1} /\ Ends(p, "failed") /\ UNCHANGED snapshot
          /\ log'[Len(log) + 1] = Event("SIGNAL_QUEUE_CYCLE_DETECTED", From(p), NoSignal, 0, call[p].id)
      BY <1>1, <1>6, CycleDetectedShape
    <2>2. call'[p].pc = "idle"
      BY <2>1, NoCallType DEF Ends
    <2> QED BY <1>3, <2>1, <2>2 DEF Event
  <1>7. CASE Emit(p)
    <2>1. call[p].pc = "emit" /\ Framed(p) /\ Appends(p, SignalEvent(p)) /\ call'[p] = Emitted(p) /\ UNCHANGED snapshot
      BY <1>1, <1>7, EmitShape DEF Moves
    <2>2. /\ call'[p].pc \in {"accept", "unhandled", "refuse"} /\ call'[p].work.src = call[p].work.src
          /\ call'[p].work.cause = call[p].work.cause
      BY <1>1, <2>1, EmittedType DEF Work
    <2>3. New = {Len(log) + 1} /\ log'[Len(log) + 1] = SignalEvent(p) /\ SignalEvent(p).type = "SIGNAL_EMITTED"
      BY <1>1, <2>1, SignalEventType DEF Appends
    <2>4. VisitInv(p)'
      BY <1>1, <2>1, <2>2, <2>3, FramedParts, VisitKept
    <2> QED BY <1>2, <2>1, <2>3, <2>4
  <1>8. CASE GuardReturns(p)
    <2>1. /\ Framed(p) /\ UNCHANGED snapshot
          /\ Appends(p, Event("GUARD_EVALUATED", From(p), Work(p).sig, Work(p).ev, call[p].id))
          /\ Moves(p, At(p, "exit")) \/ Moves(p, At(p, "refuse"))
      BY <1>1, <1>8, GuardReturnsShape
    <2>2. call'[p].pc \in {"exit", "refuse"}
      BY <1>1, <2>1, AtType DEF Moves, PCs
    <2> QED BY <1>3, <2>1, <2>2 DEF Appends, Event
  <1> QED BY <1>4, <1>5, <1>6, <1>7, <1>8

\* An action starts in a visit that has no result.
LEMMA StartVisits ==
    ASSUME NEW p, Procs = {p}, Base, Base', Visits, StartAction(p)
    PROVE  Visits'
  <1>1. p \in Procs /\ VisitInv(p)
    BY DEF Visits
  <1>2. /\ call[p].pc = "start" /\ Framed(p) /\ UNCHANGED snapshot /\ call'[p].pc = "running"
        /\ Appends(p, Event("RUNTIME_ACTION_STARTED", From(p), NoSignal, 0, call[p].id))
    BY <1>1, StartActionShape, AtType DEF Moves, PCs
  <1>3. PICK n : n = Len(log) + 1
    OBVIOUS
  <1>4. New = {n} /\ log'[n].type = "RUNTIME_ACTION_STARTED" /\ log'[n].state = From(p)
    BY <1>2, <1>3 DEF Appends, Event
  <1>5. NewReused
    BY <1>1, <1>2, <1>4 DEF NewReused, VisitInv
  <1>6. VisitInv(p)'
    BY <1>1, <1>2, <1>4, FramedParts, VisitPassed
  <1> QED BY <1>2, <1>5, <1>6, FramedParts, VisitsKept

\* The result that was just recorded is of the window.
LEMMA CompleteVisits ==
    ASSUME NEW p, Procs = {p}, Base, Base', Visits, CompleteAction(p)
    PROVE  Visits'
  <1>1. p \in Procs /\ VisitInv(p)
    BY DEF Visits
  <1>2. PICK observation \in Observations :
          /\ Appends(p, Event("RUNTIME_ACTION_COMPLETED", From(p), DecidedOutcome(From(p), observation), 0, call[p].id))
          /\ Moves(p, ToOutcome(p, DecidedOutcome(From(p), observation), Len(log) + 1))
    BY <1>1, CompleteActionShape
  <1>3. Framed(p) /\ From(p) \in Runtime /\ UNCHANGED snapshot /\ Extended
    BY <1>1, CompleteActionShape, FramedParts
  <1>4. PICK n : n = Len(log) + 1
    OBVIOUS
  <1>5. New = {n} /\ log'[n].type = "RUNTIME_ACTION_COMPLETED" /\ n \in Nat /\ snapshot.seq < n /\ snapshot.seq \in Nat
    <2>1. New = {n} /\ log'[n] = Event("RUNTIME_ACTION_COMPLETED", From(p), DecidedOutcome(From(p), observation), 0, call[p].id)
      BY <1>2, <1>4 DEF Appends
    <2>2. n \in Nat /\ snapshot.seq < n /\ snapshot.seq \in Nat
      BY <1>1, <1>4, BaseFacts
    <2> QED BY <2>1, <2>2 DEF Event
  <1>6. call'[p].pc = "emit" /\ call'[p].work.cause = n
    <2>1. DecidedOutcome(From(p), observation) \in Signals
      BY <1>3, ConstantFacts DEF DecidedOutcome
    <2> QED BY <1>1, <1>2, <1>4, <1>5, <2>1, OutcomeType DEF Moves
  <1>7. ASSUME NEW i \in Positions("RUNTIME_ACTION_COMPLETED")', i <= snapshot.seq PROVE Left(i)'
    <2>1. i \in Positions("RUNTIME_ACTION_COMPLETED")
      BY <1>3, <1>5, <1>7, PositionsStay
    <2> QED BY <1>1, <1>3, <1>7, <2>1, LeftStays DEF VisitInv
  <1>8. VisitInv(p)'
    BY <1>3, <1>5, <1>6, <1>7 DEF VisitInv, Work
  <1>9. NewReused
    BY <1>5 DEF NewReused
  <1> QED BY <1>3, <1>8, <1>9, VisitsKept

\* The window holds the results of this visit, and no other visit of the state is open.
LEMMA FoldVisits ==
    ASSUME NEW p, Procs = {p}, Base, Base', Visits, FoldWindow(p)
    PROVE  Visits'
  <1>1. p \in Procs /\ VisitInv(p)
    BY DEF Visits
  <1>2. /\ Framed(p) /\ New = {} /\ UNCHANGED <<log, snapshot, engine>> /\ Extended
        /\ \/ Completed(From(p)) # 0 /\ Moves(p, ToOutcome(p, log[Completed(From(p))].sig, Completed(From(p))))
           \/ Completed(From(p)) = 0 /\ Moves(p, At(p, "start"))
    BY <1>1, FoldWindowShape, FramedParts DEF Still
  <1>3. \A i : Left(i) => Left(i)'
    BY <1>2, LeftStays
  <1>4. Positions("RUNTIME_ACTION_COMPLETED")' = Positions("RUNTIME_ACTION_COMPLETED") /\ From(p)' = From(p)
    BY <1>2 DEF Positions, From
  <1>5. CASE Completed(From(p)) # 0 /\ Moves(p, ToOutcome(p, log[Completed(From(p))].sig, Completed(From(p))))
    <2>1. PICK i : i = Completed(From(p))
      OBVIOUS
    <2>2. i \in DOMAIN log /\ i > snapshot.seq
      BY <1>5, <2>1, CompletedFacts
    <2>3. log[i] \in Events /\ i \in Nat
      BY <2>2 DEF Base, Types
    <2>4. log[i].sig \in Signals \cup {NoSignal}
      BY <2>3 DEF Events
    <2>5. call'[p].pc = "emit" /\ call'[p].work.cause = i
      BY <1>1, <1>5, <2>1, <2>3, <2>4, OutcomeType DEF Moves
    <2>6. VisitInv(p)'
      BY <1>1, <1>2, <1>3, <1>4, <2>2, <2>5 DEF VisitInv, Work
    <2> QED BY <1>2, <2>6, VisitsKept DEF NewReused
  <1>6. CASE Completed(From(p)) = 0 /\ Moves(p, At(p, "start"))
    <2>1. call'[p].pc = "start"
      BY <1>1, <1>6, AtType DEF Moves, PCs
    <2>2. ASSUME NEW i \in Positions("RUNTIME_ACTION_COMPLETED"), log[i].state = From(p) PROVE Left(i)
      BY <1>1, <1>6, <2>2, NoResultInWindow DEF VisitInv
    <2>3. VisitInv(p)'
      BY <1>1, <1>2, <1>3, <1>4, <2>1, <2>2 DEF VisitInv
    <2> QED BY <1>2, <2>3, VisitsKept DEF NewReused
  <1> QED BY <1>2, <1>5, <1>6

\* The hooks of a state record no result.
LEMMA RaiseVisits ==
    ASSUME NEW p, Procs = {p}, Base, Base', Visits, Exit(p) \/ Enter(p)
    PROVE  Visits'
  <1>1. p \in Procs /\ VisitInv(p)
    BY DEF Visits
  <1>2. ASSUME NEW t \in {"STATE_EXIT_HOOK", "STATE_ENTRY_HOOK"}, NEW s, NEW sigs \in Seq(Signals), HooksRan(p, t, s, sigs),
               Framed(p), UNCHANGED snapshot,
               call'[p].pc \notin {"start", "emit", "accept", "guard"},
               call'[p].pc \in {"enter", "snapshot"} => call[p].pc \in {"enter", "snapshot"}
        PROVE  Visits'
    <2>1. PICK n : n = Len(log)
      OBVIOUS
    <2>2. n \in Nat /\ Len(sigs) \in Nat /\ New = (n + 1) .. (n + Len(sigs))
      BY <1>1, <1>2, <2>1, BaseFacts DEF HooksRan
    <2>3. ASSUME NEW i \in New PROVE log'[i].type = t
      <3>1. PICK m \in 1 .. Len(sigs) : i = n + m
        <4>1. i - n \in 1 .. Len(sigs) /\ n + (i - n) = i
          BY <2>2
        <4> QED BY <4>1
      <3>2. log'[i] = Event(t, s, sigs[m], 0, call[p].id)
        BY <1>2, <2>1, <3>1 DEF HooksRan
      <3> QED BY <3>2 DEF Event
    <2>4. \A i \in New : log'[i].type \notin {"RUNTIME_ACTION_COMPLETED", "RUNTIME_ACTION_STARTED"}
      BY <1>2, <2>3
    <2>5. VisitInv(p)'
      BY <1>1, <1>2, <2>4, FramedParts, VisitKept
    <2> QED BY <1>2, <2>4, <2>5, FramedParts, VisitsKept DEF NewReused
  <1>3. CASE Exit(p)
    <2>1. /\ Framed(p) /\ call'[p].pc = "transit" /\ ExitHooks(p) \in Seq(Signals) /\ UNCHANGED snapshot
          /\ HooksRan(p, "STATE_EXIT_HOOK", From(p), ExitHooks(p))
      BY <1>1, <1>3, ExitShape, AtType DEF Moves, PCs
    <2> QED BY <1>2, <2>1
  <1>4. CASE Enter(p)
    <2>1. /\ call[p].pc = "enter" /\ Framed(p) /\ call'[p].pc = "snapshot" /\ EntryHooks(p) \in Seq(Signals) /\ UNCHANGED snapshot
          /\ HooksRan(p, "STATE_ENTRY_HOOK", From(p), EntryHooks(p))
      BY <1>1, <1>4, EnterShape, AtType DEF Moves, PCs
    <2> QED BY <1>2, <2>1
  <1> QED BY <1>3, <1>4

\* A transition leaves every visit that has a result.
LEMMA TransitVisits ==
    ASSUME NEW p, Procs = {p}, Base, Base', Visits, Transit(p)
    PROVE  Visits'
  <1>1. p \in Procs /\ VisitInv(p)
    BY DEF Visits
  <1>2. /\ Framed(p) /\ call'[p].pc = "enter" /\ UNCHANGED snapshot /\ Extended /\ New = {Len(log) + 1}
        /\ log'[Len(log) + 1] = Event("STATE_TRANSITION", To(p), Work(p).sig, Work(p).ev, call[p].id)
    BY <1>1, TransitShape, AtType, FramedParts DEF Moves, PCs
  <1>3. PICK n : n = Len(log)
    OBVIOUS
  <1>4. New = {n + 1} /\ log'[n + 1].type = "STATE_TRANSITION" /\ n \in Nat /\ DOMAIN log = 1 .. n
    <2>1. n \in Nat /\ DOMAIN log = 1 .. n
      BY <1>1, <1>3, BaseFacts
    <2>2. New = {n + 1} /\ log'[n + 1].type = "STATE_TRANSITION"
      BY <1>2, <1>3 DEF Event
    <2> QED BY <2>1, <2>2
  <1>5. ASSUME NEW i \in Positions("RUNTIME_ACTION_COMPLETED")' PROVE Left(i)'
    <2>1. i \in Positions("RUNTIME_ACTION_COMPLETED")
      BY <1>2, <1>4, PositionsStay
    <2>2. i < n + 1
      BY <1>4, <2>1 DEF Positions
    <2>3. n + 1 \in Positions("STATE_TRANSITION")'
      BY <1>4 DEF Positions, New
    <2> QED BY <2>2, <2>3 DEF Left
  <1>6. VisitInv(p)'
    BY <1>2, <1>5 DEF VisitInv
  <1>7. NewReused
    BY <1>4 DEF NewReused
  <1> QED BY <1>2, <1>6, <1>7, VisitsKept

\* The window starts after the visits that were left.
LEMMA SnapshotVisits ==
    ASSUME NEW p, Procs = {p}, Base, Base', Visits, SaveSnapshot(p)
    PROVE  Visits'
  <1>1. p \in Procs /\ VisitInv(p)
    BY DEF Visits
  <1>2. call[p].pc = "snapshot" /\ Framed(p) /\ New = {} /\ call'[p].pc = "completed" /\ UNCHANGED log /\ Extended
    BY <1>1, SaveSnapshotShape, AtType, FramedParts DEF Moves, PCs, Still
  <1>3. ASSUME NEW i \in Positions("RUNTIME_ACTION_COMPLETED")' PROVE Left(i)'
    <2>1. i \in Positions("RUNTIME_ACTION_COMPLETED")
      BY <1>2 DEF Positions
    <2> QED BY <1>1, <1>2, <2>1, LeftStays DEF VisitInv
  <1>4. VisitInv(p)'
    BY <1>2, <1>3 DEF VisitInv
  <1> QED BY <1>2, <1>4, VisitsKept DEF NewReused

\* At the start there is no result.
LEMMA InitVisits ==
    ASSUME Init
    PROVE  Visits
  <1>1. \A i \in DOMAIN log : log[i].type = "SKILL_INITIALIZED"
    BY DEF Init, Event
  <1>2. \A p \in Procs : call[p].pc = "idle"
    BY NoCallType DEF Init
  <1> QED BY <1>1, <1>2 DEF Visits, ResultsAreReused, VisitInv, Positions

\* Every step of the only process keeps the visits apart.
LEMMA NextVisits ==
    ASSUME OneProcess, Base, Base', Visits, [Next]_vars
    PROVE  Visits'
  <1>1. PICK p : Procs = {p}
    BY DEF OneProcess
  <1>2. CASE Submit(p) \/ Resume(p) \/ Reopen(p) \/ Crash(p)
    BY <1>1, <1>2, QuietVisits
  <1>3. CASE Step(p)
    <2>1. CASE \/ Drained(p) \/ DrainConflict(p) \/ EmitConflict(p) \/ Unhandled(p) \/ GuardConflict(p)
               \/ DrainNext(p) \/ QueueEmpty(p) \/ UpdateJob(p) \/ BeginGuard(p)
      BY <1>1, <2>1, QuietVisits
    <2>2. CASE Refuse(p) \/ Completes(p) \/ CycleDetected(p) \/ Emit(p) \/ GuardReturns(p)
      BY <1>1, <2>2, RecordsVisit
    <2> QED BY <1>1, <1>3, <2>1, <2>2, StartVisits, CompleteVisits, FoldVisits, RaiseVisits, TransitVisits, SnapshotVisits DEF Step
  <1>4. ASSUME Extended, UNCHANGED <<snapshot, engine, call>>,
               \A i \in New : log'[i].type \notin {"RUNTIME_ACTION_COMPLETED", "RUNTIME_ACTION_STARTED"}
        PROVE  Visits'
    BY <1>1, <1>4, VisitKept, VisitsKept DEF Visits, NewReused
  <1>5. CASE Foreign
    BY <1>4, <1>5, ForeignShape DEF Event
  <1>6. CASE UNCHANGED vars
    <2>1. Extended /\ New = {} /\ UNCHANGED <<snapshot, engine, call>>
      BY <1>6 DEF Base, Types, Extended, New, vars
    <2> QED BY <1>4, <2>1
  <1> QED BY <1>1, <1>2, <1>3, <1>5, <1>6 DEF Next

\* With one process the visits are kept apart in every reachable state.
LEMMA VisitsInductive == OneProcess => (Spec => []Visits)
  <1> SUFFICES ASSUME OneProcess PROVE Spec => []Visits
    OBVIOUS
  <1>1. Init => Visits
    BY InitVisits
  <1>2. Base /\ Base' /\ Visits /\ [Next]_vars => Visits'
    BY NextVisits
  <1> QED BY <1>1, <1>2, DecidesInductive, PTL DEF Spec

\* With one process a runtime state is left on a result of its own, obtained in this visit and once.
THEOREM ActionsDecideOnceAlone == OneProcess => (Spec => []ActionsDecideOnce)
  <1> SUFFICES ASSUME OneProcess PROVE Spec => []ActionsDecideOnce
    OBVIOUS
  <1>1. ASSUME Base, Decides, Visits PROVE ActionsDecideOnce
    <2>1. ResultsAreReused /\ OutcomesAreDecided
      BY <1>1 DEF Visits, Decides
    <2>2. ResultsAreOfThisVisit
      <3> SUFFICES ASSUME NEW p \in Procs, Work(p).src = "runtime_action", call[p].pc \in {"emit", "accept", "guard"},
                          snapshot.seq > LatestTransition
                   PROVE  Work(p).cause > LatestTransition
        BY DEF ResultsAreOfThisVisit
      <3>1. Work(p).cause > snapshot.seq
        BY <1>1 DEF Visits, VisitInv
      <3>2. Work(p).cause \in Nat /\ snapshot.seq \in Nat
        BY <1>1, BaseFacts DEF Work, Works
      <3>3. LatestTransition \in Nat
        <4> DEFINE S == {0} \cup Positions("STATE_TRANSITION")
        <4>1. Len(log) \in Nat /\ S \subseteq 0 .. Len(log) /\ S # {}
          BY <1>1 DEF Base, Types, Positions
        <4>2. Max(S) \in S
          BY <4>1, MaxFacts
        <4> QED BY <4>1, <4>2 DEF LatestTransition
      <3> QED BY <3>1, <3>2, <3>3
    <2> QED BY <2>1, <2>2 DEF ActionsDecideOnce
  <1> QED BY <1>1, DecidesInductive, VisitsInductive, PTL

-----------------------------------------------------------------------------
(* One process: what a call leaves behind agrees *)

\* The hooks that run between two states raise no more signals than one drain serves.
HooksFit == \A s, t \in States : Len(OnExit[s]) + Len(OnEnter[t]) <= MaxDrain

\* A job is done for good: no signal leaves a terminal state.
TerminalsAreFinal == \A s \in Terminals : DOMAIN Target[s] = {}

\* What a call leaves behind agrees.
Ended == \A p \in Procs : EndInv(p)

\* Events that are no transitions do not move the run.
LEMMA RehydratedStays ==
    ASSUME Base, Base', Extended, UNCHANGED snapshot, \A i \in New : log'[i].type # "STATE_TRANSITION"
    PROVE  Rehydrated' = Rehydrated
  <1> DEFINE later == {i \in Positions("STATE_TRANSITION") : i > snapshot.seq}
  <1>1. Positions("STATE_TRANSITION")' = Positions("STATE_TRANSITION")
    BY PositionsStay
  <1>2. {i \in Positions("STATE_TRANSITION")' : i > snapshot'.seq} = later
    BY <1>1
  <1>3. later # {} => log'[Max(later)] = log[Max(later)]
    <2>1. later \subseteq 0 .. Len(log) /\ later \subseteq DOMAIN log /\ Len(log) \in Nat
      BY DEF Base, Types, Positions
    <2>2. later # {} => Max(later) \in later
      BY <2>1, MaxFacts
    <2> HIDE DEF later
    <2> QED BY <2>1, <2>2 DEF Extended
  <1> HIDE DEF later
  <1>4. Rehydrated' = IF later = {} THEN snapshot'.state ELSE log'[Max(later)].state
    BY <1>2 DEF Rehydrated
  <1>5. Rehydrated = IF later = {} THEN snapshot.state ELSE log[Max(later)].state
    BY DEF Rehydrated, later
  <1> QED BY <1>3, <1>4, <1>5

\* A transition moves the run to its target.
LEMMA RehydratedMoves ==
    ASSUME Base, Base', Extended, UNCHANGED snapshot, New = {Len(log) + 1}, log'[Len(log) + 1].type = "STATE_TRANSITION"
    PROVE  Rehydrated' = log'[Len(log) + 1].state
  <1> DEFINE later == {i \in Positions("STATE_TRANSITION")' : i > snapshot'.seq}
  <1>1. PICK n : n = Len(log)
    OBVIOUS
  <1>2. /\ n \in Nat /\ DOMAIN log = 1 .. n /\ DOMAIN log' = 1 .. Len(log') /\ Len(log') \in Nat
        /\ snapshot'.seq \in Nat /\ snapshot'.seq <= n
    BY <1>1 DEF Base, Types
  <1>3. n + 1 \in later /\ \A i \in later : i <= n + 1
    <2>1. \A i \in DOMAIN log' : i > n => i = n + 1
      BY <1>1 DEF New
    <2>2. n + 1 \in DOMAIN log'
      BY <1>1 DEF New
    <2> QED BY <1>1, <1>2, <2>1, <2>2 DEF Positions
  <1>4. later \subseteq Nat /\ later # {}
    BY <1>2, <1>3 DEF Positions
  <1> HIDE DEF later
  <1>5. PICK m \in Nat : m = n + 1
    BY <1>2
  <1>6. Max(later) = n + 1
    <2>1. later \subseteq 0 .. m
      BY <1>3, <1>4, <1>5
    <2>2. Max(later) \in later /\ \A i \in later : Max(later) >= i
      BY <1>4, <2>1, MaxFacts
    <2>3. Max(later) \in Nat /\ m \in later /\ \A i \in later : i <= m
      BY <1>3, <1>4, <1>5, <2>2
    <2>4. Max(later) >= m /\ Max(later) <= m
      BY <2>2, <2>3
    <2> QED BY <1>5, <2>3, <2>4
  <1>7. Rehydrated' = IF later = {} THEN snapshot'.state ELSE log'[Max(later)].state
    BY DEF Rehydrated, later
  <1> QED BY <1>1, <1>4, <1>6, <1>7

\* A snapshot of the whole ledger is the run.
LEMMA RehydratedSaved ==
    ASSUME Base, NEW s, snapshot' = [seq |-> Len(log), state |-> s], UNCHANGED log
    PROVE  Rehydrated' = s
  <1> DEFINE later == {i \in Positions("STATE_TRANSITION")' : i > snapshot'.seq}
  <1>1. later = {}
    BY DEF Base, Types, Positions
  <1>2. Rehydrated' = IF later = {} THEN snapshot'.state ELSE log'[Max(later)].state
    BY DEF Rehydrated
  <1> QED BY <1>1, <1>2

\* The call goes on and the run stays where it is.
LEMMA GoesOn ==
    ASSUME NEW p \in Procs, EndInv(p), Rehydrated' = Rehydrated, engine'[p].state = engine[p].state, UNCHANGED <<job, results>>,
           call[p].pc # "idle", call'[p].pc # "idle", call'[p].id = call[p].id,
           (job.state # engine[p].state /\ LagAllowed(p)) => LagAllowed(p)',
           RoomForHooks(p)'
    PROVE  EndInv(p)'
  BY DEF EndInv

\* The call ends where it is.
LEMMA Stops ==
    ASSUME NEW p \in Procs, Base, EndInv(p), Rehydrated' = Rehydrated, engine'[p].state = engine[p].state, UNCHANGED job,
           call[p].pc # "idle", NEW r, Ends(p, r), r = "ok" => engine[p].state \notin Runtime,
           (job.state # engine[p].state /\ LagAllowed(p)) => LagAllowed(p)'
    PROVE  EndInv(p)'
  <1>1. call'[p].pc = "idle" /\ call[p].id = Len(results) /\ call[p].id \in DOMAIN results /\ results \in Seq(Results)
    BY NoCallType, BaseFacts DEF Ends, EndInv
  <1>2. Len(results') = Len(results) /\ results'[Len(results')] = r
    BY <1>1 DEF Ends
  <1>3. RoomForHooks(p)'
    BY <1>1 DEF RoomForHooks
  <1>4. engine'[p].state = Rehydrated' /\ (job'.done => job'.state \in Terminals /\ job'.state = engine'[p].state)
    BY DEF EndInv
  <1>5. job'.state # engine'[p].state => LagAllowed(p)'
    BY DEF EndInv
  <1> QED BY <1>1, <1>2, <1>3, <1>4, <1>5 DEF EndInv

\* Elsewhere than in a transition there is no queue to bound.
LEMMA NoRoomNeeded ==
    ASSUME NEW p, call'[p].pc \notin {"transit", "enter", "snapshot", "completed"}
    PROVE  RoomForHooks(p)'
  BY DEF RoomForHooks

\* What the proofs of the steps start from.
LEMMA EndParts ==
    ASSUME HookInv, Ended, NEW p \in Procs
    PROVE  /\ Base /\ QueueState(p) /\ EndInv(p) /\ engine[p].depth \in Nat /\ engine[p].queue \in Seq(Signals)
           /\ Len(engine[p].queue) \in Nat /\ MaxDrain \in Nat
  BY HookParts DEF Ended

\* A call begins with the lag that an earlier one left, if the ledger moved since.
LEMMA BeginEnds ==
    ASSUME NEW p, Procs = {p}, HookInv, HookInv', Ended, Submit(p) \/ Resume(p)
    PROVE  EndInv(p)'
  <1>1. Base /\ EndInv(p) /\ p \in Procs /\ Base'
    BY EndParts DEF HookInv
  <1>2. PICK sig : Begun(p, sig) /\ UNCHANGED <<log, snapshot, job, engine>> /\ call[p].pc = "idle"
    BY <1>1, SubmitShape, ResumeShape
  <1>3. call'[p].pc = "drain" /\ call'[p].id = Len(results) + 1 /\ call'[p].resuming /\ call'[p].first
    BY <1>2 DEF Begun, NoCall
  <1>4. Len(results') = Len(results) + 1
    BY <1>1, <1>2, BaseFacts DEF Begun
  <1>5. Rehydrated' = Rehydrated
    BY <1>2 DEF Rehydrated, Positions
  <1>6. job.state # engine[p].state => LagAllowed(p)'
    <2>1. LagAllowed(p) => HasExternal(p)
      BY <1>2 DEF LagAllowed, Processing
    <2>2. Unchecked(p)' /\ (HasExternal(p)' <=> HasExternal(p))
      BY <1>2, <1>3 DEF Unchecked, HasExternal
    <2> QED BY <1>1, <2>1, <2>2 DEF LagAllowed, EndInv
  <1> QED BY <1>1, <1>2, <1>3, <1>4, <1>5, <1>6, NoRoomNeeded DEF EndInv

\* An engine that is opened anew finds the run, and the job is told.
LEMMA OpenedEnds ==
    ASSUME NEW p, Procs = {p}, HookInv, HookInv', Ended, Reopen(p) \/ Crash(p)
    PROVE  EndInv(p)'
  <1>1. Base /\ EndInv(p) /\ p \in Procs
    BY EndParts
  <1>2. /\ engine'[p] = Opened /\ job' = [job EXCEPT !.state = Rehydrated] /\ UNCHANGED <<log, snapshot>>
        /\ call'[p].pc = "idle"
    BY <1>1, ReopenShape, CrashShape, NoCallType DEF Moves, Ends
  <1>3. Rehydrated' = Rehydrated
    BY <1>2 DEF Rehydrated, Positions
  <1>4. engine'[p].state = Rehydrated /\ engine[p].state = Rehydrated
    BY <1>1, <1>2, OpenedType DEF EndInv
  <1>5. job'.state = Rehydrated /\ (job'.done <=> job.done)
    BY <1>1, <1>2, BaseFacts
  <1>6. (Len(results') > 0 /\ results'[Len(results')] = "ok") => engine[p].state \notin Runtime
    <2>1. CASE Reopen(p)
      BY <1>1, <2>1, ReopenShape DEF EndInv, Moves
    <2>2. CASE Crash(p)
      <3>1. call[p].pc # "idle" /\ results' = [results EXCEPT ![call[p].id] = "died"]
        BY <1>1, <2>2, CrashShape DEF Ends
      <3>2. call[p].id = Len(results) /\ call[p].id \in DOMAIN results /\ results \in Seq(Results)
        BY <1>1, <3>1, BaseFacts DEF EndInv
      <3> QED BY <3>1, <3>2
    <2> QED BY <2>1, <2>2
  <1>7. job.done => job.state \in Terminals /\ job.state = engine[p].state
    BY <1>1 DEF EndInv
  <1> QED BY <1>2, <1>3, <1>4, <1>5, <1>6, <1>7, NoRoomNeeded DEF EndInv

\* A call that ends in an error had seen that the ledger moved.
LEMMA ConflictEnds ==
    ASSUME NEW p, Procs = {p}, HookInv, HookInv', Ended, DrainConflict(p) \/ EmitConflict(p) \/ GuardConflict(p)
    PROVE  EndInv(p)'
  <1>1. Base /\ EndInv(p) /\ p \in Procs
    BY EndParts
  <1>2. /\ HasExternal(p) /\ engine'[p] = Stopped(p) /\ Ends(p, "failed") /\ UNCHANGED <<log, snapshot, job>>
        /\ call[p].pc \in {"drain", "emit", "guard"}
    BY <1>1, DrainConflictShape, EmitConflictShape, GuardConflictShape
  <1>3. Rehydrated' = Rehydrated /\ engine'[p].state = engine[p].state /\ call'[p].pc = "idle"
    BY <1>1, <1>2, StoppedType, NoCallType DEF Rehydrated, Positions, Ends
  <1>4. LagAllowed(p)'
    <2>1. engine'[p].seen = engine[p].seen /\ (engine'[p].stale <=> engine[p].stale)
      BY <1>1, <1>2, StoppedType
    <2>2. HasExternal(p)' /\ Unchecked(p)'
      BY <1>2, <1>3, <2>1 DEF HasExternal, Unchecked
    <2> QED BY <2>2 DEF LagAllowed
  <1> QED BY <1>1, <1>2, <1>3, <1>4, Stops

\* No runtime state is left when a call gets to its own signal, or ends.
LEMMA DrainedEnds ==
    ASSUME NEW p, Procs = {p}, HookInv, HookInv', Ended, Drained(p)
    PROVE  EndInv(p)'
  <1>1. Base /\ EndInv(p) /\ p \in Procs
    BY EndParts
  <1>2. /\ call[p].pc = "drain" /\ NothingToRun(p) /\ UNCHANGED <<log, snapshot, job, engine>>
        /\ Moves(p, ToOwnSignal(p)) \/ Ends(p, "ok")
    BY <1>1, DrainedShape
  <1>3. Rehydrated' = Rehydrated /\ engine'[p].state = engine[p].state
    BY <1>2 DEF Rehydrated, Positions
  <1>4. ASSUME Unchecked(p)' PROVE LagAllowed(p) => LagAllowed(p)'
    <2>1. LagAllowed(p) => HasExternal(p)
      BY <1>2 DEF LagAllowed, Processing
    <2>2. HasExternal(p)' <=> HasExternal(p)
      BY <1>2 DEF HasExternal
    <2> QED BY <1>4, <2>1, <2>2 DEF LagAllowed
  <1>5. CASE Moves(p, ToOwnSignal(p))
    <2>1. call'[p].pc = "emit" /\ call'[p].work.src = "caller" /\ call'[p].id = call[p].id /\ UNCHANGED results
      BY <1>1, <1>5, OwnSignalType DEF Moves
    <2>2. Unchecked(p)' /\ RoomForHooks(p)'
      BY <2>1, NoRoomNeeded DEF Unchecked, Work
    <2> QED BY <1>1, <1>2, <1>3, <1>4, <2>1, <2>2, GoesOn
  <1>6. CASE Ends(p, "ok")
    <2>1. Unchecked(p)'
      BY <1>6, NoCallType DEF Ends, Unchecked
    <2> QED BY <1>1, <1>2, <1>3, <1>4, <1>6, <2>1, Stops DEF NothingToRun
  <1> QED BY <1>2, <1>5, <1>6

\* What the job may lag behind when a call is between two signals: only what waits for the engine to be reopened.
LEMMA NoLagBetween ==
    ASSUME HookInv, Ended, NEW p \in Procs,
           \/ call[p].pc = "drain" /\ ~StaleChain(p)
           \/ call[p].pc \in {"start", "running"}
           \/ call[p].pc \in {"emit", "accept", "unhandled", "refuse", "guard", "exit", "transit"} /\ Work(p).src # "hook"
              /\ ~(call[p].pc = "emit" /\ Work(p).src = "caller" /\ HasExternal(p))
    PROVE  job.state = engine[p].state
  <1>1. EndInv(p)
    BY EndParts
  <1>2. ~LagAllowed(p)
    BY DEF LagAllowed, Unchecked, StaleChain, Processing
  <1> QED BY <1>1, <1>2 DEF EndInv

\* Steps of a call between two signals.
LEMMA ActionEnds ==
    ASSUME NEW p, Procs = {p}, HookInv, HookInv', Ended, FoldWindow(p) \/ StartAction(p) \/ CompleteAction(p)
    PROVE  EndInv(p)'
  <1>1. Base /\ EndInv(p) /\ p \in Procs /\ Base'
    BY EndParts DEF HookInv
  <1>2. Framed(p) /\ UNCHANGED <<snapshot, job>> /\ engine'[p].state = engine[p].state
        /\ (\A i \in New : log'[i].type # "STATE_TRANSITION")
        /\ \/ call[p].pc = "drain" /\ ~StaleChain(p)
           \/ call[p].pc \in {"start", "running"}
    <2>1. CASE FoldWindow(p)
      BY <1>1, <2>1, FoldWindowShape DEF Still
    <2>2. CASE StartAction(p)
      <3>1. /\ call[p].pc = "start" /\ Framed(p) /\ UNCHANGED <<snapshot, job>>
            /\ Appends(p, Event("RUNTIME_ACTION_STARTED", From(p), NoSignal, 0, call[p].id))
        BY <1>1, <2>2, StartActionShape
      <3>2. engine'[p].state = engine[p].state
        BY <1>1, <3>1, FramedParts, AppendsEngine
      <3> QED BY <3>1, <3>2 DEF Appends, Event
    <2>3. CASE CompleteAction(p)
      <3>1. PICK g : Appends(p, Event("RUNTIME_ACTION_COMPLETED", From(p), g, 0, call[p].id))
        BY <1>1, <2>3, CompleteActionShape
      <3>2. call[p].pc = "running" /\ Framed(p) /\ UNCHANGED <<snapshot, job>>
        BY <1>1, <2>3, CompleteActionShape
      <3>3. engine'[p].state = engine[p].state
        BY <1>1, <3>1, <3>2, FramedParts, AppendsEngine
      <3> QED BY <3>1, <3>2, <3>3 DEF Appends, Event
    <2> QED BY <2>1, <2>2, <2>3
  <1>3. Rehydrated' = Rehydrated
    BY <1>1, <1>2, FramedParts, RehydratedStays
  <1>4. UNCHANGED results /\ call'[p].pc \in {"emit", "start", "running"} /\ call'[p].id = call[p].id
    <2>1. ASSUME NEW g, NEW i \in Nat, Moves(p, ToOutcome(p, g, i))
          PROVE  UNCHANGED results /\ call'[p].pc = "emit" /\ call'[p].id = call[p].id
      BY <1>1, <2>1, BaseFacts DEF Moves, ToOutcome, Calls
    <2>2. CASE Moves(p, At(p, "start")) \/ Moves(p, At(p, "running"))
      BY <1>1, <2>2, AtType DEF Moves, PCs
    <2>3. CASE FoldWindow(p)
      <3>1. Completed(From(p)) # 0 => Completed(From(p)) \in Nat
        BY <1>1, CompletedFacts DEF Base, Types
      <3> QED BY <1>1, <2>1, <2>2, <2>3, <3>1, FoldWindowShape
    <2>4. CASE StartAction(p)
      BY <1>1, <2>2, <2>4, StartActionShape
    <2>5. CASE CompleteAction(p)
      <3>1. PICK g : Moves(p, ToOutcome(p, g, Len(log) + 1))
        BY <1>1, <2>5, CompleteActionShape
      <3> QED BY <1>1, <2>1, <3>1, BaseFacts
    <2> QED BY <2>3, <2>4, <2>5
  <1>5. job.state = engine[p].state /\ call[p].pc # "idle"
    BY <1>1, <1>2, NoLagBetween
  <1>6. RoomForHooks(p)'
    BY <1>4, NoRoomNeeded
  <1> QED BY <1>1, <1>2, <1>3, <1>4, <1>5, <1>6, GoesOn

\* A call in the middle of a hook signal, or about to take the next one, lags only while the rest fits the drain.
LagInDrain(p) ==
    /\ call[p].pc = "queue" \/ (call[p].pc \in Processing \cup {"emit"} /\ Work(p).src = "hook")
    /\ engine[p].depth + Len(engine[p].queue) <= MaxDrain

\* The queue and the depth stay: so does what may lag.
LEMMA DrainLagStays ==
    ASSUME NEW p, Work(p).src = "hook", LagInDrain(p), engine'[p].depth = engine[p].depth, engine'[p].queue = engine[p].queue,
           \/ call'[p].pc = "queue"
           \/ call'[p].pc \in Processing /\ call'[p].work.src = "hook"
    PROVE  LagAllowed(p)'
  <1>1. call'[p].pc = "queue" \/ (call'[p].pc \in Processing \cup {"emit"} /\ Work(p)'.src = "hook")
    BY DEF Work
  <1> QED BY <1>1 DEF LagInDrain, LagAllowed

\* A call that processes a signal, before the transition.
LEMMA LagBefore ==
    ASSUME HookInv, Ended, NEW p \in Procs, job.state # engine[p].state,
           call[p].pc \in {"emit", "accept", "unhandled", "refuse", "guard", "exit"},
           ~(call[p].pc = "emit" /\ Work(p).src = "caller" /\ HasExternal(p))
    PROVE  Work(p).src = "hook" /\ LagInDrain(p)
  <1>1. EndInv(p)
    BY EndParts
  <1>2. Work(p).src = "hook"
    BY NoLagBetween
  <1>3. LagAllowed(p) /\ ~Unchecked(p)
    BY <1>1, <1>2 DEF EndInv, Unchecked
  <1> QED BY <1>2, <1>3 DEF LagAllowed, LagInDrain

\* From the signal to its guard the job lags as before.
LEMMA AcceptEnds ==
    ASSUME NEW p, Procs = {p}, HookInv, HookInv', Ended, Emit(p) \/ BeginGuard(p) \/ GuardReturns(p)
    PROVE  EndInv(p)'
  <1>1. Base /\ EndInv(p) /\ p \in Procs /\ Base'
    BY EndParts DEF HookInv
  <1>2. /\ Framed(p) /\ UNCHANGED <<snapshot, job, results>> /\ engine'[p].state = engine[p].state
        /\ engine'[p].depth = engine[p].depth /\ engine'[p].queue = engine[p].queue
        /\ \A i \in New : log'[i].type # "STATE_TRANSITION"
        /\ call'[p].pc \in {"accept", "unhandled", "refuse", "guard", "exit"} /\ call'[p].id = call[p].id
        /\ call'[p].work.src = call[p].work.src
        /\ call[p].pc \in {"emit", "accept", "guard"} /\ ~(call[p].pc = "emit" /\ Work(p).src = "caller" /\ HasExternal(p))
    <2>1. CASE Emit(p)
      <3>1. /\ call[p].pc = "emit" /\ ~(Work(p).src = "caller" /\ HasExternal(p)) /\ Framed(p)
            /\ Appends(p, SignalEvent(p)) /\ call'[p] = Emitted(p) /\ UNCHANGED <<snapshot, job, results>>
        BY <1>1, <2>1, EmitShape DEF Moves
      <3>2. /\ engine'[p].state = engine[p].state
            /\ engine'[p].depth = engine[p].depth /\ engine'[p].queue = engine[p].queue
        BY <1>1, <3>1, FramedParts, AppendsEngine
      <3>3. /\ call'[p].pc \in {"accept", "unhandled", "refuse"} /\ call'[p].id = call[p].id
            /\ call'[p].work.src = call[p].work.src
        BY <1>1, <3>1, EmittedType DEF Work
      <3>4. \A i \in New : log'[i].type # "STATE_TRANSITION"
        BY <1>1, <3>1, SignalEventType DEF Appends
      <3> QED BY <3>1, <3>2, <3>3, <3>4
    <2>2. CASE BeginGuard(p)
      <3>1. /\ call[p].pc = "accept" /\ Framed(p) /\ New = {} /\ engine'[p] = engine[p] /\ UNCHANGED <<snapshot, job, results>>
            /\ call'[p] = [call[p] EXCEPT !.pc = "guard", !.work = [call[p].work EXCEPT !.version = Len(log)]]
        BY <1>1, <2>2, BeginGuardShape DEF Still, Moves
      <3>2. call'[p].pc = "guard" /\ call'[p].id = call[p].id /\ call'[p].work.src = call[p].work.src
        BY <1>1, <3>1, BaseFacts DEF Calls, Works
      <3> QED BY <3>1, <3>2
    <2>3. CASE GuardReturns(p)
      <3>1. /\ call[p].pc = "guard" /\ Framed(p) /\ UNCHANGED <<snapshot, job>>
            /\ Appends(p, Event("GUARD_EVALUATED", From(p), Work(p).sig, Work(p).ev, call[p].id))
            /\ Moves(p, At(p, "exit")) \/ Moves(p, At(p, "refuse"))
        BY <1>1, <2>3, GuardReturnsShape
      <3>2. /\ engine'[p].state = engine[p].state
            /\ engine'[p].depth = engine[p].depth /\ engine'[p].queue = engine[p].queue
        BY <1>1, <3>1, FramedParts, AppendsEngine
      <3>3. /\ call'[p].pc \in {"exit", "refuse"} /\ call'[p].id = call[p].id /\ UNCHANGED results
            /\ call'[p].work.src = call[p].work.src
        BY <1>1, <3>1, AtType DEF Moves, PCs
      <3>4. \A i \in New : log'[i].type # "STATE_TRANSITION"
        BY <3>1 DEF Appends, Event
      <3> QED BY <3>1, <3>2, <3>3, <3>4
    <2> QED BY <2>1, <2>2, <2>3
  <1>3. Rehydrated' = Rehydrated
    BY <1>1, <1>2, FramedParts, RehydratedStays
  <1>4. job.state # engine[p].state => LagAllowed(p)'
    <2> SUFFICES ASSUME job.state # engine[p].state PROVE LagAllowed(p)'
      OBVIOUS
    <2>1. Work(p).src = "hook" /\ LagInDrain(p)
      BY <1>1, <1>2, LagBefore
    <2>2. call'[p].pc \in Processing /\ call'[p].work.src = "hook"
      BY <1>2, <2>1 DEF Processing, Work
    <2> QED BY <1>2, <2>1, <2>2, DrainLagStays
  <1> QED BY <1>1, <1>2, <1>3, <1>4, NoRoomNeeded, GoesOn

\* An outcome always transitions: what does not is the caller's signal, which is refused, or a hook's.
LEMMA FollowedEnds ==
    ASSUME NEW p, Procs = {p}, HookInv, HookInv', Decides, Ended, Unhandled(p) \/ Refuse(p)
    PROVE  EndInv(p)'
  <1>1. Base /\ EndInv(p) /\ p \in Procs /\ Base' /\ QueueState(p)
    BY EndParts DEF HookInv
  <1>2. /\ Framed(p) /\ UNCHANGED <<snapshot, job>> /\ engine'[p].state = engine[p].state
        /\ engine'[p].depth = engine[p].depth /\ engine'[p].queue = engine[p].queue
        /\ \A i \in New : log'[i].type # "STATE_TRANSITION"
        /\ call[p].pc \in {"unhandled", "refuse"} /\ Followed(p)
    <2>1. CASE Unhandled(p)
      BY <1>1, <2>1, UnhandledShape DEF Still
    <2>2. CASE Refuse(p)
      <3>1. /\ call[p].pc = "refuse" /\ Framed(p) /\ UNCHANGED <<snapshot, job>> /\ Followed(p)
            /\ Appends(p, Event("SIGNAL_REFUSED", From(p), Work(p).sig, Work(p).ev, call[p].id))
        BY <1>1, <2>2, RefuseShape
      <3>2. /\ engine'[p].state = engine[p].state
            /\ engine'[p].depth = engine[p].depth /\ engine'[p].queue = engine[p].queue
        BY <1>1, <3>1, FramedParts, AppendsEngine
      <3> QED BY <3>1, <3>2 DEF Appends, Event
    <2> QED BY <2>1, <2>2
  <1>3. Rehydrated' = Rehydrated
    BY <1>1, <1>2, FramedParts, RehydratedStays
  <1>4. Work(p).src # "runtime_action"
    BY <1>2 DEF Decides, WorkIsDecided
  <1>5. engine[p].draining <=> Work(p).src = "hook"
    BY <1>1, <1>2 DEF QueueState, Processing
  <1>6. CASE engine[p].draining
    <2>1. call'[p].pc = "queue" /\ call'[p].id = call[p].id /\ UNCHANGED results
      BY <1>1, <1>2, <1>6, AtType DEF Followed, Moves, PCs
    <2>2. job.state # engine[p].state => LagAllowed(p)'
      BY <1>1, <1>2, <1>5, <1>6, <2>1, LagBefore, DrainLagStays
    <2> QED BY <1>1, <1>2, <1>3, <2>1, <2>2, NoRoomNeeded, GoesOn
  <1>7. CASE ~engine[p].draining
    <2>1. Work(p).src = "caller"
      <3>1. Work(p).src \in Sources
        BY <1>1, BaseFacts DEF Work, Works
      <3> QED BY <1>4, <1>5, <1>7, <3>1 DEF Sources
    <2>2. Ends(p, "refused")
      BY <1>2, <1>7, <2>1 DEF Followed
    <2>3. job.state = engine[p].state
      BY <1>1, <1>2, <2>1, NoLagBetween
    <2> QED BY <1>1, <1>2, <1>3, <2>2, <2>3, Stops
  <1> QED BY <1>6, <1>7

\* The hooks of a state leave events of their own.
LEMMA HookEventsOnly ==
    ASSUME Base, NEW p \in Procs, NEW t \in {"STATE_EXIT_HOOK", "STATE_ENTRY_HOOK"}, NEW s, NEW sigs \in Seq(Signals),
           HooksRan(p, t, s, sigs)
    PROVE  \A i \in New : log'[i].type \in {"STATE_EXIT_HOOK", "STATE_ENTRY_HOOK"}
  <1>1. PICK n : n = Len(log)
    OBVIOUS
  <1>2. n \in Nat /\ Len(sigs) \in Nat /\ New = (n + 1) .. (n + Len(sigs))
    BY <1>1, BaseFacts DEF HooksRan
  <1>3. ASSUME NEW i \in New PROVE log'[i].type = t
    <2>1. PICK m \in 1 .. Len(sigs) : i = n + m
      <3>1. i - n \in 1 .. Len(sigs) /\ n + (i - n) = i
        BY <1>2
      <3> QED BY <3>1
    <2>2. log'[i] = Event(t, s, sigs[m], 0, call[p].id)
      BY <1>1, <2>1 DEF HooksRan
    <2> QED BY <2>2 DEF Event
  <1> QED BY <1>3

\* The exit hooks of a signal of the call fill an empty queue; those of a hook's leave the job behind.
LEMMA ExitEnds ==
    ASSUME NEW p, Procs = {p}, HookInv, HookInv', Ended, Exit(p)
    PROVE  EndInv(p)'
  <1>1. Base /\ EndInv(p) /\ p \in Procs /\ Base' /\ QueueState(p) /\ engine[p].queue \in Seq(Signals)
    BY EndParts DEF HookInv
  <1>2. /\ call[p].pc = "exit" /\ Framed(p) /\ Moves(p, At(p, "transit")) /\ UNCHANGED <<snapshot, job>>
        /\ ExitHooks(p) \in Seq(Signals) /\ Len(ExitHooks(p)) <= Len(OnExit[From(p)])
        /\ HooksRan(p, "STATE_EXIT_HOOK", From(p), ExitHooks(p))
    BY <1>1, ExitShape
  <1>3. \A i \in New : log'[i].type # "STATE_TRANSITION"
    BY <1>1, <1>2, HookEventsOnly
  <1>4. Rehydrated' = Rehydrated
    BY <1>1, <1>2, <1>3, FramedParts, RehydratedStays
  <1>5. /\ call'[p].pc = "transit" /\ call'[p].id = call[p].id /\ call'[p].work = call[p].work /\ UNCHANGED results
        /\ engine'[p].state = engine[p].state /\ engine'[p].queue = engine[p].queue \o ExitHooks(p)
    BY <1>1, <1>2, AtType DEF Moves, PCs, HooksRan
  <1>6. job.state # engine[p].state => LagAllowed(p)'
    <2> SUFFICES ASSUME job.state # engine[p].state PROVE LagAllowed(p)'
      OBVIOUS
    <2>1. Work(p).src = "hook"
      BY <1>1, <1>2, LagBefore
    <2> QED BY <1>5, <2>1 DEF LagAllowed, Work
  <1>7. RoomForHooks(p)'
    <2> SUFFICES ASSUME Work(p).src # "hook" PROVE Len(engine'[p].queue) <= Len(OnExit[From(p)])
      BY <1>5 DEF RoomForHooks, Work, From
    <2>1. engine[p].queue = <<>>
      BY <1>1, <1>2 DEF QueueState, Empty, Unchecked
    <2>2. engine'[p].queue = ExitHooks(p)
      BY <1>2, <1>5, <2>1
    <2> QED BY <1>2, <2>2
  <1> QED BY <1>1, <1>2, <1>4, <1>5, <1>6, <1>7, GoesOn

\* The run has moved and the job has not been told; a run in a final state does not move.
LEMMA TransitEnds ==
    ASSUME NEW p, Procs = {p}, TerminalsAreFinal, HookInv, HookInv', Ended, Transit(p)
    PROVE  EndInv(p)'
  <1>1. Base /\ EndInv(p) /\ p \in Procs /\ Base'
    BY EndParts DEF HookInv
  <1>2. /\ call[p].pc = "transit" /\ Framed(p) /\ Moves(p, At(p, "enter")) /\ UNCHANGED <<snapshot, job>>
        /\ New = {Len(log) + 1} /\ log'[Len(log) + 1] = Event("STATE_TRANSITION", To(p), Work(p).sig, Work(p).ev, call[p].id)
        /\ engine'[p] = [engine[p] EXCEPT !.state = To(p), !.stale = @ \/ Len(log) > engine[p].seen, !.seen = Len(log) + 1]
    BY <1>1, TransitShape
  <1>3. Rehydrated' = To(p)
    BY <1>1, <1>2, FramedParts, RehydratedMoves DEF Event
  <1>4. engine'[p].state = To(p) /\ engine'[p].queue = engine[p].queue
    BY <1>1, <1>2, BaseFacts DEF Engines
  <1>5. call'[p].pc = "enter" /\ call'[p].id = call[p].id /\ call'[p].work = call[p].work /\ UNCHANGED results
    BY <1>1, <1>2, AtType DEF Moves, PCs
  <1>6. ~job.done
    <2>1. Accepts(p)
      BY <1>1, <1>2 DEF Base, SignalKnown
    <2>2. From(p) \notin Terminals
      BY <2>1 DEF TerminalsAreFinal, Accepts
    <2> QED BY <1>1, <2>2 DEF EndInv, From
  <1>7. LagAllowed(p)'
    BY <1>5 DEF LagAllowed
  <1>8. RoomForHooks(p)'
    <2> SUFFICES ASSUME Work(p).src # "hook" PROVE \E s \in States : Len(engine'[p].queue) <= Len(OnExit[s])
      BY <1>5 DEF RoomForHooks, Work
    <2>1. Len(engine[p].queue) <= Len(OnExit[From(p)])
      BY <1>1, <1>2 DEF EndInv, RoomForHooks
    <2> QED BY <1>1, <1>4, <2>1, BaseFacts
  <1> QED BY <1>1, <1>2, <1>3, <1>4, <1>5, <1>6, <1>7, <1>8 DEF EndInv

\* The entry hooks add to them, and both fit the drain.
LEMMA EnterEnds ==
    ASSUME NEW p, Procs = {p}, HooksFit, HookInv, HookInv', Ended, Enter(p)
    PROVE  EndInv(p)'
  <1>1. Base /\ EndInv(p) /\ p \in Procs /\ Base' /\ engine[p].queue \in Seq(Signals)
    BY EndParts DEF HookInv
  <1>2. /\ call[p].pc = "enter" /\ Framed(p) /\ Moves(p, At(p, "snapshot")) /\ UNCHANGED <<snapshot, job>>
        /\ EntryHooks(p) \in Seq(Signals) /\ Len(EntryHooks(p)) <= Len(OnEnter[From(p)])
        /\ HooksRan(p, "STATE_ENTRY_HOOK", From(p), EntryHooks(p))
    BY <1>1, EnterShape
  <1>3. \A i \in New : log'[i].type # "STATE_TRANSITION"
    BY <1>1, <1>2, HookEventsOnly
  <1>4. Rehydrated' = Rehydrated
    BY <1>1, <1>2, <1>3, FramedParts, RehydratedStays
  <1>5. /\ call'[p].pc = "snapshot" /\ call'[p].id = call[p].id /\ call'[p].work = call[p].work /\ UNCHANGED results
        /\ engine'[p].state = engine[p].state /\ engine'[p].queue = engine[p].queue \o EntryHooks(p)
    BY <1>1, <1>2, AtType DEF Moves, PCs, HooksRan
  <1>6. LagAllowed(p)'
    BY <1>5 DEF LagAllowed
  <1>7. RoomForHooks(p)'
    <2> SUFFICES ASSUME Work(p).src # "hook" PROVE Len(engine'[p].queue) <= MaxDrain
      BY <1>5 DEF RoomForHooks, Work
    <2>1. PICK s \in States : Len(engine[p].queue) <= Len(OnExit[s])
      BY <1>1, <1>2 DEF EndInv, RoomForHooks
    <2>2. From(p) \in States
      BY <1>1, BaseFacts
    <2>3. Len(OnExit[s]) + Len(OnEnter[From(p)]) <= MaxDrain
      BY <2>2 DEF HooksFit
    <2>4. Len(engine'[p].queue) = Len(engine[p].queue) + Len(EntryHooks(p))
      BY <1>1, <1>2, <1>5
    <2>5. /\ Len(engine[p].queue) \in Nat /\ Len(EntryHooks(p)) \in Nat /\ MaxDrain \in Nat
          /\ Len(OnExit[s]) \in Nat /\ Len(OnEnter[From(p)]) \in Nat
      BY <1>1, <1>2, <2>2, ConstantFacts
    <2>6. PICK a, b, x, y : a = Len(engine[p].queue) /\ b = Len(EntryHooks(p)) /\ x = Len(OnExit[s]) /\ y = Len(OnEnter[From(p)])
      OBVIOUS
    <2>7. a \in Nat /\ b \in Nat /\ x \in Nat /\ y \in Nat /\ a <= x /\ b <= y /\ x + y <= MaxDrain /\ MaxDrain \in Nat
      BY <1>2, <2>1, <2>3, <2>5, <2>6
    <2>8. a + b <= MaxDrain
      BY <2>7
    <2> QED BY <2>4, <2>6, <2>8
  <1> QED BY <1>1, <1>2, <1>4, <1>5, <1>6, <1>7, GoesOn

\* The snapshot is the run.
LEMMA SnapshotEnds ==
    ASSUME NEW p, Procs = {p}, HookInv, HookInv', Ended, SaveSnapshot(p)
    PROVE  EndInv(p)'
  <1>1. Base /\ EndInv(p) /\ p \in Procs
    BY EndParts
  <1>2. /\ call[p].pc = "snapshot" /\ UNCHANGED <<log, job, engine, results>>
        /\ snapshot' = [seq |-> Len(log), state |-> From(p)]
        /\ call'[p].pc = "completed" /\ call'[p].id = call[p].id /\ call'[p].work = call[p].work
    BY <1>1, SaveSnapshotShape, AtType DEF Moves, PCs
  <1>3. Rehydrated' = Rehydrated
    BY <1>1, <1>2, RehydratedSaved DEF EndInv, From
  <1>4. LagAllowed(p)'
    BY <1>2 DEF LagAllowed
  <1>5. RoomForHooks(p)'
    BY <1>1, <1>2 DEF EndInv, RoomForHooks, Work
  <1> QED BY <1>1, <1>2, <1>3, <1>4, <1>5, GoesOn

\* The queue that the transition left fits one drain.
LEMMA CompletesEnds ==
    ASSUME NEW p, Procs = {p}, HookInv, HookInv', Ended, Completes(p)
    PROVE  EndInv(p)'
  <1>1. Base /\ EndInv(p) /\ p \in Procs /\ Base' /\ QueueState(p) /\ Len(engine[p].queue) \in Nat
    BY EndParts DEF HookInv
  <1>2. /\ call[p].pc = "completed" /\ Framed(p) /\ UNCHANGED <<snapshot, job>>
        /\ Appends(p, Event("TRANSITION_COMPLETED", From(p), Work(p).sig, Work(p).ev, call[p].id))
        /\ \/ engine[p].draining /\ Moves(p, At(p, "job"))
           \/ ~engine[p].draining /\ Moves(p, [call[p] EXCEPT !.pc = "queue", !.outer = Work(p)])
    BY <1>1, CompletesShape
  <1>3. /\ engine'[p].state = engine[p].state
        /\ engine'[p].depth = engine[p].depth /\ engine'[p].queue = engine[p].queue
    BY <1>1, <1>2, FramedParts, AppendsEngine
  <1>4. Rehydrated' = Rehydrated
    BY <1>1, <1>2, FramedParts, RehydratedStays DEF Appends, Event
  <1>5. CASE engine[p].draining /\ Moves(p, At(p, "job"))
    <2>1. call'[p].pc = "job" /\ call'[p].id = call[p].id /\ UNCHANGED results
      BY <1>1, <1>5, AtType DEF Moves, PCs
    <2>2. LagAllowed(p)'
      BY <2>1 DEF LagAllowed
    <2> QED BY <1>1, <1>2, <1>3, <1>4, <2>1, <2>2, NoRoomNeeded, GoesOn
  <1>6. CASE ~engine[p].draining /\ Moves(p, [call[p] EXCEPT !.pc = "queue", !.outer = Work(p)])
    <2>1. call'[p].pc = "queue" /\ call'[p].id = call[p].id /\ UNCHANGED results
      BY <1>1, <1>6, BaseFacts DEF Moves, Calls
    <2>2. engine[p].depth = 0 /\ Work(p).src # "hook"
      BY <1>1, <1>2, <1>6 DEF QueueState, Processing
    <2>3. Len(engine[p].queue) <= MaxDrain
      BY <1>1, <1>2, <2>2 DEF EndInv, RoomForHooks
    <2>4. LagAllowed(p)'
      BY <1>1, <1>3, <2>1, <2>2, <2>3 DEF LagAllowed
    <2> QED BY <1>1, <1>2, <1>3, <1>4, <2>1, <2>4, NoRoomNeeded, GoesOn
  <1> QED BY <1>2, <1>5, <1>6

\* At the limit nothing that the drain still has to do may lag.
LEMMA QueueEnds ==
    ASSUME NEW p, Procs = {p}, HookInv, HookInv', Ended, DrainNext(p) \/ CycleDetected(p) \/ QueueEmpty(p)
    PROVE  EndInv(p)'
  <1>1. Base /\ EndInv(p) /\ p \in Procs /\ Base' /\ QueueState(p) /\ engine[p].queue \in Seq(Signals) /\ engine[p].depth \in Nat
        /\ Len(engine[p].queue) \in Nat /\ MaxDrain \in Nat
    BY EndParts DEF HookInv
  <1>2. call[p].pc = "queue"
    BY <1>1, DrainNextShape, CycleDetectedShape, QueueEmptyShape
  <1>3. (job.state # engine[p].state) => engine[p].depth + Len(engine[p].queue) <= MaxDrain
    <2>1. ~Unchecked(p)
      BY <1>2 DEF Unchecked
    <2> QED BY <1>1, <1>2, <2>1 DEF EndInv, LagAllowed
  <1>4. CASE DrainNext(p)
    <2>1. /\ engine[p].queue # <<>> /\ engine'[p] = Taking(p) /\ call'[p] = ToHook(p) /\ UNCHANGED <<log, snapshot, job, results>>
      BY <1>1, <1>4, DrainNextShape DEF Moves
    <2>2. /\ call'[p].pc = "emit" /\ call'[p].id = call[p].id /\ call'[p].work.src = "hook"
          /\ engine'[p].state = engine[p].state /\ engine'[p].depth = engine[p].depth + 1
          /\ engine'[p].queue = Tail(engine[p].queue)
      BY <1>1, <2>1, HookType, TakingType
    <2>3. Len(engine'[p].queue) = Len(engine[p].queue) - 1
      BY <1>1, <2>1, <2>2
    <2>4. Rehydrated' = Rehydrated
      BY <2>1 DEF Rehydrated, Positions
    <2>5. job.state # engine[p].state => LagAllowed(p)'
      <3>1. job.state # engine[p].state => engine'[p].depth + Len(engine'[p].queue) <= MaxDrain
        BY <1>1, <1>3, <2>2, <2>3
      <3> QED BY <2>2, <3>1 DEF LagAllowed, Work
    <2> QED BY <1>1, <1>2, <2>1, <2>2, <2>4, <2>5, NoRoomNeeded, GoesOn
  <1>5. CASE CycleDetected(p)
    <2>1. /\ Framed(p) /\ UNCHANGED <<snapshot, job>> /\ New = {Len(log) + 1}
          /\ log'[Len(log) + 1] = Event("SIGNAL_QUEUE_CYCLE_DETECTED", From(p), NoSignal, 0, call[p].id)
          /\ engine'[p] = CutShort(p) /\ Ends(p, "failed")
      BY <1>1, <1>5, CycleDetectedShape
    <2>2. engine'[p].state = engine[p].state
      BY <1>1, <2>1, CutShortType
    <2>3. job.state = engine[p].state
      <3>1. engine[p].queue # <<>> /\ AtLimit(p)
        BY <1>5 DEF CycleDetected
      <3>2. Len(engine[p].queue) > 0 /\ engine[p].depth + 1 > MaxDrain
        BY <1>1, <3>1 DEF AtLimit
      <3> QED BY <1>1, <1>3, <3>2
    <2>4. Rehydrated' = Rehydrated
      BY <1>1, <2>1, FramedParts, RehydratedStays DEF Event
    <2> QED BY <1>1, <1>2, <2>1, <2>2, <2>3, <2>4, Stops
  <1>6. CASE QueueEmpty(p)
    <2>1. /\ engine'[p].state = engine[p].state /\ UNCHANGED <<log, snapshot, job, results>>
          /\ call'[p].pc = "job" /\ call'[p].id = call[p].id
      BY <1>1, <1>6, QueueEmptyShape, ToJobType, StoppedType DEF Moves
    <2>2. Rehydrated' = Rehydrated
      BY <2>1 DEF Rehydrated, Positions
    <2>3. LagAllowed(p)'
      BY <2>1 DEF LagAllowed
    <2> QED BY <1>1, <1>2, <2>1, <2>2, <2>3, NoRoomNeeded, GoesOn
  <1> QED BY <1>4, <1>5, <1>6

\* The job is told where the run is.
LEMMA JobEnds ==
    ASSUME NEW p, Procs = {p}, HookInv, HookInv', Ended, UpdateJob(p)
    PROVE  EndInv(p)'
  <1>1. Base /\ EndInv(p) /\ p \in Procs
    BY EndParts
  <1>2. /\ call[p].pc = "job" /\ UNCHANGED <<log, snapshot, engine, results>>
        /\ job' = [state |-> From(p), done |-> From(p) \in Terminals]
        /\ call'[p].pc \in {"queue", "drain"} /\ call'[p].id = call[p].id
    BY <1>1, UpdateJobShape, OnwardType DEF Moves
  <1>3. Rehydrated' = Rehydrated
    BY <1>2 DEF Rehydrated, Positions
  <1>4. job'.state = engine'[p].state /\ (job'.done => job'.state \in Terminals)
    BY <1>2 DEF From
  <1> QED BY <1>1, <1>2, <1>3, <1>4, NoRoomNeeded DEF EndInv

\* Another program appends: the engine is due to be reopened, if it was.
LEMMA RestEnds ==
    ASSUME NEW p, Procs = {p}, HookInv, HookInv', Ended, Foreign \/ UNCHANGED vars
    PROVE  EndInv(p)'
  <1>1. Base /\ EndInv(p) /\ p \in Procs /\ Base'
    BY EndParts DEF HookInv
  <1>2. UNCHANGED <<snapshot, job, engine, call, results>> /\ Rehydrated' = Rehydrated /\ Len(log') >= Len(log)
    <2>1. CASE Foreign
      BY <1>1, <2>1, ForeignShape, RehydratedStays DEF Event, Extended
    <2>2. CASE UNCHANGED vars
      BY <1>1, <2>2 DEF vars, Rehydrated, Positions, Base, Types
    <2> QED BY <2>1, <2>2
  <1>3. HasExternal(p) => HasExternal(p)'
    <2>1. Len(log) \in Nat /\ Len(log') \in Nat /\ engine[p].seen \in Nat
      BY <1>1, LengthFacts
    <2> QED BY <1>2, <2>1 DEF HasExternal
  <1>4. LagAllowed(p) => LagAllowed(p)'
    BY <1>2, <1>3 DEF LagAllowed, Unchecked, Work
  <1>5. RoomForHooks(p)'
    BY <1>1, <1>2 DEF EndInv, RoomForHooks, Work, From
  <1> QED BY <1>1, <1>2, <1>4, <1>5 DEF EndInv

\* At the start the job is that of the run.
LEMMA InitEnds ==
    ASSUME Init
    PROVE  Ended
  <1>1. Positions("STATE_TRANSITION") = {}
    BY DEF Init, Positions, Event
  <1>2. Rehydrated = Initial
    BY <1>1 DEF Rehydrated, Init
  <1>3. ASSUME NEW p \in Procs PROVE EndInv(p)
    <2>1. /\ call[p].pc = "idle" /\ engine[p].state = Initial /\ job.state = Initial /\ ~job.done /\ Len(results) = 0
      BY NoCallType DEF Init
    <2> QED BY <1>2, <2>1 DEF EndInv, RoomForHooks
  <1> QED BY <1>3 DEF Ended

\* Every step of the only process keeps what it leaves behind in order.
LEMMA NextEnds ==
    ASSUME OneProcess, HooksFit, TerminalsAreFinal, HookInv, HookInv', Decides, Ended, [Next]_vars
    PROVE  Ended'
  <1>1. PICK p : Procs = {p}
    BY DEF OneProcess
  <1>2. CASE Step(p)
    BY <1>1, <1>2, DrainedEnds, ConflictEnds, ActionEnds, AcceptEnds, FollowedEnds, ExitEnds, TransitEnds, EnterEnds,
       SnapshotEnds, CompletesEnds, QueueEnds, JobEnds DEF Step, Ended
  <1>3. CASE Submit(p) \/ Resume(p) \/ Reopen(p) \/ Crash(p)
    BY <1>1, <1>3, BeginEnds, OpenedEnds DEF Ended
  <1>4. CASE Foreign \/ UNCHANGED vars
    BY <1>1, <1>4, RestEnds DEF Ended
  <1> QED BY <1>1, <1>2, <1>3, <1>4 DEF Next

\* With one process, hooks that fit one drain and final states that are final, what a call leaves
\* behind agrees: it delivers a visible state, and the job's metadata are those of the run.
THEOREM CallsEndInOrderAlone ==
    OneProcess /\ HooksFit /\ TerminalsAreFinal => (Spec => []CallsEndInOrder)
  <1> SUFFICES ASSUME OneProcess, HooksFit, TerminalsAreFinal PROVE Spec => []CallsEndInOrder
    OBVIOUS
  <1>1. Init => Ended
    BY InitEnds
  <1>2. HookInv /\ HookInv' /\ Decides /\ Ended /\ [Next]_vars => Ended'
    BY NextEnds
  <1>3. ASSUME Ended PROVE CallsEndInOrder
    <2>1. DeliversVisibleStates
      BY <1>3 DEF DeliversVisibleStates, Ended, EndInv
    <2>2. ASSUME NEW p \in Procs, call[p].pc = "idle", ~HasExternal(p) PROVE job.state = Rehydrated
      <3>1. ~LagAllowed(p)
        BY <2>2 DEF LagAllowed, Processing
      <3> QED BY <1>3, <3>1 DEF Ended, EndInv
    <2>3. job.done => job.state \in Terminals
      BY <1>3 DEF OneProcess, Ended, EndInv
    <2>4. JobFollowsRun
      BY <2>2, <2>3 DEF JobFollowsRun, OneProcess
    <2> QED BY <2>1, <2>4 DEF CallsEndInOrder
  <1> QED BY <1>1, <1>2, <1>3, HooksInductive, DecidesInductive, PTL DEF Spec
====
