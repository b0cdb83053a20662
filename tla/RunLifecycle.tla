---- MODULE RunLifecycle ----
(***************************************************************************)
(* What an engine does around one signal: states that the runtime executes *)
(* itself, and signals that entry and exit hooks raise.                     *)
(*                                                                          *)
(* handleSignal first finishes a runtime state an interrupted process left  *)
(* behind, then processes the caller's signal, then runs the runtime states *)
(* that signal led to.  Every processed signal that transitions may queue   *)
(* hook signals; the outermost one drains the queue, with a limit against   *)
(* cycles, and each transition is copied to the job's metadata.  The queue  *)
(* lives in memory, the rest in the ledger, one append after the other.     *)
(*                                                                          *)
(* States are flat here and submissions carry no key: SignalEngine has the  *)
(* hierarchy, the keys and the guards of several levels.  An event's id is  *)
(* its position; bookkeeping events nobody reads back are left out.         *)
(***************************************************************************)
EXTENDS Integers, Sequences, FiniteSetsExt, SequencesExt

CONSTANTS
    Procs,          \* processes that hold the run open
    States, Signals,
    Initial,        \* initial_state of the manifest
    Terminals,      \* states whose name isJobTerminal knows
    Target,         \* transitions: state -> (signal -> target)
    Action,         \* runtime states: state -> [success, failure] signals
    OnEnter, OnExit,\* signals the hooks of a state emit, in order
    Submittable,    \* signals callers send
    MaxDrain,       \* MAX_QUEUE_DRAIN_DEPTH
    MaxSubmits,     \* bound: calls of handleSignal
    MaxForeign,     \* bound: appends of other programs
    MaxCrashes      \* bound: processes that die

Runtime == DOMAIN Action

OutcomeTargets(s) == {Target[s][Action[s].success], Target[s][Action[s].failure]}

\* What a manifest with runtime states must satisfy to be loaded: they are not initial, route
\* both outcomes themselves, and form no cycle without a visible state.
RuntimeStatesAreSound ==
    /\ Initial \notin Runtime
    /\ \A s \in Runtime : {Action[s].success, Action[s].failure} \subseteq DOMAIN Target[s]
    /\ \A cycle \in SUBSET Runtime \ {{}} : \E s \in cycle : OutcomeTargets(s) \cap cycle = {}

ASSUME ConstantsAssumption ==
    /\ RuntimeStatesAreSound
    /\ Initial \in States /\ Terminals \subseteq States
    /\ Runtime \subseteq States /\ Submittable \subseteq Signals
    /\ \A s \in States : DOMAIN Target[s] \subseteq Signals /\ Range(Target[s]) \subseteq States
    /\ {OnEnter, OnExit} \subseteq [States -> Seq(Signals)]
    /\ MaxDrain \in Nat /\ MaxSubmits \in Nat /\ MaxForeign \in Nat /\ MaxCrashes \in Nat

VARIABLES
    log,        \* events of the run
    snapshot,   \* seq and state of the latest snapshot
    job,        \* currentState and status of the job's metadata
    engine,     \* the engine each process holds
    call,       \* what each process is executing
    results,    \* how each call ended
    submits, foreign, crashes

bounds == <<submits, foreign, crashes>>
vars == <<log, snapshot, job, engine, call, results, submits, foreign, crashes>>

NoSignal == "none"

\* by is the call that appended the event: the code does not record it, the properties do.
Event(type, state, sig, cause, by) ==
    [type |-> type, state |-> state, sig |-> sig, cause |-> cause, by |-> by, src |-> NoSignal]

Sources == {"caller", "runtime_action", "hook"}
NoWork == [sig |-> NoSignal, src |-> "caller", cause |-> 0, ev |-> 0, version |-> 0]
NoCall == [pc |-> "idle", id |-> 0, sig |-> NoSignal, resuming |-> FALSE, first |-> FALSE,
           work |-> NoWork, outer |-> NoWork]

-----------------------------------------------------------------------------
(* The ledger as an engine reads it *)

Positions(type) == {i \in DOMAIN log : log[i].type = type}
LatestTransition == Max({0} \cup Positions("STATE_TRANSITION"))

\* rehydrate: the snapshot's state, then the transitions committed after it.
Rehydrated ==
    LET later == {i \in Positions("STATE_TRANSITION") : i > snapshot.seq}
    IN  IF later = {} THEN snapshot.state ELSE log[Max(later)].state

\* A fresh engine: the queue of hook signals was never stored.
Opened == [state |-> Rehydrated, seen |-> Len(log), stale |-> FALSE,
           queue |-> <<>>, draining |-> FALSE, depth |-> 0]

HasExternal(p) == engine[p].stale \/ Len(log) > engine[p].seen

\* foldRuntimeActionWindow over the events since the latest snapshot.
Window(s) == {i \in DOMAIN log : i > snapshot.seq /\ log[i].state = s}

\* Mutant: a recorded result is not looked for.
Completed_Ignored(s) == 0

\* The result recorded in the window, 0 when there is none.
Completed(s) == Max({0} \cup (Window(s) \cap Positions("RUNTIME_ACTION_COMPLETED")))

\* append: a gap before the own event means another process wrote.
Appended(p, es) ==
    /\ log' = log \o es
    /\ engine' = [engine EXCEPT ![p].stale = @ \/ Len(log) > engine[p].seen,
                                ![p].seen = Len(log) + Len(es)]

Goto(p, pc) == call' = [call EXCEPT ![p].pc = pc]
By(p) == call[p].id

\* The call ends; an error leaves through the finally of the drain.
Return(p, result) ==
    /\ call' = [call EXCEPT ![p] = NoCall]
    /\ results' = [results EXCEPT ![By(p)] = result]

Throw(p) ==
    /\ Return(p, "failed")
    /\ engine' = [engine EXCEPT ![p].draining = FALSE, ![p].depth = 0]

-----------------------------------------------------------------------------
Init ==
    /\ log = <<Event("SKILL_INITIALIZED", Initial, NoSignal, 0, 0)>>
    /\ snapshot = [seq |-> 1, state |-> Initial]
    /\ job = [state |-> Initial, done |-> FALSE]
    /\ engine = [p \in Procs |-> [state |-> Initial, seen |-> 1, stale |-> FALSE,
                                  queue |-> <<>>, draining |-> FALSE, depth |-> 0]]
    /\ call = [p \in Procs |-> NoCall]
    /\ results = <<>>
    /\ submits = 0 /\ foreign = 0 /\ crashes = 0

Begin(p, sig) ==
    /\ call[p].pc = "idle"
    /\ results' = Append(results, "pending")
    /\ call' = [call EXCEPT ![p] = [NoCall EXCEPT !.pc = "drain", !.id = Len(results'), !.sig = sig,
                                                  !.resuming = TRUE, !.first = TRUE]]
    /\ UNCHANGED <<log, snapshot, job, engine, foreign, crashes>>

\* handleSignal
Submit(p) ==
    /\ submits < MaxSubmits /\ submits' = submits + 1
    /\ \E sig \in Submittable : Begin(p, sig)

\* Mutant: an action that was started is taken for one that is running.
HasPendingAction_Unstarted(p) ==
    engine[p].state \in Runtime /\ Window(engine[p].state) \cap Positions("RUNTIME_ACTION_STARTED") = {}

HasPendingAction(p) == engine[p].state \in Runtime

\* resumeRuntimeActions returns at once in a visible state; getEngine just dropped a stale engine.
Resume(p) ==
    /\ HasPendingAction(p) /\ ~HasExternal(p)
    /\ Begin(p, NoSignal)
    /\ UNCHANGED submits

\* getEngine of the MCP server drops an engine whose run another process moved.
Reopen(p) ==
    /\ call[p].pc = "idle" /\ HasExternal(p)
    /\ engine' = [engine EXCEPT ![p] = Opened]
    /\ job' = [job EXCEPT !.state = Rehydrated]
    /\ UNCHANGED <<log, snapshot, call, results, bounds>>

(* drainRuntimeActions *)

NothingToRun(p) == engine[p].state \notin Runtime

\* No runtime state, or none left: on to the caller's signal, or the call is over.
Drained(p) ==
    /\ call[p].pc = "drain" /\ NothingToRun(p)
    /\ IF call[p].resuming /\ call[p].sig # NoSignal
       THEN /\ call' = [call EXCEPT ![p].pc = "emit", ![p].work = [NoWork EXCEPT !.sig = call[p].sig]]
            /\ UNCHANGED results
       ELSE Return(p, "ok")
    /\ UNCHANGED <<log, snapshot, job, engine, bounds>>

\* Only the first action of a resumed chain is checked.
StaleChain(p) == call[p].resuming /\ call[p].first /\ HasExternal(p)

DrainConflict(p) ==
    /\ call[p].pc = "drain" /\ ~NothingToRun(p) /\ StaleChain(p)
    /\ Throw(p)
    /\ UNCHANGED <<log, snapshot, job, bounds>>

\* The outcome of a result is dispatched through ordinary signal handling.
Dispatch(p, i) ==
    call' = [call EXCEPT ![p].pc = "emit", ![p].first = FALSE,
        ![p].work = [NoWork EXCEPT !.sig = log'[i].sig, !.src = "runtime_action", !.cause = i]]

FoldWindow(p) ==
    LET s == engine[p].state IN
    /\ call[p].pc = "drain" /\ ~NothingToRun(p) /\ ~StaleChain(p)
    /\ UNCHANGED log
    /\ IF Completed(s) # 0 THEN Dispatch(p, Completed(s)) ELSE Goto(p, "start")
    /\ UNCHANGED <<snapshot, job, engine, results, bounds>>

StartAction(p) ==
    /\ call[p].pc = "start"
    /\ Appended(p, <<Event("RUNTIME_ACTION_STARTED", engine[p].state, NoSignal, 0, By(p))>>)
    /\ Goto(p, "running")
    /\ UNCHANGED <<snapshot, job, results, bounds>>

\* What an execution can observe: the declared condition met or not, a command killed at its
\* deadline, or an executor that could not run the action or threw.
Observations == {"met", "unmet", "timed_out", "error"}

DecidedOutcome(s, observation) == IF observation = "met" THEN Action[s].success ELSE Action[s].failure

CompleteAction(p) ==
    LET s == engine[p].state IN
    /\ call[p].pc = "running"
    /\ \E observation \in Observations :
        Appended(p, <<Event("RUNTIME_ACTION_COMPLETED", s, DecidedOutcome(s, observation), 0, By(p))>>)
    /\ Dispatch(p, Len(log'))
    /\ UNCHANGED <<snapshot, job, results, bounds>>

(* processSignal *)

Work(p) == call[p].work
From(p) == engine[p].state
Accepts(p) == Work(p).sig \in DOMAIN Target[From(p)]

\* A signal that did not transition: a drained hook returns to the queue, an outcome ends
\* the chain, and the caller learns that its own was refused.
NotTransitioned(p) ==
    IF engine[p].draining THEN Goto(p, "queue") /\ UNCHANGED results
    ELSE IF Work(p).src = "runtime_action" /\ call[p].resuming /\ call[p].sig # NoSignal
    THEN /\ call' = [call EXCEPT ![p].pc = "emit", ![p].work = [NoWork EXCEPT !.sig = call[p].sig]]
         /\ UNCHANGED results
    ELSE Return(p, IF Work(p).src = "caller" THEN "refused" ELSE "ok")

\* The caller's own signal is the only one checked on entry.
EmitConflict(p) ==
    /\ call[p].pc = "emit" /\ Work(p).src = "caller" /\ HasExternal(p)
    /\ Throw(p)
    /\ UNCHANGED <<log, snapshot, job, bounds>>

\* Outcome signals of the active runtime state are not for anyone else to send.
RuntimeOwned(p) ==
    /\ Work(p).src # "runtime_action" /\ From(p) \in Runtime
    /\ Work(p).sig \in {Action[From(p)].success, Action[From(p)].failure}

Emit(p) ==
    LET w == Work(p) IN
    /\ call[p].pc = "emit" /\ ~(w.src = "caller" /\ HasExternal(p))
    /\ Appended(p, <<[Event("SIGNAL_EMITTED", From(p), w.sig, w.cause, By(p)) EXCEPT !.src = w.src]>>)
    /\ call' = [call EXCEPT ![p].pc = IF RuntimeOwned(p) THEN "refuse" ELSE IF Accepts(p) THEN "accept" ELSE "unhandled",
                            ![p].work.ev = Len(log')]
    /\ UNCHANGED <<snapshot, job, results, bounds>>

BeginGuard(p) ==
    /\ call[p].pc = "accept"
    /\ call' = [call EXCEPT ![p].pc = "guard", ![p].work.version = Len(log)]
    /\ UNCHANGED <<log, snapshot, job, engine, results, bounds>>

Unhandled(p) ==
    /\ call[p].pc = "unhandled"
    /\ NotTransitioned(p)
    /\ UNCHANGED <<log, snapshot, job, engine, bounds>>

Refuse(p) ==
    /\ call[p].pc = "refuse"
    /\ Appended(p, <<Event("SIGNAL_REFUSED", From(p), Work(p).sig, Work(p).ev, By(p))>>)
    /\ NotTransitioned(p)
    /\ UNCHANGED <<snapshot, job, bounds>>

\* The guard is awaited, and the run must not have moved meanwhile.
GuardConflict(p) ==
    /\ call[p].pc = "guard" /\ Len(log) # Work(p).version
    /\ Throw(p)
    /\ UNCHANGED <<log, snapshot, job, bounds>>

\* Outcome transitions are declared without a guard.
GuardReturns(p) ==
    /\ call[p].pc = "guard" /\ Len(log) = Work(p).version
    /\ \E passed \in IF Work(p).src = "caller" THEN BOOLEAN ELSE {TRUE} :
        Goto(p, IF passed THEN "exit" ELSE "refuse")
    /\ Appended(p, <<Event("GUARD_EVALUATED", From(p), Work(p).sig, Work(p).ev, By(p))>>)
    /\ UNCHANGED <<snapshot, job, results, bounds>>

To(p) == Target[From(p)][Work(p).sig]

\* Mutant: hook signals go to the front of the queue.
Queued_Front(p, sigs) == sigs \o engine[p].queue

Queued(p, sigs) == engine[p].queue \o sigs

\* The hooks between two states: a transition to the same state exits and enters nothing.
HooksBetween(from, to, sigs) == IF from = to THEN <<>> ELSE sigs

\* The hooks of a state append their events, then their signals wait in the queue.
RunHooks(p, type, s, sigs) ==
    /\ log' = log \o [i \in DOMAIN sigs |-> Event(type, s, sigs[i], 0, By(p))]
    /\ engine' = [engine EXCEPT ![p].queue = Queued(p, sigs),
                                ![p].stale = @ \/ (sigs # <<>> /\ Len(log) > engine[p].seen),
                                ![p].seen = IF sigs = <<>> THEN @ ELSE Len(log')]

Exit(p) ==
    /\ call[p].pc = "exit"
    /\ RunHooks(p, "STATE_EXIT_HOOK", From(p), HooksBetween(From(p), To(p), OnExit[From(p)]))
    /\ Goto(p, "transit")
    /\ UNCHANGED <<snapshot, job, results, bounds>>

Transit(p) ==
    /\ call[p].pc = "transit"
    /\ log' = Append(log, Event("STATE_TRANSITION", To(p), Work(p).sig, Work(p).ev, By(p)))
    /\ engine' = [engine EXCEPT ![p].state = To(p), ![p].stale = @ \/ Len(log) > engine[p].seen,
                                ![p].seen = Len(log')]
    /\ Goto(p, "enter")
    /\ UNCHANGED <<snapshot, job, results, bounds>>

Enter(p) ==
    /\ call[p].pc = "enter"
    /\ LET s == engine[p].state
       IN  RunHooks(p, "STATE_ENTRY_HOOK", s, HooksBetween(log[Work(p).ev].state, s, OnEnter[s]))
    /\ Goto(p, "snapshot")
    /\ UNCHANGED <<snapshot, job, results, bounds>>

\* Stamped with the latest sequence of the ledger.
SaveSnapshot(p) ==
    /\ call[p].pc = "snapshot"
    /\ snapshot' = [seq |-> Len(log), state |-> From(p)]
    /\ Goto(p, "completed")
    /\ UNCHANGED <<log, job, engine, results, bounds>>

\* TRANSITION_COMPLETED, then the outermost transition drains the queue.
Completes(p) ==
    /\ call[p].pc = "completed"
    /\ Appended(p, <<Event("TRANSITION_COMPLETED", From(p), Work(p).sig, Work(p).ev, By(p))>>)
    /\ call' = [call EXCEPT ![p].pc = IF engine[p].draining THEN "job" ELSE "queue",
                            ![p].outer = IF engine[p].draining THEN @ ELSE Work(p)]
    /\ UNCHANGED <<snapshot, job, results, bounds>>

(* The queue of hook signals *)

AtLimit(p) == engine[p].depth + 1 > MaxDrain

DrainNext(p) ==
    /\ call[p].pc = "queue" /\ engine[p].queue # <<>> /\ ~AtLimit(p)
    /\ engine' = [engine EXCEPT ![p].queue = Tail(@), ![p].draining = TRUE, ![p].depth = @ + 1]
    /\ call' = [call EXCEPT ![p].pc = "emit",
                            ![p].work = [NoWork EXCEPT !.sig = Head(engine[p].queue), !.src = "hook"]]
    /\ UNCHANGED <<log, snapshot, job, results, bounds>>

\* The rest of the queue is dropped and the call fails, after its transition was committed.
CycleDetected(p) ==
    /\ call[p].pc = "queue" /\ engine[p].queue # <<>> /\ AtLimit(p)
    /\ log' = Append(log, Event("SIGNAL_QUEUE_CYCLE_DETECTED", From(p), NoSignal, 0, By(p)))
    /\ engine' = [engine EXCEPT ![p].queue = <<>>, ![p].draining = FALSE, ![p].depth = 0,
                                ![p].stale = @ \/ Len(log) > engine[p].seen, ![p].seen = Len(log')]
    /\ Return(p, "failed")
    /\ UNCHANGED <<snapshot, job, bounds>>

QueueEmpty(p) ==
    /\ call[p].pc = "queue" /\ engine[p].queue = <<>>
    /\ engine' = [engine EXCEPT ![p].draining = FALSE, ![p].depth = 0]
    /\ call' = [call EXCEPT ![p].pc = "job", ![p].work = call[p].outer]
    /\ UNCHANGED <<log, snapshot, job, results, bounds>>

\* Mutant: the outermost signal reports the state it moved to itself.
JobState_Own(p) == Target[log[Work(p).ev].state][Work(p).sig]

JobState(p) == From(p)

\* jobManager.updateJob; then the queue goes on, or the runtime states reached are run.
UpdateJob(p) ==
    /\ call[p].pc = "job"
    /\ job' = [state |-> JobState(p), done |-> JobState(p) \in Terminals]
    /\ call' = [call EXCEPT ![p].pc = IF engine[p].draining THEN "queue" ELSE "drain",
                            ![p].resuming = @ /\ Work(p).src # "caller"]
    /\ UNCHANGED <<log, snapshot, engine, results, bounds>>

\* The process dies and another is started in its place; opening the run copies its state
\* into the job's metadata.
Crash(p) ==
    /\ call[p].pc # "idle" /\ crashes < MaxCrashes
    /\ crashes' = crashes + 1
    /\ results' = [results EXCEPT ![By(p)] = "died"]
    /\ call' = [call EXCEPT ![p] = NoCall]
    /\ engine' = [engine EXCEPT ![p] = Opened]
    /\ job' = [job EXCEPT !.state = Rehydrated]
    /\ UNCHANGED <<log, snapshot, submits, foreign>>

\* Another program appends to the run without moving it: a refused signal, a decision, a turn.
Foreign ==
    /\ foreign < MaxForeign /\ foreign' = foreign + 1
    /\ log' = Append(log, Event("FOREIGN", Rehydrated, NoSignal, 0, 0))
    /\ UNCHANGED <<snapshot, job, engine, call, results, submits, crashes>>

-----------------------------------------------------------------------------
Step(p) ==
    \/ Drained(p) \/ DrainConflict(p) \/ FoldWindow(p) \/ StartAction(p) \/ CompleteAction(p)
    \/ EmitConflict(p) \/ Emit(p) \/ Unhandled(p) \/ Refuse(p)
    \/ BeginGuard(p) \/ GuardConflict(p) \/ GuardReturns(p)
    \/ Exit(p) \/ Transit(p) \/ Enter(p) \/ SaveSnapshot(p) \/ Completes(p)
    \/ DrainNext(p) \/ CycleDetected(p) \/ QueueEmpty(p) \/ UpdateJob(p)

Next ==
    \/ Foreign
    \/ \E p \in Procs :
        \/ Submit(p) \/ Resume(p) \/ Reopen(p) \/ Step(p) \/ Crash(p)

\* A call that runs goes on; a client that has to show a view asks for it.
Fairness == \A p \in Procs : WF_vars(Step(p)) /\ WF_vars(Resume(p)) /\ WF_vars(Reopen(p))

Spec == Init /\ [][Next]_vars /\ Fairness

-----------------------------------------------------------------------------
(* Properties *)

EventTypes == {"SKILL_INITIALIZED", "SIGNAL_EMITTED", "SIGNAL_REFUSED", "GUARD_EVALUATED",
    "STATE_TRANSITION", "TRANSITION_COMPLETED", "STATE_ENTRY_HOOK", "STATE_EXIT_HOOK",
    "RUNTIME_ACTION_STARTED", "RUNTIME_ACTION_COMPLETED", "SIGNAL_QUEUE_CYCLE_DETECTED", "FOREIGN"}

\* The variables have their types (the data classes of FSMEngine and EventStore).
TypeOK ==
    /\ \A i \in DOMAIN log :
        /\ log[i].type \in EventTypes /\ log[i].state \in States
        /\ log[i].sig \in Signals \cup {NoSignal} /\ log[i].cause < i /\ log[i].by \in 0 .. Len(results)
    /\ snapshot.seq \in DOMAIN log /\ snapshot.state \in States
    /\ job.state \in States /\ job.done \in BOOLEAN
    /\ \A p \in Procs :
        /\ engine[p].state \in States /\ engine[p].seen \in DOMAIN log
        /\ Range(engine[p].queue) \subseteq Signals /\ engine[p].depth \in Nat
        /\ (call[p].pc = "idle") = (call[p].id = 0)
    /\ Range(results) \subseteq {"pending", "ok", "refused", "failed", "died"}
    /\ submits \in 0 .. MaxSubmits /\ foreign \in 0 .. MaxForeign /\ crashes \in 0 .. MaxCrashes

\* Where the hooks of a call raised signals, where the call emitted them, and where it emitted
\* a signal that no hook raised.
HookEvents(c) == {i \in DOMAIN log : log[i].by = c /\ log[i].type \in {"STATE_ENTRY_HOOK", "STATE_EXIT_HOOK"}}
HookSignals(c) == {j \in Positions("SIGNAL_EMITTED") : log[j].by = c /\ log[j].src = "hook"}
OwnSignals(c) == {i \in Positions("SIGNAL_EMITTED") : log[i].by = c /\ log[i].src # "hook"}

\* How many of the positions in S precede i.
Before(S, i) == Cardinality({j \in S : j < i})

\* The signals hooks raise during a call are emitted by that call, the n-th one raised as the
\* n-th one emitted, and none is left when it succeeds: a queue that outlives a failed call, or a
\* crashed one, is never served by a later call (the signalQueue of fsm-engine.ts:1475-1501).
HooksAreServed ==
    \A c \in DOMAIN results :
        /\ \A j \in HookSignals(c) : \E i \in HookEvents(c) :
            i < j /\ log[i].sig = log[j].sig /\ Before(HookEvents(c), i) = Before(HookSignals(c), j)
        /\ results[c] = "ok" => Cardinality(HookSignals(c)) = Cardinality(HookEvents(c))

\* The hook signals that a call emits between a signal of its own and the next one.
DrainedAfter(i) ==
    {j \in HookSignals(log[i].by) : i < j /\ \A k \in OwnSignals(log[i].by) : k <= i \/ j < k}

\* A call never emits more hook signals in a row than the limit on the drain allows
\* (MAX_QUEUE_DRAIN_DEPTH): the events of a cycle of hooks stay bounded.
CyclesAreCut ==
    \A i \in Positions("SIGNAL_EMITTED") : log[i].src # "hook" => Cardinality(DrainedAfter(i)) <= MaxDrain

\* One process: once the result of a runtime state is recorded, the action is not run again
\* before the state is left, whatever crashed in between (the recovery table of
\* docs/runtime-actions.md, drainRuntimeActions).
ResultsAreReused ==
    \A i \in Positions("RUNTIME_ACTION_COMPLETED"), j \in Positions("RUNTIME_ACTION_STARTED") :
        (i < j /\ log[i].state = log[j].state) => \E k \in Positions("STATE_TRANSITION") : i < k /\ k < j

\* The outcome signals of a runtime state move the run only when they carry a recorded result
\* of that state, also when hooks raise them before the action has run ("Runtime-owned signals",
\* docs/runtime-actions.md).
OutcomesAreDecided ==
    \A i \in Positions("STATE_TRANSITION") :
        LET e == log[log[i].cause] IN
        (e.state \in Runtime /\ e.sig \in {Action[e.state].success, Action[e.state].failure}) =>
            /\ e.cause \in Positions("RUNTIME_ACTION_COMPLETED")
            /\ log[e.cause].state = e.state /\ log[e.cause].sig = e.sig

\* One process: the outcome that leaves a runtime state is the result of the visit that it
\* leaves, unless that visit's snapshot was lost to a crash (the window starts at the snapshot).
ResultsAreOfThisVisit ==
    \A p \in Procs :
        (/\ Work(p).src = "runtime_action" /\ call[p].pc \in {"emit", "accept", "guard"}
         /\ snapshot.seq > LatestTransition)
            => Work(p).cause > LatestTransition

\* A call that succeeds leaves the run in a state a model may see: a runtime state is never
\* delivered (docs/runtime-actions.md, resumeRuntimeActions).
DeliversVisibleStates ==
    \A p \in Procs :
        (call[p].pc = "idle" /\ Len(results) > 0 /\ results[Len(results)] = "ok" /\ ~HasExternal(p))
            => engine[p].state \notin Runtime

\* One process: the job's metadata follow the run whenever no call is running and the engine is
\* not due to be reopened, and a job is reported done only in a terminal state (updateJob after
\* the queue is skipped when a hook signal fails; opening the run makes up for it).
JobFollowsRun ==
    /\ (\A p \in Procs : call[p].pc = "idle" /\ ~HasExternal(p)) => job.state = Rehydrated
    /\ job.done => job.state \in Terminals

\* One process: a run does not stay in a runtime state, although processes die in it.
RuntimeStatesAreLeft == (Rehydrated \in Runtime) ~> (Rehydrated \notin Runtime)

\* The signals hooks raise in a call are all served by it and in order, or the call fails
\* at the limit that cuts a cycle.
HookSignalsEnd == TypeOK /\ HooksAreServed /\ CyclesAreCut

\* One process: a runtime state is left on a result of its own, of this visit, obtained once.
ActionsDecideOnce == ResultsAreReused /\ ResultsAreOfThisVisit /\ OutcomesAreDecided

\* One process: what a call leaves behind agrees, the state it delivers, the run and the job.
CallsEndInOrder == DeliversVisibleStates /\ JobFollowsRun
====
