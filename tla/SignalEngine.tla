---- MODULE SignalEngine ----
(***************************************************************************)
(* One run of one skill: the canonical event ledger that SQLite keeps, the  *)
(* snapshot beside it, and the engines (one per OS process) that open the   *)
(* run, submit signals to it, crash and open it again.  Every append is a   *)
(* transaction of its own, so an action is one access to the ledger and     *)
(* everything between two accesses of a process can be another process.     *)
(*                                                                          *)
(* An event is identified by its position: the per-run sequence is dense    *)
(* (UNIQUE(run_id, seq), one writer at a time), so the event id the code    *)
(* draws and the seq it is given are the same number here, and the run's    *)
(* version, incremented by every insert, is Len(log).                       *)
(***************************************************************************)
EXTENDS Integers, Sequences, FiniteSetsExt

CONSTANTS
    Procs,          \* operating-system processes, each holding one engine
    Keys,           \* idempotency keys callers may use
    NoKey,          \* a submission made without a key
    States,         \* states of the skill
    InitialState,   \* manifest.initial_state
    Target,         \* <<state, level>> -> target, where that level declares the signal
    Fallback,       \* <<state, level>> -> fallback_target, where the transition has one
    MaxCalls,       \* bound: calls of handleSignal in a behaviour
    MaxViews,       \* bound: state views delivered in a behaviour
    MaxCrashes      \* bound: processes that die or drop their engine in a behaviour

Levels == {1, 2}    \* bubbling order: 1 the active leaf, 2 its enclosing state

ASSUME ConstantsAssumption ==
    /\ NoKey \notin Keys
    /\ InitialState \in States
    /\ DOMAIN Target \subseteq States \X Levels
    /\ \A h \in DOMAIN Target : Target[h] \in States
    /\ DOMAIN Fallback \subseteq DOMAIN Target
    /\ \A h \in DOMAIN Fallback : Fallback[h] \in States
    /\ MaxCalls \in Nat /\ MaxViews \in Nat /\ MaxCrashes \in Nat

VARIABLES
    log,        \* events of the run in seq order
    snapshot,   \* latest row of state_snapshots: [seq, state, ctx]; seq = 0 when there is none
    pc,         \* where each process is
    state,      \* activeStatePath of each engine
    ctx,        \* submissions whose payload fields are in each engine's context
    seqCounter, \* EventStore.seqCounter of each engine
    extSeen,    \* EventStore.externalAppendSeen of each engine
    job,        \* the call of handleSignal each engine is working on
    answers,    \* what callers were told: <<submission, verdict>>
    calls,      \* calls of handleSignal so far
    views,      \* state views delivered so far
    crashes     \* crashes so far

ledgerVars == <<log, snapshot>>
engineVars == <<state, ctx, seqCounter, extSeen>>
bounds == <<calls, views, crashes>>
vars == <<log, snapshot, pc, state, ctx, seqCounter, extSeen, job, answers, calls, views, crashes>>

EventTypes == {"SKILL_INITIALIZED", "SIGNAL_EMITTED", "GUARD_PASSED", "GUARD_FAILED",
               "GUARD_FALLBACK", "STATE_TRANSITION", "SIGNAL_REFUSED", "AGENT_TURN_STARTED"}

Events == [type : EventTypes, key : Keys \cup {NoKey}, cause : Nat, level : {0} \cup Levels,
           from : States, to : States]

Event(type, key, cause, level, from, to) ==
    [type |-> type, key |-> key, cause |-> cause, level |-> level, from |-> from, to |-> to]

\* The call in progress: its key, its SIGNAL_EMITTED, prevPath, the context before
\* it, the level whose guard is being evaluated, the guard's run version, whether a
\* guard has failed with an error, and where an accepting guard leads.
Jobs == [key : Keys \cup {NoKey}, sub : Nat, prev : States, before : SUBSET Nat,
         level : 1..3, version : Nat, failed : BOOLEAN, guard : {"passed", "failed", "fallback"},
         target : States]

NoJob == [key |-> NoKey, sub |-> 0, prev |-> InitialState, before |-> {}, level |-> 1,
          version |-> 0, failed |-> FALSE, guard |-> "failed", target |-> InitialState]

Verdicts == {"accepted", "refused", "unhandled", "replayed", "replayed_refusal"}

-----------------------------------------------------------------------------
(* The ledger *)

Positions(type) == {i \in DOMAIN log : log[i].type = type}
CausedBy(s, types) == {i \in DOMAIN log : log[i].cause = s /\ log[i].type \in types}

\* State events are those whose replay sets the active path.
StateEvents(l) == {i \in DOMAIN l : l[i].type \in {"SKILL_INITIALIZED", "STATE_TRANSITION"}}

\* The state the committed history of a run leads to.
CommittedState(l) ==
    IF StateEvents(l) = {} THEN InitialState ELSE l[Max(StateEvents(l))].to

\* The submissions whose updates the committed history accepted.
AcceptedSubs(l) == {l[i].cause : i \in {j \in DOMAIN l : l[j].type = "STATE_TRANSITION"}}

Submissions == Positions("SIGNAL_EMITTED")
\* Mutant: keys are looked up among the events since the snapshot only.
Existing_SinceSnapshot(k) == {i \in DOMAIN log : k # NoKey /\ log[i].key = k /\ i > snapshot.seq}

Existing(k) == {i \in DOMAIN log : k # NoKey /\ log[i].key = k}

-----------------------------------------------------------------------------
(* Engines *)

\* hasExternalAppends
HasExternal(p) == extSeen[p] \/ Len(log) > seqCounter[p]

\* SQLite insert, then the store's own bookkeeping: a gap before our own append means
\* another process wrote in between.
Append1(p, e) ==
    /\ log' = Append(log, e)
    /\ extSeen' = [extSeen EXCEPT ![p] = @ \/ Len(log) + 1 > seqCounter[p] + 1]
    /\ seqCounter' = [seqCounter EXCEPT ![p] = Len(log) + 1]

Goto(p, where) == pc' = [pc EXCEPT ![p] = where]

Answer(s, verdict) == answers' = answers \cup {<<s, verdict>>}

\* replay(existing): report what the ledger holds of the submission, evaluating nothing.
ReplayVerdict(s) ==
    IF CausedBy(s, {"STATE_TRANSITION"}) = {} /\ CausedBy(s, {"SIGNAL_REFUSED", "GUARD_FAILED"}) # {}
    THEN "replayed_refusal"
    ELSE "replayed"

Replay(p, s) ==
    /\ Answer(s, ReplayVerdict(s))
    /\ Goto(p, "idle")
    /\ job' = [job EXCEPT ![p] = NoJob]

Init ==
    /\ log = <<>>
    /\ snapshot = [seq |-> 0, state |-> InitialState, ctx |-> {}]
    /\ pc = [p \in Procs |-> "down"]
    /\ state = [p \in Procs |-> InitialState]
    /\ ctx = [p \in Procs |-> {}]
    /\ seqCounter = [p \in Procs |-> 0]
    /\ extSeen = [p \in Procs |-> FALSE]
    /\ job = [p \in Procs |-> NoJob]
    /\ answers = {}
    /\ calls = 0
    /\ views = 0
    /\ crashes = 0

\* Mutant: the counter starts one behind.
OpenStore_OffByOne(p) ==
    /\ pc[p] = "down"
    /\ seqCounter' = [seqCounter EXCEPT ![p] = Len(log) - 1]
    /\ extSeen' = [extSeen EXCEPT ![p] = FALSE]
    /\ Goto(p, "opened")
    /\ UNCHANGED <<ledgerVars, state, ctx, job, answers, bounds>>

\* EventStore constructor: seqCounter is the latest sequence at open.
OpenStore(p) ==
    /\ pc[p] = "down"
    /\ seqCounter' = [seqCounter EXCEPT ![p] = Len(log)]
    /\ extSeen' = [extSeen EXCEPT ![p] = FALSE]
    /\ Goto(p, "opened")
    /\ UNCHANGED <<ledgerVars, state, ctx, job, answers, bounds>>

\* Mutant: the events after the snapshot are not replayed.
Rehydrate_SnapshotOnly(p) ==
    /\ pc[p] = "opened"
    /\ snapshot.seq > 0 \/ log # <<>>
    /\ state' = [state EXCEPT ![p] = snapshot.state]
    /\ ctx' = [ctx EXCEPT ![p] = snapshot.ctx]
    /\ Goto(p, "idle")
    /\ UNCHANGED <<ledgerVars, seqCounter, extSeen, job, answers, bounds>>

\* FSMEngine constructor with history: the latest snapshot, then the events after it.
Rehydrate(p) ==
    /\ pc[p] = "opened"
    /\ snapshot.seq > 0 \/ log # <<>>
    /\ LET later == {i \in StateEvents(log) : i > snapshot.seq} IN
       /\ \/ later = {} /\ state' = [state EXCEPT ![p] = snapshot.state]
          \/ \E last \in later :
                /\ \A i \in later : i <= last
                /\ state' = [state EXCEPT ![p] = log[last].to]
       /\ ctx' = [ctx EXCEPT ![p] = snapshot.ctx \cup
                     {log[i].cause : i \in {j \in later : log[j].type = "STATE_TRANSITION"}}]
    /\ Goto(p, "idle")
    /\ UNCHANGED <<ledgerVars, seqCounter, extSeen, job, answers, bounds>>

\* FSMEngine constructor on an empty run: SKILL_INITIALIZED, entry hooks, first snapshot.
DecideBoot(p) ==
    /\ pc[p] = "opened"
    /\ snapshot.seq = 0 /\ log = <<>>
    /\ state' = [state EXCEPT ![p] = InitialState]
    /\ ctx' = [ctx EXCEPT ![p] = {}]
    /\ Goto(p, "booting")
    /\ UNCHANGED <<ledgerVars, seqCounter, extSeen, job, answers, bounds>>

Boot(p) ==
    /\ pc[p] = "booting"
    /\ Append1(p, Event("SKILL_INITIALIZED", NoKey, 0, 0, InitialState, InitialState))
    /\ Goto(p, "booted")
    /\ UNCHANGED <<snapshot, state, ctx, job, answers, bounds>>

\* Mutant: the sequence is brought forward and the state kept.
SaveSnapshot_Stale(p) == snapshot' = [seq |-> Len(log), state |-> snapshot.state, ctx |-> ctx[p]]

SaveSnapshot(p) == snapshot' = [seq |-> Len(log), state |-> state[p], ctx |-> ctx[p]]

BootSnapshot(p) ==
    /\ pc[p] = "booted"
    /\ SaveSnapshot(p)
    /\ Goto(p, "idle")
    /\ UNCHANGED <<log, engineVars, job, answers, bounds>>

\* handleSignal, up to the idempotency lookup, which precedes the staleness check.
Submit(p, k) ==
    /\ pc[p] = "idle"
    /\ calls < MaxCalls
    /\ calls' = calls + 1
    /\ \/ \E s \in Existing(k) : Replay(p, s)
       \/ /\ Existing(k) = {}
          /\ job' = [job EXCEPT ![p] = [NoJob EXCEPT !.key = k, !.prev = state[p], !.before = ctx[p]]]
          /\ Goto(p, "looked_up")
          /\ UNCHANGED answers
    /\ UNCHANGED <<ledgerVars, engineVars, views, crashes>>

\* assertCurrent
AssertCurrent(p) ==
    /\ pc[p] = "looked_up"
    /\ IF HasExternal(p)
       THEN Goto(p, "idle") /\ job' = [job EXCEPT ![p] = NoJob]
       ELSE Goto(p, "checked") /\ UNCHANGED job
    /\ UNCHANGED <<ledgerVars, engineVars, answers, bounds>>

\* append(SIGNAL_EMITTED): one transaction looks the key up again and inserts.
EmitSignal(p) ==
    /\ pc[p] = "checked"
    /\ Existing(job[p].key) = {}
    /\ Append1(p, Event("SIGNAL_EMITTED", job[p].key, 0, 0, job[p].prev, job[p].prev))
    /\ job' = [job EXCEPT ![p].sub = Len(log) + 1]
    /\ ctx' = [ctx EXCEPT ![p] = @ \cup {Len(log) + 1}]
    /\ Goto(p, "routing")
    /\ UNCHANGED <<snapshot, state, answers, bounds>>

\* Mutant: the stored event of the other process is evaluated as if it were ours.
EmitDuplicate_Evaluates(p) ==
    /\ pc[p] = "checked"
    /\ \E s \in Existing(job[p].key) :
        /\ seqCounter' = [seqCounter EXCEPT ![p] = IF s > @ THEN s ELSE @]
        /\ job' = [job EXCEPT ![p].sub = s]
    /\ Goto(p, "routing")
    /\ UNCHANGED <<ledgerVars, state, ctx, extSeen, answers, bounds>>

\* The key is taken: the stored event comes back, seqCounter moves to it, and the
\* submission that owns it is reported.
EmitDuplicate(p) ==
    /\ pc[p] = "checked"
    /\ \E s \in Existing(job[p].key) :
        /\ seqCounter' = [seqCounter EXCEPT ![p] = IF s > @ THEN s ELSE @]
        /\ Replay(p, s)
    /\ UNCHANGED <<ledgerVars, state, ctx, extSeen, bounds>>

Handles(p) == {l \in Levels : l >= job[p].level /\ <<job[p].prev, l>> \in DOMAIN Target}

\* Mutant: the search runs from the root down.
StartGuard_RootFirst(p) ==
    /\ pc[p] = "routing"
    /\ \E l \in Handles(p) :
        /\ \A m \in Handles(p) : m <= l
        /\ job' = [job EXCEPT ![p].level = l, ![p].version = Len(log)]
    /\ Goto(p, "guard")
    /\ UNCHANGED <<ledgerVars, engineVars, answers, bounds>>

\* The bubble search finds the next level that declares the signal and starts its
\* guard, against the run version read just before.
StartGuard(p) ==
    /\ pc[p] = "routing"
    /\ \E l \in Handles(p) :
        /\ \A m \in Handles(p) : l <= m
        /\ job' = [job EXCEPT ![p].level = l, ![p].version = Len(log)]
    /\ Goto(p, "guard")
    /\ UNCHANGED <<ledgerVars, engineVars, answers, bounds>>

\* The transition whose guard is awaited.
Edge(p) == <<job[p].prev, job[p].level>>

\* What a guard can answer, with the state it then leads to.
GuardAnswers(p) ==
    {<<"passed", Target[Edge(p)]>>, <<"failed", job[p].prev>>}
        \cup (IF Edge(p) \in DOMAIN Fallback THEN {<<"fallback", Fallback[Edge(p)]>>} ELSE {})

\* The guard answers and the run has not moved since it started.
GuardReturns(p) ==
    /\ pc[p] = "guard"
    /\ Len(log) = job[p].version
    /\ \E a \in GuardAnswers(p) : job' = [job EXCEPT ![p].guard = a[1], ![p].target = a[2]]
    /\ Goto(p, "guarded")
    /\ UNCHANGED <<ledgerVars, engineVars, answers, bounds>>

\* Mutant: a moved run is waited out instead of ending the call.
GuardConflict_Waits(p) ==
    /\ pc[p] = "guard"
    /\ Len(log) # job[p].version
    /\ UNCHANGED vars

\* assertRunVersion throws RUN_VERSION_CONFLICT: the call ends where it stands, and the
\* context keeps the fields the signal brought.
GuardConflict(p) ==
    /\ pc[p] = "guard"
    /\ Len(log) # job[p].version
    /\ job' = [job EXCEPT ![p] = NoJob]
    /\ Goto(p, "idle")
    /\ UNCHANGED <<ledgerVars, engineVars, answers, bounds>>

GuardEvent(g) == CASE g = "passed" -> "GUARD_PASSED"
                   [] g = "failed" -> "GUARD_FAILED"
                   [] g = "fallback" -> "GUARD_FALLBACK"

\* Mutant: acceptance is reported when the guard passes, before the transition commits.
RecordGuard_ReportsEarly(p) ==
    /\ pc[p] = "guarded"
    /\ Append1(p, Event(GuardEvent(job[p].guard), NoKey, job[p].sub, job[p].level, job[p].prev, job[p].prev))
    /\ IF job[p].guard = "failed"
       THEN job' = [job EXCEPT ![p].level = @ + 1, ![p].failed = TRUE] /\ Goto(p, "routing") /\ UNCHANGED answers
       ELSE Goto(p, "accepted") /\ Answer(job[p].sub, "accepted") /\ UNCHANGED job
    /\ UNCHANGED <<snapshot, state, ctx, bounds>>

\* GUARD_EVALUATED is recorded; a failure without a fallback tries the next level.
RecordGuard(p) ==
    /\ pc[p] = "guarded"
    /\ Append1(p, Event(GuardEvent(job[p].guard), NoKey, job[p].sub, job[p].level, job[p].prev, job[p].prev))
    /\ IF job[p].guard = "failed"
       THEN job' = [job EXCEPT ![p].level = @ + 1, ![p].failed = TRUE] /\ Goto(p, "routing")
       ELSE Goto(p, "accepted") /\ UNCHANGED job
    /\ UNCHANGED <<snapshot, state, ctx, answers, bounds>>

\* transitionBetweenPaths, after the awaited child invocation if there is one.
Transition(p) ==
    /\ pc[p] = "accepted"
    /\ Append1(p, Event("STATE_TRANSITION", NoKey, job[p].sub, 0, job[p].prev, job[p].target))
    /\ state' = [state EXCEPT ![p] = job[p].target]
    /\ Goto(p, "moved")
    /\ UNCHANGED <<snapshot, ctx, job, answers, bounds>>

TransitionSnapshot(p) ==
    /\ pc[p] = "moved"
    /\ SaveSnapshot(p)
    /\ Answer(job[p].sub, "accepted")
    /\ job' = [job EXCEPT ![p] = NoJob]
    /\ Goto(p, "idle")
    /\ UNCHANGED <<log, engineVars, bounds>>

\* No level accepts: the context goes back, and a failed guard leaves SIGNAL_REFUSED.
Refuse(p) ==
    /\ pc[p] = "routing"
    /\ Handles(p) = {} /\ job[p].failed
    /\ Append1(p, Event("SIGNAL_REFUSED", NoKey, job[p].sub, 0, job[p].prev, job[p].prev))
    /\ ctx' = [ctx EXCEPT ![p] = job[p].before]
    /\ Answer(job[p].sub, "refused")
    /\ job' = [job EXCEPT ![p] = NoJob]
    /\ Goto(p, "idle")
    /\ UNCHANGED <<snapshot, state, bounds>>

Unhandled(p) ==
    /\ pc[p] = "routing"
    /\ Handles(p) = {} /\ ~job[p].failed
    /\ ctx' = [ctx EXCEPT ![p] = job[p].before]
    /\ Answer(job[p].sub, "unhandled")
    /\ job' = [job EXCEPT ![p] = NoJob]
    /\ Goto(p, "idle")
    /\ UNCHANGED <<ledgerVars, state, seqCounter, extSeen, bounds>>

\* A state view served between calls, or while a guard or a child invocation is awaited,
\* records the delivered turn through the engine that was current when it was looked up.
DeliverView(p) ==
    /\ pc[p] \in {"idle", "guard", "accepted"}
    /\ views < MaxViews
    /\ views' = views + 1
    /\ Append1(p, Event("AGENT_TURN_STARTED", NoKey, 0, 0, state[p], state[p]))
    /\ UNCHANGED <<snapshot, pc, state, ctx, job, answers, calls, crashes>>

\* The process dies, or the engine is dropped for a fresh one (reopen, getEngine).
Crash(p) ==
    /\ pc[p] # "down"
    /\ crashes < MaxCrashes
    /\ crashes' = crashes + 1
    /\ Goto(p, "down")
    /\ state' = [state EXCEPT ![p] = InitialState]
    /\ ctx' = [ctx EXCEPT ![p] = {}]
    /\ seqCounter' = [seqCounter EXCEPT ![p] = 0]
    /\ extSeen' = [extSeen EXCEPT ![p] = FALSE]
    /\ job' = [job EXCEPT ![p] = NoJob]
    /\ UNCHANGED <<ledgerVars, answers, calls, views>>

\* One step of the call process p is in.
Work(p) ==
    \/ AssertCurrent(p) \/ EmitSignal(p) \/ EmitDuplicate(p)
    \/ StartGuard(p) \/ GuardReturns(p) \/ GuardConflict(p)
    \/ RecordGuard(p) \/ Transition(p) \/ TransitionSnapshot(p)
    \/ Refuse(p) \/ Unhandled(p)

Load(p) == OpenStore(p) \/ Rehydrate(p) \/ DecideBoot(p) \/ Boot(p) \/ BootSnapshot(p)

Next ==
    \E p \in Procs :
        \/ Load(p)
        \/ \E k \in Keys \cup {NoKey} : Submit(p, k)
        \/ Work(p)
        \/ DeliverView(p)
        \/ Crash(p)

Spec == Init /\ [][Next]_vars

\* A process that stays up takes its next step: synchronous code runs on, and an awaited
\* guard answers (judgment adapters work under a deadline).
FairSpec == Spec /\ \A p \in Procs : WF_vars(Work(p))

-----------------------------------------------------------------------------
(* Properties *)

Pcs == {"down", "opened", "booting", "booted", "idle", "looked_up", "checked", "routing",
        "guard", "guarded", "accepted", "moved"}

\* Every variable has its type.
TypeOK ==
    /\ log \in Seq(Events)
    /\ snapshot \in [seq : Nat, state : States, ctx : SUBSET Nat]
    /\ pc \in [Procs -> Pcs]
    /\ state \in [Procs -> States]
    /\ ctx \in [Procs -> SUBSET Nat]
    /\ seqCounter \in [Procs -> Nat]
    /\ extSeen \in [Procs -> BOOLEAN]
    /\ job \in [Procs -> Jobs]
    /\ answers \subseteq Nat \X Verdicts
    /\ calls \in Nat /\ views \in Nat /\ crashes \in Nat

\* A key identifies one submission: however processes race, retry and crash, the run
\* holds one SIGNAL_EMITTED per idempotency key.
OneSubmissionPerKey ==
    \A i, j \in Submissions : log[i].key = log[j].key /\ log[i].key # NoKey => i = j

\* No submission moves the run twice, retries and duplicates of its key included.
OneTransitionPerSubmission ==
    \A i, j \in Positions("STATE_TRANSITION") : log[i].cause = log[j].cause => i = j

\* A retry reads the recorded outcome: no level of a submission is guarded twice.
OneGuardPerLevel ==
    \A i, j \in DOMAIN log :
        /\ log[i].type \in {"GUARD_PASSED", "GUARD_FAILED", "GUARD_FALLBACK"}
        /\ log[j].type \in {"GUARD_PASSED", "GUARD_FAILED", "GUARD_FALLBACK"}
        /\ log[i].cause = log[j].cause /\ log[i].level = log[j].level
        => i = j

Declares(s) == {l \in Levels : <<log[s].from, l>> \in DOMAIN Target}

\* The ledger explains every decision: a transition follows an accepting guard of its
\* own submission and a failed guard of every lower level that declares the signal; a
\* refusal follows a failed guard of every declaring level.
DecisionsAreExplained ==
    \A i \in DOMAIN log :
        LET s == log[i].cause
            FailedAt(l) == \E g \in 1..(i - 1) : log[g].type = "GUARD_FAILED" /\ log[g].cause = s /\ log[g].level = l
        IN /\ log[i].type = "STATE_TRANSITION" =>
                 \E g \in (s + 1)..(i - 1) :
                     /\ log[g].cause = s /\ log[g].type \in {"GUARD_PASSED", "GUARD_FALLBACK"}
                     /\ log[g].type = "GUARD_PASSED" => log[i].to = Target[<<log[s].from, log[g].level>>]
                     /\ \A l \in Declares(s) : l < log[g].level => FailedAt(l)
           /\ log[i].type = "SIGNAL_REFUSED" => \A l \in Declares(s) : FailedAt(l)

\* What the submitter of a signal was told stays true whatever happens next: accepted
\* means the transition is in the ledger, refused or unhandled that it never will be.
OwnAnswersStand ==
    \A a \in answers :
        /\ a[2] = "accepted" => CausedBy(a[1], {"STATE_TRANSITION"}) # {}
        /\ a[2] \in {"refused", "unhandled"} => CausedBy(a[1], {"STATE_TRANSITION"}) = {}

\* An engine between calls holds the state the committed history leads to.
EngineHoldsCommittedState ==
    \A p \in Procs : pc[p] = "idle" => state[p] = CommittedState(log)

\* The submissions the ledger says were refused.
RefusedSubs(l) == {l[i].cause : i \in {j \in DOMAIN l : l[j].type = "SIGNAL_REFUSED"}}

\* An engine between calls has every accepted submission in its context and no refused
\* one, restarts from a snapshot and calls that ended in a conflict included.
EngineHoldsAcceptedContext ==
    \A p \in Procs : pc[p] = "idle" =>
        AcceptedSubs(log) \subseteq ctx[p] /\ ctx[p] \cap RefusedSubs(log) = {}

\* A call of handleSignal ends unless its process dies.
CallsReturn ==
    \A p \in Procs : pc[p] = "looked_up" ~> pc[p] \in {"idle", "down"}

\* The run as its callers see it.  A submission is accepted by the transition it causes
\* and refused by the SIGNAL_REFUSED it causes.
Promise == INSTANCE KeyedSubmissions WITH
    submitted <- {[id |-> i, key |-> log[i].key] : i \in Submissions},
    accepted <- AcceptedSubs(log),
    refused <- RefusedSubs(log)

\* The run implements its promise: one submission per key, settled once and for good.
PromiseKept == Promise!Spec

\* One process: a snapshot at seq n holds the state the first n events lead to, so that
\* resuming from it is resuming from the history (fsm-engine.ts:308).  A second process can
\* append between the transition and the snapshot that is stamped with the latest sequence.
SnapshotIsPointInTime ==
    snapshot.seq > 0 => snapshot.state = CommittedState(SubSeq(log, 1, snapshot.seq))

\* However many processes submit under a key, retry and crash, the submission is
\* recorded once, guarded once at each level and moves the run once.
SubmissionsHappenOnce == OneSubmissionPerKey /\ OneTransitionPerSubmission /\ OneGuardPerLevel

\* One process: an engine between calls is where the committed history leads, with
\* the payload of every accepted submission and of no refused one.
EngineHoldsHistory == EngineHoldsCommittedState /\ EngineHoldsAcceptedContext
====
