---- MODULE DeltaViews ----
(***************************************************************************)
(* Views of a run's context that say only what changed.  An agent holds the *)
(* context its views showed it.  A complete view shows every key the active *)
(* state lets it see; a delta view, anchored at an earlier view, shows the  *)
(* keys the ledger changed since and the keys the anchored state hid, and   *)
(* names instead of repeating a value the agent has just supplied.          *)
(*                                                                          *)
(* Every agent has its own server process: an engine that holds the run in  *)
(* memory, and the session's note of the view it delivered last.  The       *)
(* processes share the ledger.  A value is named by where it comes from: a  *)
(* submitted one by the ledger position of its signal, one that a hook sets *)
(* by the hook.  Events that change neither state nor context are left out. *)
(***************************************************************************)
EXTENDS Integers, Sequences, SequencesExt

CONSTANTS
    Agents,
    Viewers,        \* agents that ask for views; the others, as a terminal does, only submit
    Keys,           \* context keys
    States,
    Initial,        \* the initial state
    Scope,          \* keys a view at a state shows
    OnEnter,        \* keys the entry hooks of a state set
    OnExit,         \* keys the exit hooks of a state set
    Submissions,    \* what each agent sends: [fields, updates], declared fields and explicit updates
    None,
    Histories,      \* what the viewers may find: [events, seen], a ledger and the view they hold of it
    MaxCalls,       \* bound: submissions, fetches and retries of each agent
    MaxFaults       \* bound: lost answers, restarts, compactions and failed child skills

Values == ({"default"} \X {0}) \cup ({"signal"} \X Nat) \cup ({"enter", "exit"} \X States)

Payloads == [fields : SUBSET Keys, updates : SUBSET Keys]

\* The run as an engine or a snapshot holds it.  An engine that leaked shows fields of a
\* signal that changed nothing.
Engines == [seq : Nat, ctx : [Keys -> Values], path : States, leaked : BOOLEAN]

Emissions == [at : {"guard", "answer"}, cause : Nat, since : Nat \cup {None}, before : [Keys -> Values]]

Views ==
    [ctx : [Keys -> Values], path : States, since : Nat \cup {None}, cause : Nat \cup {None},
     remember : BOOLEAN, seq : Nat \cup {None}, torn : BOOLEAN, ahead : BOOLEAN]

Holdings ==
    [held : [Keys -> Values \cup {None}], state : States, seq : Nat, sure : BOOLEAN,
     torn : BOOLEAN, doubtful : SUBSET Keys]

ASSUME DeltaAssumption ==
    /\ Initial \in States /\ Viewers \subseteq Agents
    /\ Scope \in [States -> SUBSET Keys]
    /\ OnEnter \in [States -> SUBSET Keys] /\ OnExit \in [States -> SUBSET Keys]
    /\ Submissions \in [Agents -> SUBSET Payloads]
    /\ MaxCalls \in [Agents -> Nat] /\ MaxFaults \in Nat
    /\ None \notin Nat \cup States \cup Emissions \cup Views
    /\ \A S \in SUBSET Keys : None \notin [S -> Values]

VARIABLES
    ledger,     \* the run's events
    snapshot,   \* the run's latest snapshot: [seq, ctx, path, leaked]
    engine,     \* each process's engine: [seq, ctx, path, leaked]
    emit,       \* the submission each process works on, or None
    answer,     \* the view each process is assembling, or None
    session,    \* sequence of the view each session delivered last, or None
    agent,      \* what each agent holds: [held, state, seq, sure, torn, doubtful]
    tried,      \* agents that have submitted something, so that they may retry it
    calls,      \* calls of each agent so far
    faults

deltaVars == <<ledger, snapshot, engine, emit, answer, session, agent, tried, calls, faults>>

Default == [k \in Keys |-> <<"default", 0>>]
Unknown == [k \in Keys |-> None]

-----------------------------------------------------------------------------
(* The ledger *)

Initialized == [type |-> "SKILL_INITIALIZED"]
Signal(sub) == [type |-> "SIGNAL_EMITTED", sub |-> sub]

\* patch is None for a transition recorded before patches existed.
Transition(cause, from, to, patch) ==
    [type |-> "STATE_TRANSITION", cause |-> cause, from |-> from, to |-> to, patch |-> patch]

Transitions(first, last) == {n \in first..last : ledger[n].type = "STATE_TRANSITION"}

\* suppliedContextUpdates of the signal at a position
Supplied(n) == [k \in ledger[n].sub.fields \cup ledger[n].sub.updates |-> <<"signal", n>>]

All(keys, value) == [k \in keys |-> value]

\* The entries of one map over those of another.
Over(f, g) == [k \in DOMAIN f \cup DOMAIN g |-> IF k \in DOMAIN f THEN f[k] ELSE g[k]]

\* What a transition writes: declared fields, exit hooks, explicit updates, entry hooks, the
\* later ones over the earlier ones.  A self-loop leaves and enters nothing.
Patch(cause, from, to, sub) ==
    LET Entered == All(IF from = to THEN {} ELSE OnEnter[to], <<"enter", to>>)
        Exited == All(IF from = to THEN {} ELSE OnExit[from], <<"exit", from>>)
        Given(keys) == All(keys, <<"signal", cause>>)
    IN Over(Entered, Over(Given(sub.updates), Over(Exited, Given(sub.fields))))

\* The patch of a transition, for a reader that starts at first.
PatchOf(n, first) ==
    IF ledger[n].patch # None THEN ledger[n].patch
    ELSE IF ledger[n].cause >= first THEN Supplied(ledger[n].cause) ELSE All({}, None)

\* A ledger as the program writes it: every transition has a signal as its cause and leaves
\* the state that the last one entered.
IsSignal(event) == event.type = "SIGNAL_EMITTED" /\ event.sub \in Payloads

IsTransition(events, n) ==
    LET e == events[n]
        earlier == {m \in 1..(n - 1) : events[m].type = "STATE_TRANSITION"}
    IN /\ e.type = "STATE_TRANSITION"
       /\ e.cause \in 2..(n - 1) /\ IsSignal(events[e.cause])
       /\ e.from = IF earlier = {} THEN Initial ELSE events[Max(earlier)].to
       /\ e.to \in States
       /\ e.patch = None \/ \E S \in SUBSET Keys : e.patch \in [S -> Values]

IsLedger(events) ==
    /\ events \in Seq(Range(events)) /\ Len(events) > 0 /\ events[1] = Initialized
    /\ \A n \in 2..Len(events) : IsSignal(events[n]) \/ IsTransition(events, n)

ASSUME HistoriesAssumption ==
    \A h \in Histories : IsLedger(h.events) /\ h.seen \in 0..Len(h.events)

\* Replay from first to last: the last write of a key stands, and so does the last target.
ReplayedContext(ctx, first, last) ==
    [k \in Keys |->
        LET writes == {n \in Transitions(first, last) : k \in DOMAIN PatchOf(n, first)} IN
        IF writes = {} THEN ctx[k] ELSE PatchOf(Max(writes), first)[k]]

ReplayedPath(path, first, last) ==
    IF Transitions(first, last) = {} THEN path ELSE ledger[Max(Transitions(first, last))].to

\* An engine built from the latest snapshot and the events after it.
Loaded ==
    [seq |-> Len(ledger),
     ctx |-> ReplayedContext(snapshot.ctx, snapshot.seq + 1, Len(ledger)),
     path |-> ReplayedPath(snapshot.path, snapshot.seq + 1, Len(ledger)),
     leaked |-> snapshot.leaked]

\* hasExternalChanges
External(a) == Len(ledger) > engine[a].seq

\* getEngine, and the refresh of a queued call
Refreshed(a) == IF External(a) THEN Loaded ELSE engine[a]

\* contextChangesSince: the keys that committed after an anchor, and the state at the anchor
\* when it was left; None when only the complete view is safe.
FoldsSafely(seq) ==
    /\ seq <= Len(ledger)
    /\ \A n \in (seq + 1)..Len(ledger) : ledger[n] # Initialized
    /\ \A n \in Transitions(seq + 1, Len(ledger)) : ledger[n].patch = None => ledger[n].cause > seq

ContextChangesSince(seq) ==
    IF ~FoldsSafely(seq) THEN None
    ELSE LET after == Transitions(seq + 1, Len(ledger)) IN
         [keys |-> UNION {DOMAIN PatchOf(n, seq + 1) : n \in after},
          anchorPath |-> IF after = {} THEN None ELSE ledger[Min(after)].from]

-----------------------------------------------------------------------------
(* Assembling a view *)

\* What an engine holds becomes what the view shows, before its sequence is read.
Viewed(e, since, cause, remember, guarding) ==
    [ctx |-> e.ctx, path |-> e.path, since |-> since, cause |-> cause, remember |-> remember,
     seq |-> None, torn |-> guarding \/ e.leaked, ahead |-> FALSE]

\* Mutant: a delta view carries what changed and forgets what the anchored state hid.
DeltaKeys_ChangedOnly(v, changes) == Scope[v.path] \cap changes.keys

\* The keys of a delta view, changed or hidden at the anchor.
DeltaKeys(v, changes) ==
    LET seen == Scope[IF changes.anchorPath = None THEN v.path ELSE changes.anchorPath]
    IN Scope[v.path] \cap (changes.keys \cup (Keys \ seen))

\* createDeltaView names the values the agent has just supplied ...
Accepted(v, keys) ==
    IF v.cause = None THEN {}
    ELSE {k \in keys \cap DOMAIN Supplied(v.cause) : Supplied(v.cause)[k] = v.ctx[k]}

\* The keys a view shows or names.
Shown(v) ==
    LET changes == IF v.since = None THEN None ELSE ContextChangesSince(v.since)
    IN IF changes = None THEN Scope[v.path] ELSE DeltaKeys(v, changes)

Named(v) ==
    IF v.since = None \/ ContextChangesSince(v.since) = None THEN {} ELSE Accepted(v, Shown(v))

\* ... so what an agent holds after a view is what it held, what the view shows, and the
\* values it knows to be its own.
HeldAfter(a, v) ==
    [k \in Keys |-> IF k \in Named(v) THEN Supplied(v.cause)[k]
                    ELSE IF k \in Shown(v) THEN v.ctx[k] ELSE agent[a].held[k]]

\* After a torn view every key is in doubt, until another view shows it.
DoubtfulAfter(a, v) == IF v.torn THEN Keys ELSE agent[a].doubtful \ Shown(v)

-----------------------------------------------------------------------------
\* What an agent holds that was shown the complete view at a position, and nothing else.
ViewOf(seq) ==
    LET path == ReplayedPath(Initial, 1, seq)
        ctx == ReplayedContext(Default, 1, seq)
    IN [held |-> [k \in Keys |-> IF seq > 0 /\ k \in Scope[path] THEN ctx[k] ELSE None],
        state |-> path, seq |-> seq, sure |-> TRUE, torn |-> FALSE,
        doubtful |-> {}]

DeltaInit ==
    /\ \E h \in Histories :
          /\ ledger = h.events
          /\ agent = [a \in Agents |-> ViewOf(IF a \in Viewers THEN h.seen ELSE 0)]
    /\ snapshot = [seq |-> 1, ctx |-> Default, path |-> Initial, leaked |-> FALSE]
    /\ engine = [a \in Agents |-> Loaded]
    /\ emit = [a \in Agents |-> None]
    /\ answer = [a \in Agents |-> None]
    /\ session = [a \in Agents |-> None]
    /\ tried = {}
    /\ calls = [a \in Agents |-> 0] /\ faults = 0

\* An event of a's process reaches the ledger while others assemble their views: a view
\* without a sequence will get one that is too new, a view with one leaves its session ahead.
Overtake(a) ==
    answer' = [b \in Agents |->
        IF b = a \/ answer[b] = None THEN answer[b]
        ELSE IF answer[b].seq = None THEN [answer[b] EXCEPT !.torn = TRUE]
        ELSE [answer[b] EXCEPT !.ahead = TRUE]]

\* The process is between two awaits.
Free(a) == answer[a] = None

Call(a) ==
    /\ calls[a] < MaxCalls[a]
    /\ calls' = [calls EXCEPT ![a] = @ + 1]

\* deltaAnchor: the sequence the agent gives, the session's when it gives none, and none
\* for a complete view.  An agent that lost an answer or its transcript does not rely on
\* the session.
Anchors(a) ==
    {None} \cup (IF agent[a].seq > 0 THEN {agent[a].seq} ELSE {})
           \cup (IF agent[a].sure THEN {session[a]} ELSE {})

\* reactive_emit_signal: the run is refreshed, the signal recorded, and its declared fields
\* merged for the guard to see.
Submit(a) ==
    /\ Free(a) /\ emit[a] = None
    /\ Call(a)
    /\ tried' = tried \cup {a}
    /\ \E sub \in Submissions[a], since \in Anchors(a) :
          LET cause == Len(ledger) + 1
              e == Refreshed(a)
          IN /\ ledger' = Append(ledger, Signal(sub))
             /\ emit' = [emit EXCEPT ![a] = [at |-> "guard", cause |-> cause, since |-> since,
                                             before |-> e.ctx]]
             /\ engine' = [engine EXCEPT ![a] =
                   [e EXCEPT !.seq = cause, !.ctx = Over(All(sub.fields, <<"signal", cause>>), @)]]
    /\ Overtake(a)
    /\ UNCHANGED <<snapshot, session, agent, faults>>

\* The run is as it was when the guard was asked.
SameVersion(a) == Len(ledger) = emit[a].cause

Guarding(a) == emit[a] # None /\ emit[a].at = "guard"

\* The guard passes: the transition is recorded with its patch, and a snapshot.
Accept(a, to) ==
    /\ Free(a) /\ Guarding(a) /\ SameVersion(a)
    /\ LET e == engine[a]
           cause == emit[a].cause
           patch == Patch(cause, e.path, to, ledger[cause].sub)
           after == [e EXCEPT !.seq = cause + 1, !.ctx = Over(patch, @), !.path = to]
       IN /\ ledger' = Append(ledger, Transition(cause, e.path, to, patch))
          /\ engine' = [engine EXCEPT ![a] = after]
          /\ snapshot' = after
    /\ emit' = [emit EXCEPT ![a].at = "answer"]
    /\ Overtake(a)
    /\ UNCHANGED <<session, agent, tried, calls, faults>>

\* The guard refuses: the context is as before the signal.
Refuse(a) ==
    /\ Free(a) /\ Guarding(a) /\ SameVersion(a)
    /\ engine' = [engine EXCEPT ![a].ctx = emit[a].before]
    /\ emit' = [emit EXCEPT ![a].at = "answer"]
    /\ UNCHANGED <<ledger, snapshot, answer, session, agent, tried, calls, faults>>

\* Another process wrote while the guard ran: RUN_VERSION_CONFLICT.
Conflict(a) ==
    /\ Free(a) /\ Guarding(a) /\ ~SameVersion(a)
    /\ emit' = [emit EXCEPT ![a] = None]
    /\ UNCHANGED <<ledger, snapshot, engine, answer, session, agent, tried, calls, faults>>

\* The guard passes and the child skill of the transition cannot be found: the call ends in
\* an error, and the merged fields stay in the engine.
InvokeFails(a) ==
    /\ Free(a) /\ Guarding(a) /\ SameVersion(a)
    /\ faults < MaxFaults
    /\ faults' = faults + 1
    /\ engine' = [engine EXCEPT ![a].leaked = TRUE]
    /\ emit' = [emit EXCEPT ![a] = None]
    /\ UNCHANGED <<ledger, snapshot, answer, session, agent, tried, calls>>

\* continuationResponse: an error when another process has written, or the view.
Answer(a) ==
    /\ Free(a) /\ emit[a] # None /\ emit[a].at = "answer"
    /\ answer' = [answer EXCEPT ![a] =
          IF External(a) \/ a \notin Viewers THEN None ELSE Viewed(engine[a], emit[a].since, emit[a].cause, TRUE, FALSE)]
    /\ emit' = [emit EXCEPT ![a] = None]
    /\ UNCHANGED <<ledger, snapshot, engine, session, agent, tried, calls, faults>>

Read(a, since, remember) ==
    /\ Call(a)
    /\ engine' = [engine EXCEPT ![a] = Refreshed(a)]
    /\ answer' = [answer EXCEPT ![a] =
          Viewed(Refreshed(a), since, None, remember, Guarding(a) /\ ~External(a))]
    /\ UNCHANGED <<ledger, snapshot, emit, session, agent, tried, faults>>

\* reactive_state, which does not wait for a signal whose guard is running.
Fetch(a) ==
    /\ a \in Viewers /\ Free(a)
    /\ \E since \in {None} \cup (IF agent[a].seq > 0 THEN {agent[a].seq} ELSE {}) : Read(a, since, TRUE)

\* A keyed retry waits for its turn, has the complete view, and is not what the session
\* remembers.
Retry(a) ==
    /\ Free(a) /\ emit[a] = None
    /\ a \in Viewers \cap tried
    /\ Read(a, None, FALSE)

\* getStateViewSeq
Stamp(a) ==
    /\ answer[a] # None /\ answer[a].seq = None
    /\ answer' = [answer EXCEPT ![a].seq = Len(ledger)]
    /\ UNCHANGED <<ledger, snapshot, engine, emit, session, agent, tried, calls, faults>>

Remember(a) ==
    session' = IF answer[a].remember THEN [session EXCEPT ![a] = Len(ledger)] ELSE session

Sent(a) ==
    /\ answer[a] # None /\ answer[a].seq # None
    /\ Remember(a)
    /\ answer' = [answer EXCEPT ![a] = None]

\* The view reaches the agent, which reads it over what it held.
Deliver(a) ==
    /\ Sent(a)
    /\ LET v == answer[a] IN
       agent' = [agent EXCEPT ![a] =
          [held |-> HeldAfter(a, v), state |-> v.path, seq |-> v.seq,
           sure |-> IF v.remember THEN ~v.ahead ELSE @.sure,
           torn |-> v.torn, doubtful |-> DoubtfulAfter(a, v)]]
    /\ UNCHANGED <<ledger, snapshot, engine, emit, tried, calls, faults>>

\* The answer is lost, and the agent knows that it has none.
Lose(a) ==
    /\ Sent(a)
    /\ faults < MaxFaults
    /\ faults' = faults + 1
    /\ agent' = [agent EXCEPT ![a].sure = FALSE]
    /\ UNCHANGED <<ledger, snapshot, engine, emit, tried, calls>>

\* The host compacts the transcript: the views are gone.
Compact(a) ==
    /\ a \in Viewers /\ Free(a) /\ emit[a] = None
    /\ faults < MaxFaults
    /\ faults' = faults + 1
    /\ agent' = [agent EXCEPT ![a] = [@ EXCEPT !.held = Unknown, !.seq = 0, !.sure = FALSE]]
    /\ UNCHANGED <<ledger, snapshot, engine, emit, answer, session, tried, calls>>

\* The server process dies, and another one serves the agent.
Restart(a) ==
    /\ a \in Viewers
    /\ faults < MaxFaults
    /\ faults' = faults + 1
    /\ engine' = [engine EXCEPT ![a] = Loaded]
    /\ emit' = [emit EXCEPT ![a] = None]
    /\ answer' = [answer EXCEPT ![a] = None]
    /\ session' = [session EXCEPT ![a] = None]
    /\ agent' = [agent EXCEPT ![a].sure = TRUE]
    /\ UNCHANGED <<ledger, snapshot, tried, calls>>

DeltaNext ==
    \E a \in Agents :
        \/ Submit(a) \/ (\E to \in States : Accept(a, to)) \/ Refuse(a) \/ Conflict(a) \/ InvokeFails(a)
        \/ Answer(a) \/ Fetch(a) \/ Retry(a) \/ Stamp(a) \/ Deliver(a) \/ Lose(a)
        \/ Compact(a) \/ Restart(a)

DeltaSpec == DeltaInit /\ [][DeltaNext]_deltaVars

-----------------------------------------------------------------------------
(* Properties *)

\* Every variable has its type.
DeltaTypeOK ==
    /\ snapshot \in Engines /\ snapshot.seq \in 1..Len(ledger)
    /\ engine \in [Agents -> Engines] /\ \A a \in Agents : engine[a].seq \in 1..Len(ledger)
    /\ emit \in [Agents -> Emissions \cup {None}]
    /\ answer \in [Agents -> Views \cup {None}]
    /\ session \in [Agents -> 1..Len(ledger) \cup {None}]
    /\ agent \in [Agents -> Holdings] /\ \A a \in Agents : agent[a].seq \in 0..Len(ledger)
    /\ tried \subseteq Agents
    /\ calls \in [Agents -> Nat] /\ \A a \in Agents : calls[a] <= MaxCalls[a]
    /\ faults \in 0..MaxFaults

\* An agent that reads every view over the last one holds, for every key its state shows,
\* the value committed at the sequence of its last view: a delta view leaves out nothing the
\* agent does not know, and names no value that was not committed as the agent sent it.
\* Excepted are keys that no view has shown since a torn one: a view taken while a guard of
\* its engine was running or after a child skill was not found, or whose sequence was read
\* after another process had written.
AgentHoldsItsView ==
    DeltaTypeOK /\ \A a \in Agents :
        agent[a].seq > 0 /\ ~agent[a].torn =>
            LET committed == ReplayedContext(Default, 1, agent[a].seq) IN
            /\ agent[a].state = ReplayedPath(Initial, 1, agent[a].seq)
            /\ \A k \in Scope[agent[a].state] \ agent[a].doubtful : agent[a].held[k] = committed[k]
====
