---- MODULE ViewDelivery ----
(***************************************************************************)
(* Strict execution: a run counts the state views it hands out and sends an *)
(* agent that keeps looking without emitting a signal to BYPASS_DETECTED.   *)
(* A view leaves the server in three ways: a state fetch, the continuation  *)
(* of the submission that changed the state, and the answer to a retry      *)
(* whose original outcome was never recorded.  The first two are events of  *)
(* the run; the third is a credit kept beside the ledger, so that a retry   *)
(* never moves the run under the guard of the original.                     *)
(*                                                                          *)
(* A process serves one submission at a time and, independently, state      *)
(* fetches.  Between two awaits it runs alone in its process, but other     *)
(* processes reach the ledger between any two of its accesses.              *)
(*                                                                          *)
(* The submission machinery is that of SignalEngine with one level of       *)
(* bubbling; an event's id is its position.                                 *)
(***************************************************************************)
EXTENDS Integers, Sequences, FiniteSetsExt

CONSTANTS
    Procs,          \* processes that may serve the run
    Keys,           \* idempotency keys of submissions
    NoKey,          \* a state fetch has none
    Outcomes,       \* for each number of servers, of "accepted", "refused", "unhandled": what signals meet
    MaxIdleTurns,   \* max_idle_turns of the state
    MaxRefetches,   \* max_view_refetches of the state
    MaxSubmits,     \* bound: submissions and retries
    MaxFetches,     \* bound, for each number of servers: state fetches
    MaxCrashes      \* bound, for each number of servers: processes that die

ASSUME ConstantsAssumption ==
    /\ NoKey \notin Keys /\ IsFiniteSet(Procs)
    /\ Outcomes \in [1 .. Cardinality(Procs) -> SUBSET {"accepted", "refused", "unhandled"}]
    /\ MaxIdleTurns \in Nat /\ MaxRefetches \in Nat
    /\ MaxSubmits \in Nat
    /\ MaxFetches \in [1 .. Cardinality(Procs) -> Nat] /\ MaxCrashes \in [1 .. Cardinality(Procs) -> Nat]

VARIABLES
    servers,    \* the processes that hold the run open
    log,        \* events of the run
    credits,    \* rows of recovered_deliveries
    snapshot,   \* seq of the latest snapshot
    engines,    \* engines opened so far
    cached,     \* the engine each process hands out, 0 when none
    call,       \* the submission and the fetch each process is serving
    submits, fetches, crashes

store == <<log, credits, snapshot>>
bounds == <<servers, submits, fetches, crashes>>
vars == <<servers, log, credits, snapshot, engines, cached, call, submits, fetches, crashes>>

Calls == Procs \X {"submission", "fetch"}

Deliveries == {"AGENT_TURN_STARTED", "STATE_VIEW_REFETCHED"}
Resets == {"SIGNAL_EMITTED", "STATE_TRANSITION", "BYPASS_TRANSITION"}
EventTypes == Deliveries \cup Resets \cup
    {"SKILL_INITIALIZED", "GUARD_EVALUATED", "SIGNAL_REFUSED", "BYPASS_DETECTED", "MCP_CONTINUATION_RECORDED"}

\* n is turns_since_last_signal of a turn and the result_view of a receipt.  The view a
\* delivery was counted for is not in the code's event; properties speak of it.
Event(type, key, n) == [type |-> type, key |-> key, n |-> n, view |-> 0]
Delivery(type, c, n) == [Event(type, call[c].key, n) EXCEPT !.view = call[c].view]

Meets == Outcomes[Cardinality(servers)]

NoCall == [pc |-> "idle", eng |-> 0, key |-> NoKey, view |-> 0, delivered |-> 0, promotes |-> FALSE, version |-> 0]

-----------------------------------------------------------------------------
(* What the ledger says *)

Of(types) == {i \in DOMAIN log : log[i].type \in types}
Keyed(types, k) == {i \in Of(types) : k # NoKey /\ log[i].key = k}

LastReset == Max({0} \cup Of(Resets))
OpenCredits == {c \in credits : ~c.absorbed /\ c.view >= LastReset}
LedgerTurns == Cardinality({i \in Of({"AGENT_TURN_STARTED"}) : i > LastReset})

\* Events that change the view: all but deliveries and receipts.
ViewChanges == Of(EventTypes \ (Deliveries \cup {"MCP_CONTINUATION_RECORDED"}))

\* Mutant: the window is not wide enough for the deliveries a view can have.
Window_Narrow == MaxRefetches + MaxIdleTurns

\* currentViewDeliveries looks at the last Window events only.
Window == 4 * (MaxRefetches + MaxIdleTurns + 2)
Recent == {i \in DOMAIN log : i > Len(log) - Window}

ViewSeq ==
    IF Recent \cap ViewChanges # {} THEN Max(Recent \cap ViewChanges)
    ELSE IF Len(log) > Window THEN Len(log) ELSE 0

Credited(v) == {c \in credits : c.view = v /\ ~c.absorbed}

\* Deliveries of the current view; past the window, more than any allowance.
DeliveredNow ==
    Cardinality(Credited(ViewSeq)) +
    (IF Recent \cap ViewChanges = {} /\ Len(log) > Window THEN MaxRefetches + 1
     ELSE Cardinality({i \in Recent \cap Of(Deliveries) : i > ViewSeq}))

-----------------------------------------------------------------------------
(* Engines *)

HasExternal(e) == engines[e].ext \/ Len(log) > engines[e].counter

\* Mutant: the turns before a restart are forgotten.
Reloaded_Zero ==
    [turns |-> 0,
     bypassed |-> \E i \in Of({"BYPASS_TRANSITION"}) : i > snapshot,
     counter |-> Len(log), ext |-> FALSE]

\* A new engine replays the counters from the events after the snapshot.
Reloaded ==
    [turns |-> Cardinality({i \in Of({"AGENT_TURN_STARTED"}) : i > snapshot /\ i > LastReset}),
     bypassed |-> \E i \in Of({"BYPASS_TRANSITION"}) : i > snapshot,
     counter |-> Len(log), ext |-> FALSE]

\* The cached engine, unless another process moved the run.
Usable(p) == {e \in {cached[p]} \ {0} : ~HasExternal(e)}

\* getEngine
GetEngine(p, e) ==
    \/ e \in Usable(p) /\ UNCHANGED <<engines, cached>>
    \/ /\ Usable(p) = {} /\ e = Len(engines) + 1
       /\ engines' = Append(engines, Reloaded)
       /\ cached' = [cached EXCEPT ![p] = e]

\* The events an engine appends: its counter follows, and a gap is another's writing.
Noted(e) == [engines[e] EXCEPT !.ext = @ \/ Len(log) > engines[e].counter, !.counter = Len(log) + 1]

Append1(e, event, turns, bypassed) ==
    /\ log' = Append(log, event)
    /\ engines' = [engines EXCEPT ![e] = [Noted(e) EXCEPT !.turns = turns, !.bypassed = bypassed]]

AppendOnly(e, event) == Append1(e, event, engines[e].turns, engines[e].bypassed)

-----------------------------------------------------------------------------
(* Calls *)

\* Awaiting calls let the other call of their process run.
Waiting(c) == call[c].pc \in {"idle", "resuming", "guard"}
Runs(c) == \A d \in Calls : d[1] = c[1] /\ d # c => Waiting(d)

At(c, pc) == call[c].pc = pc /\ Runs(c)
Goto(c, pc) == call' = [call EXCEPT ![c].pc = pc]
End(c) == call' = [call EXCEPT ![c] = NoCall]

Init ==
    /\ servers \in (SUBSET Procs) \ {{}}
    /\ log = <<Event("SKILL_INITIALIZED", NoKey, 0)>>
    /\ credits = {}
    /\ snapshot = 1
    /\ engines = <<>>
    /\ cached = [p \in Procs |-> 0]
    /\ call = [c \in Calls |-> NoCall]
    /\ submits = 0 /\ fetches = 0 /\ crashes = 0

\* reactive_state: refused in bypass, else it awaits pending runtime actions.
Fetch(p) ==
    LET c == <<p, "fetch">> IN
    /\ At(c, "idle")
    /\ fetches < MaxFetches[Cardinality(servers)]
    /\ fetches' = fetches + 1
    /\ \E e \in 1..(Len(engines) + 1) :
        /\ GetEngine(p, e)
        /\ IF engines'[e].bypassed THEN UNCHANGED call
           ELSE call' = [call EXCEPT ![c] = [NoCall EXCEPT !.pc = "resuming", !.eng = e]]
    /\ UNCHANGED <<servers, store, submits, crashes>>

\* reactive_emit_signal: a key the run knows is a retry.
Submit(p, k) ==
    LET c == <<p, "submission">> IN
    /\ At(c, "idle")
    /\ submits < MaxSubmits
    /\ submits' = submits + 1
    /\ \E e \in 1..(Len(engines) + 1) :
        /\ GetEngine(p, e)
        /\ call' = [call EXCEPT ![c] = [NoCall EXCEPT !.eng = e, !.key = k,
                       !.pc = IF Keyed({"SIGNAL_EMITTED"}, k) = {} THEN "emitting" ELSE "recovering"]]
    /\ UNCHANGED <<servers, store, fetches, crashes>>

\* assertCurrent; an append that lands after it shows only as a gap.
EmitConflict(c) ==
    /\ At(c, "emitting")
    /\ HasExternal(call[c].eng)
    /\ End(c)
    /\ UNCHANGED <<store, engines, cached, bounds>>

Emit(c) ==
    LET e == call[c].eng IN
    /\ At(c, "emitting")
    /\ Keyed({"SIGNAL_EMITTED"}, call[c].key) = {}
    /\ Append1(e, Event("SIGNAL_EMITTED", call[c].key, 0), 0, engines[e].bypassed)
    /\ Goto(c, "routing")
    /\ UNCHANGED <<credits, snapshot, cached, bounds>>

\* Another process holds the key: its event comes back and the counter moves to it.
EmitDuplicate(c) ==
    /\ At(c, "emitting")
    /\ \E s \in Keyed({"SIGNAL_EMITTED"}, call[c].key) :
        engines' = [engines EXCEPT ![call[c].eng].counter = IF s > @ THEN s ELSE @]
    /\ Goto(c, "recovering")
    /\ UNCHANGED <<store, cached, bounds>>

\* A declared signal is guarded; the terminal bypass state declares none.
BeginGuard(c) ==
    /\ At(c, "routing")
    /\ Meets # {"unhandled"} /\ ~engines[call[c].eng].bypassed
    /\ call' = [call EXCEPT ![c].pc = "guard", ![c].version = Len(log)]
    /\ UNCHANGED <<store, engines, cached, bounds>>

Unhandled(c) ==
    /\ At(c, "routing")
    /\ "unhandled" \in Meets \/ engines[call[c].eng].bypassed
    /\ Goto(c, "responding")
    /\ UNCHANGED <<store, engines, cached, bounds>>

\* assertRunVersion, when the guard answers.
GuardReturns(c) ==
    /\ At(c, "guard")
    /\ IF Len(log) = call[c].version THEN Goto(c, "answered") ELSE End(c)
    /\ UNCHANGED <<store, engines, cached, bounds>>

RecordGuard(c) ==
    /\ At(c, "answered")
    /\ AppendOnly(call[c].eng, Event("GUARD_EVALUATED", NoKey, 0))
    /\ \E o \in Meets \ {"unhandled"} : Goto(c, o)
    /\ UNCHANGED <<credits, snapshot, cached, bounds>>

Transition(c) ==
    /\ At(c, "accepted")
    /\ AppendOnly(call[c].eng, Event("STATE_TRANSITION", NoKey, 0))
    /\ Goto(c, "moved")
    /\ UNCHANGED <<credits, snapshot, cached, bounds>>

SaveSnapshot(c) ==
    /\ At(c, "moved")
    /\ snapshot' = Len(log)
    /\ Goto(c, "responding")
    /\ UNCHANGED <<log, credits, engines, cached, bounds>>

Refuse(c) ==
    /\ At(c, "refused")
    /\ AppendOnly(call[c].eng, Event("SIGNAL_REFUSED", NoKey, 0))
    /\ Goto(c, "responding")
    /\ UNCHANGED <<credits, snapshot, cached, bounds>>

-----------------------------------------------------------------------------
(* Handing out a view *)

\* continuationResponse to the original submission.
Respond(c) ==
    /\ At(c, "responding")
    /\ IF HasExternal(call[c].eng) THEN End(c) ELSE Goto(c, "scanning")
    /\ UNCHANGED <<store, engines, cached, bounds>>

\* A fetch is answered, a submission saves its receipt first.
Delivered(c) == IF c[2] = "fetch" THEN End(c) ELSE Goto(c, "receipt")

\* recordStateDelivery counts the deliveries of the view so far.
Scan(c) ==
    /\ At(c, "scanning") \/ At(c, "resuming")
    /\ IF engines[call[c].eng].bypassed THEN Delivered(c)
       ELSE call' = [call EXCEPT ![c].pc = "delivering", ![c].view = ViewSeq, ![c].delivered = DeliveredNow,
                        ![c].promotes = \E r \in Credited(ViewSeq) : r.key = call[c].key]
    /\ UNCHANGED <<store, engines, cached, bounds>>

Refetches(c) == ~call[c].promotes /\ call[c].delivered \in 1..MaxRefetches

\* STATE_VIEW_REFETCHED, within the allowance.
Refetch(c) ==
    /\ At(c, "delivering")
    /\ Refetches(c)
    /\ AppendOnly(call[c].eng, Delivery("STATE_VIEW_REFETCHED", c, 0))
    /\ Delivered(c)
    /\ UNCHANGED <<credits, snapshot, cached, bounds>>

\* Mutant: the credit of a recovered delivery stays when its original is counted.
StartTurn_KeepsCredit(c) ==
    LET e == call[c].eng IN
    /\ At(c, "delivering")
    /\ ~Refetches(c)
    /\ Append1(e, Delivery("AGENT_TURN_STARTED", c, engines[e].turns + 1), engines[e].turns + 1, FALSE)
    /\ Goto(c, "checking")
    /\ UNCHANGED <<credits, snapshot, cached, bounds>>

\* recordTurnStart: the turn is appended and absorbs the credit of its own key and view
\* in one transaction.  The key of a delivery is new here: only the original response
\* to a submission is delivered under it.
StartTurn(c) ==
    LET e == call[c].eng
        Own(r) == r.view = call[c].view /\ r.key = call[c].key
    IN
    /\ At(c, "delivering")
    /\ ~Refetches(c)
    /\ Append1(e, Delivery("AGENT_TURN_STARTED", c, engines[e].turns + 1), engines[e].turns + 1, FALSE)
    /\ credits' = {[r EXCEPT !.absorbed = @ \/ Own(r)] : r \in credits}
    /\ Goto(c, "checking")
    /\ UNCHANGED <<snapshot, cached, bounds>>

\* Mutant: the idle limit is compared with the wrong side.
Idle_OffByOne(e) == engines[e].turns + Cardinality(OpenCredits) >= MaxIdleTurns

Idle(e) == engines[e].turns + Cardinality(OpenCredits) > MaxIdleTurns

\* checkBypass
CheckPasses(c) ==
    /\ At(c, "checking")
    /\ ~Idle(call[c].eng)
    /\ Delivered(c)
    /\ UNCHANGED <<store, engines, cached, bounds>>

DetectBypass(c) ==
    /\ At(c, "checking")
    /\ Idle(call[c].eng)
    /\ AppendOnly(call[c].eng, Event("BYPASS_DETECTED", NoKey, 0))
    /\ Goto(c, "bypassing")
    /\ UNCHANGED <<credits, snapshot, cached, bounds>>

\* The run moves to the bypass state and the call throws.
Bypass(c) ==
    /\ At(c, "bypassing")
    /\ Append1(call[c].eng, Event("BYPASS_TRANSITION", NoKey, 0), 0, TRUE)
    /\ End(c)
    /\ UNCHANGED <<credits, snapshot, cached, bounds>>

\* MCP_CONTINUATION_RECORDED, with the view that is current by now.
SaveReceipt(c) ==
    /\ At(c, "receipt")
    /\ AppendOnly(call[c].eng, Event("MCP_CONTINUATION_RECORDED", call[c].key, ViewSeq))
    /\ End(c)
    /\ UNCHANGED <<credits, snapshot, cached, bounds>>

\* A retry: nothing is counted when its receipt was saved or its view was delivered.
Recover(c) ==
    /\ At(c, "recovering")
    /\ IF \/ HasExternal(call[c].eng)
          \/ Keyed({"MCP_CONTINUATION_RECORDED"}, call[c].key) # {}
          \/ engines[call[c].eng].bypassed
          \/ DeliveredNow > 0
       THEN End(c)
       ELSE call' = [call EXCEPT ![c].pc = "crediting", ![c].view = ViewSeq]
    /\ UNCHANGED <<store, engines, cached, bounds>>

\* INSERT OR IGNORE ... WHERE NOT EXISTS a delivery after the view.
Credit(c) ==
    /\ At(c, "crediting")
    /\ IF (\E r \in credits : r.view = call[c].view) \/ \E i \in Of(Deliveries) : i > call[c].view
       THEN UNCHANGED credits
       ELSE credits' = credits \cup {[view |-> call[c].view, key |-> call[c].key, absorbed |-> FALSE]}
    /\ End(c)
    /\ UNCHANGED <<log, snapshot, engines, cached, bounds>>

\* The process dies and its calls with it.
Crash(p) ==
    /\ crashes < MaxCrashes[Cardinality(servers)]
    /\ cached[p] # 0
    /\ crashes' = crashes + 1
    /\ cached' = [cached EXCEPT ![p] = 0]
    /\ call' = [c \in Calls |-> IF c[1] = p THEN NoCall ELSE call[c]]
    /\ UNCHANGED <<servers, store, engines, submits, fetches>>

Next ==
    \/ \E p \in servers : Fetch(p) \/ (\E k \in Keys : Submit(p, k)) \/ Crash(p)
    \/ \E c \in Calls :
        \/ EmitConflict(c) \/ Emit(c) \/ EmitDuplicate(c) \/ BeginGuard(c) \/ Unhandled(c)
        \/ GuardReturns(c) \/ RecordGuard(c) \/ Transition(c) \/ SaveSnapshot(c) \/ Refuse(c)
        \/ Respond(c) \/ Scan(c) \/ Refetch(c) \/ StartTurn(c) \/ CheckPasses(c)
        \/ DetectBypass(c) \/ Bypass(c) \/ SaveReceipt(c) \/ Recover(c) \/ Credit(c)

Spec == Init /\ [][Next]_vars

-----------------------------------------------------------------------------
(* Properties *)

\* Every variable has its type.
TypeOK ==
    /\ \A i \in DOMAIN log : log[i] \in [type : EventTypes, key : Keys \cup {NoKey}, n : Nat, view : Nat]
    /\ credits \subseteq [view : DOMAIN log, key : Keys, absorbed : BOOLEAN]
    /\ snapshot \in DOMAIN log
    /\ \A e \in DOMAIN engines : engines[e] \in [turns : Nat, bypassed : BOOLEAN, counter : DOMAIN log, ext : BOOLEAN]
    /\ \A p \in Procs : cached[p] \in 0..Len(engines)
    /\ \A c \in Calls : call[c].eng \in 0..Len(engines)

\* One response is counted once: a view that the run counts under a key as a delivery
\* event is not counted under that key as a recovered credit too, however the original
\* response and its retries race.
CountedOnce ==
    \A r \in credits : ~r.absorbed => \A i \in Keyed(Deliveries, r.key) : log[i].view # r.view

\* A submission's outcome is recorded by the call that made it: one receipt and one
\* delivery per key, retries and duplicates included.
OneReceiptPerSubmission ==
    \A k \in Keys :
        /\ Cardinality(Keyed({"MCP_CONTINUATION_RECORDED"}, k)) <= 1
        /\ Cardinality(Keyed(Deliveries, k)) <= 1

\* The bounded window always reaches the event that made the current view, so the
\* allowance is never computed from a truncated count.
WindowReachesView == ViewSeq = Max(ViewChanges)

\* A second process that serves the run is noticed late: only a duplicate of its event
\* moves the counter past it.
Alone == Cardinality(servers) = 1

Current(e) ==
    /\ ~HasExternal(e)
    /\ \A c \in Calls : call[c].eng = e => call[c].pc \in {"idle", "resuming", "guard"}

\* An engine that missed nothing counts what the ledger holds, restarts included: the
\* same turns since the last signal or transition, and the same bypass.
EngineCountsAsLedger ==
    Alone => \A e \in {cached[p] : p \in {q \in Procs : cached[q] # 0}} :
        Current(e) =>
            /\ engines[e].bypassed <=> Of({"BYPASS_TRANSITION"}) # {}
            /\ engines[e].turns = LedgerTurns

\* "Agent exceeded max idle turns without emitting a signal": the ledger and the
\* credits hold that many deliveries since the last signal or transition, as long as one
\* process serves the run.
BypassIsEarned ==
    [][Alone =>
        \A i \in DOMAIN log' : i > Len(log) /\ log'[i].type = "BYPASS_DETECTED"
           => LedgerTurns + Cardinality(OpenCredits) > MaxIdleTurns]_vars

\* A response is counted under its key once, as an event or as a credit, and has one
\* receipt, whichever servers answer it and its retries.
DeliveredOnce == TypeOK /\ CountedOnce /\ OneReceiptPerSubmission
====
