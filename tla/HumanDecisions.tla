---- MODULE HumanDecisions ----
(***************************************************************************)
(* Two ways a person decides in a run.                                      *)
(*                                                                          *)
(* A gate that no adapter can judge refuses the agent's signal and records  *)
(* a request with what the agent sent.  In a terminal of their own a person *)
(* sees the request and answers; the decision is recorded and the signal    *)
(* sent again, and it counts for that request, that signal and that payload *)
(* only.  The agent keeps working in its own process meanwhile.             *)
(*                                                                          *)
(* At a human gate the answer comes through the agent: a decision and two   *)
(* signals, which a retry under the same key has to complete after a crash. *)
(*                                                                          *)
(* One gate of each kind: AT_HUMAN_GATE --USER_APPROVED--> AT_JUDGED_GATE   *)
(* --go--> PASSED, and "back" returns to the human gate.  A payload stands  *)
(* for the payload and the context the judgment selects, whose identity the *)
(* code compares.  An event's id is its position.                           *)
(***************************************************************************)
EXTENDS Integers, Sequences, FiniteSetsExt

CONSTANTS
    Agents, Terminals,  \* processes: the agent's server or CLI, and the person's approve command
    Payloads, NoPayload,
    Keys, NoKey,        \* idempotency keys of human responses
    MaxAttempts,        \* attempts of one decision in approve.ts
    MaxCalls,           \* bound: signals, human responses and approve commands
    MaxCrashes          \* bound: processes that die

Procs == Agents \cup Terminals

ASSUME ConstantsAssumption ==
    /\ Agents \cap Terminals = {} /\ NoPayload \notin Payloads /\ NoKey \notin Keys
    /\ MaxAttempts \in Nat \ {0} /\ MaxCalls \in Nat /\ MaxCrashes \in Nat

VARIABLES
    log,        \* events of the run
    engine,     \* state, last own sequence and staleness of each process's engine
    call,       \* what each process is executing
    told,       \* per process: the last answer it gave
    calls, crashes

bounds == <<calls, crashes>>
vars == <<log, engine, call, told, calls, crashes>>

Human == "AT_HUMAN_GATE"
Judged == "AT_JUDGED_GATE"
States == {Human, Judged, "PASSED"}
Target == [s \in States |->
    CASE s = Human  -> [USER_APPROVED |-> Judged]
      [] s = Judged -> [go |-> "PASSED", back |-> Human]
      [] OTHER      -> [sig \in {} |-> s]]

Batch == <<"USER_RESPONSE", "USER_APPROVED">>

\* req is the request a decision is about; key the identity of a decision or of a signal it causes.
Event(type, state, sig, payload, cause) ==
    [type |-> type, state |-> state, sig |-> sig, payload |-> payload, cause |-> cause,
     req |-> 0, decision |-> "none", key |-> <<NoKey, 0>>, src |-> "none"]

NoCall == [pc |-> "idle", op |-> "none", sig |-> "none", payload |-> NoPayload, cause |-> 0,
           key |-> NoKey, next |-> 0, replayed |-> FALSE,
           ev |-> 0, version |-> 0, human |-> "none",
           req |-> 0, decision |-> "none", attempt |-> 0, seen |-> {}]

-----------------------------------------------------------------------------
(* What the ledger says *)

Of(type) == {i \in DOMAIN log : log[i].type = type}

CurrentState ==
    LET moves == Of("STATE_TRANSITION") IN IF moves = {} THEN Human ELSE log[Max(moves)].state

Opened == [state |-> CurrentState, seen |-> Len(log), stale |-> FALSE]
HasExternal(p) == engine[p].stale \/ Len(log) > engine[p].seen

\* append, and what the store notices of other writers.
Appended(p, e) ==
    /\ log' = Append(log, e)
    /\ engine' = [engine EXCEPT ![p].stale = @ \/ Len(log) > engine[p].seen, ![p].seen = Len(log) + 1]

Decided == {log[i].req : i \in Of("APPROVAL_DECIDED")}

\* getPendingApprovals: the latest request of a state and signal, not decided, of the active state.
Pending(p) ==
    {i \in Of("APPROVAL_REQUESTED") :
        /\ log[i].state = engine[p].state /\ i \notin Decided
        /\ \A j \in Of("APPROVAL_REQUESTED") : <<log[j].state, log[j].sig>> = <<log[i].state, log[i].sig>> => j <= i}

SignalsCausedBy(i) == {j \in Of("SIGNAL_EMITTED") : log[j].cause = i}

\* Mutant: a decision counts for whatever payload comes with it.
SamePayload_Any(i, payload) == TRUE

SamePayload(i, payload) == log[log[i].req].payload = payload

\* Mutant: a decision counts for every signal that names it.
FirstSignal_Any(i) == TRUE

FirstSignal(i) == Cardinality(SignalsCausedBy(i)) = 1

\* resolveHumanDecision
HumanDecision(sig, payload, cause) ==
    IF /\ cause \in Of("APPROVAL_DECIDED") /\ log[cause].sig = sig
       /\ SamePayload(cause, payload) /\ FirstSignal(cause)
    THEN log[cause].decision ELSE "none"

\* The event that holds a key, 0 when none.
WithKey(key) == Max({0} \cup {i \in DOMAIN log : key # <<NoKey, 0>> /\ log[i].key = key})

\* The decision a response key belongs to, and its receipt.
ResponseOf(k) == WithKey(<<k, 0>>)
ReceiptOf(i) == Max({0} \cup {j \in Of("MCP_CONTINUATION_RECORDED") : log[j].cause = i})

Goto(p, pc) == call' = [call EXCEPT ![p].pc = pc]
Tell(p, answer) ==
    /\ told' = [told EXCEPT ![p] = [answer |-> answer, ev |-> call[p].ev, req |-> call[p].req]]
    /\ call' = [call EXCEPT ![p] = NoCall]

-----------------------------------------------------------------------------
Init ==
    /\ log = <<Event("SKILL_INITIALIZED", Human, "none", NoPayload, 0)>>
    /\ engine = [p \in Procs |-> [state |-> Human, seen |-> 1, stale |-> FALSE]]
    /\ call = [p \in Procs |-> NoCall]
    /\ told = [p \in Procs |-> [answer |-> "none", ev |-> 0, req |-> 0]]
    /\ calls = 0 /\ crashes = 0

(* The agent *)

\* getEngine: the cached engine, or a new one when another process moved the run.
Refreshed(p) == IF HasExternal(p) THEN Opened ELSE engine[p]

\* A signal over MCP names no cause; the AXI names the latest event of the run.
Submit(p) ==
    /\ call[p].pc = "idle" /\ calls < MaxCalls
    /\ \E sig \in {"go", "back"}, payload \in Payloads, cause \in {0, Len(log)} :
        call' = [call EXCEPT ![p] = [NoCall EXCEPT !.pc = "emit", !.op = "signal", !.sig = sig,
                                        !.payload = IF sig = "go" THEN payload ELSE NoPayload, !.cause = cause]]
    /\ engine' = [engine EXCEPT ![p] = Refreshed(p)]
    /\ calls' = calls + 1
    /\ UNCHANGED <<log, told, crashes>>

\* submitHumanResponse: the saved receipt, a conflict, or the decision and its signals.
Respond(p, k) ==
    /\ call[p].pc = "idle" /\ calls < MaxCalls
    /\ calls' = calls + 1
    /\ engine' = [engine EXCEPT ![p] = Refreshed(p)]
    /\ call' = [call EXCEPT ![p] = [NoCall EXCEPT !.pc = "respond", !.op = "response", !.key = k]]
    /\ UNCHANGED <<log, told, crashes>>

ResponseSaved(p) ==
    /\ call[p].pc = "respond" /\ ReceiptOf(ResponseOf(call[p].key)) # 0
    /\ Tell(p, "saved")
    /\ UNCHANGED <<log, engine, bounds>>

ResponseConflict(p) ==
    /\ call[p].pc = "respond" /\ ReceiptOf(ResponseOf(call[p].key)) = 0 /\ HasExternal(p)
    /\ Tell(p, "conflict")
    /\ UNCHANGED <<log, engine, bounds>>

RecordResponse(p) ==
    LET existing == ResponseOf(call[p].key) IN
    /\ call[p].pc = "respond" /\ ReceiptOf(existing) = 0 /\ ~HasExternal(p)
    /\ IF existing # 0 THEN UNCHANGED <<log, engine>>
       ELSE Appended(p, [Event("DECISION_RECORDED", engine[p].state, "none", NoPayload, 0)
                            EXCEPT !.key = <<call[p].key, 0>>])
    /\ call' = [call EXCEPT ![p].pc = "batch", ![p].next = 1,
                            ![p].cause = IF existing # 0 THEN existing ELSE Len(log')]
    /\ UNCHANGED <<told, bounds>>

\* dispatchResponse: one handleSignal after the other.
NextOfBatch(p) ==
    /\ call[p].pc = "batch" /\ call[p].next <= Len(Batch)
    /\ call' = [call EXCEPT ![p].pc = "emit", ![p].sig = Batch[call[p].next], ![p].next = @ + 1]
    /\ UNCHANGED <<log, engine, told, bounds>>

SavesReceipt(p) == ~call[p].replayed

FinishResponse(p) ==
    /\ call[p].pc = "batch" /\ call[p].next > Len(Batch)
    /\ IF SavesReceipt(p)
       THEN Appended(p, Event("MCP_CONTINUATION_RECORDED", engine[p].state, "none", NoPayload, call[p].cause))
       ELSE UNCHANGED <<log, engine>>
    /\ Tell(p, IF SavesReceipt(p) THEN "receipt" ELSE "unavailable")
    /\ UNCHANGED bounds

(* processSignal, for both *)

\* Mutant: signals of a response carry no key of their own.
SignalKey_None(p) == <<NoKey, 0>>

\* Signals of a response are keyed by its decision.
SignalKey(p) == IF call[p].op = "response" THEN <<call[p].key, call[p].next - 1>> ELSE <<NoKey, 0>>

\* What follows a signal that was processed.
Processed(p, answer) ==
    CASE call[p].op = "response" -> Goto(p, "batch") /\ UNCHANGED told
      [] call[p].op = "decision" -> Goto(p, "list") /\ UNCHANGED told
      [] OTHER -> Tell(p, answer)

\* A conflict ends the call; the approve command reloads and looks again.
Conflict(p) == IF call[p].op = "decision" THEN Goto(p, "reload") /\ UNCHANGED told ELSE Tell(p, "conflict")

Replay(p) ==
    /\ call[p].pc = "emit" /\ WithKey(SignalKey(p)) # 0
    /\ call' = [call EXCEPT ![p].pc = "batch", ![p].replayed = TRUE]
    /\ UNCHANGED <<log, engine, told, bounds>>

\* A decision's own signal is not checked: the check came before the decision was recorded.
EmitConflict(p) ==
    /\ call[p].pc = "emit" /\ WithKey(SignalKey(p)) = 0
    /\ call[p].op # "decision" /\ HasExternal(p)
    /\ Conflict(p)
    /\ UNCHANGED <<log, engine, bounds>>

Emit(p) ==
    LET c == call[p] IN
    /\ c.pc = "emit" /\ WithKey(SignalKey(p)) = 0
    /\ c.op = "decision" \/ ~HasExternal(p)
    /\ Appended(p, [Event("SIGNAL_EMITTED", engine[p].state, c.sig, c.payload, c.cause)
                        EXCEPT !.key = SignalKey(p), !.src = c.op])
    /\ call' = [call EXCEPT ![p].pc = "resolve", ![p].ev = Len(log')]
    /\ UNCHANGED <<told, bounds>>

\* The human decision is resolved and the run version taken, then the guard is awaited.
Resolve(p) ==
    LET c == call[p] IN
    /\ c.pc = "resolve" /\ c.sig \in DOMAIN Target[engine[p].state]
    /\ call' = [call EXCEPT ![p].pc = "guard", ![p].version = Len(log),
                            ![p].human = HumanDecision(c.sig, c.payload, c.cause)]
    /\ UNCHANGED <<log, engine, told, bounds>>

Unhandled(p) ==
    /\ call[p].pc = "resolve" /\ call[p].sig \notin DOMAIN Target[engine[p].state]
    /\ Processed(p, "unhandled")
    /\ UNCHANGED <<log, engine, bounds>>

GuardConflict(p) ==
    /\ call[p].pc = "guard" /\ Len(log) # call[p].version
    /\ Conflict(p)
    /\ UNCHANGED <<log, engine, bounds>>

\* Only the judged gate has a guard, which a person decides or nobody.
Verdict(p) ==
    IF call[p].sig # "go" THEN "commit"
    ELSE CASE call[p].human = "approve" -> "commit" [] call[p].human = "reject" -> "refuse" [] OTHER -> "request"

GuardReturns(p) ==
    /\ call[p].pc = "guard" /\ Len(log) = call[p].version
    /\ Appended(p, Event("GUARD_EVALUATED", engine[p].state, call[p].sig, NoPayload, call[p].ev))
    /\ Goto(p, Verdict(p))
    /\ UNCHANGED <<told, bounds>>

\* Mutant: any request with this payload is taken for the pending one.
SamePending_Old(p) == \E i \in Of("APPROVAL_REQUESTED") : log[i].payload = call[p].payload

SamePending(p) == \E i \in Pending(p) : log[i].payload = call[p].payload

\* recordApprovalRequest, unless the same request is already pending.
Request(p) ==
    /\ call[p].pc = "request"
    /\ IF SamePending(p) THEN UNCHANGED <<log, engine>>
       ELSE Appended(p, Event("APPROVAL_REQUESTED", engine[p].state, call[p].sig, call[p].payload, call[p].ev))
    /\ Goto(p, "waiting")
    /\ UNCHANGED <<told, bounds>>

\* The refusal tells the agent to wait for a person when the gate could not be judged.
Refuse(p) ==
    /\ call[p].pc \in {"refuse", "waiting"}
    /\ Appended(p, Event("SIGNAL_REFUSED", engine[p].state, call[p].sig, NoPayload, call[p].ev))
    /\ Processed(p, IF call[p].pc = "waiting" THEN "wait for a person" ELSE "refused")
    /\ UNCHANGED bounds

Commit(p) ==
    LET s == Target[engine[p].state][call[p].sig] IN
    /\ call[p].pc = "commit"
    /\ log' = Append(log, Event("STATE_TRANSITION", s, call[p].sig, NoPayload, call[p].ev))
    /\ engine' = [engine EXCEPT ![p] = [state |-> s, seen |-> Len(log'), stale |-> HasExternal(p)]]
    /\ Processed(p, "moved")
    /\ UNCHANGED bounds

(* The approve command *)

OpenTerminal(t) ==
    /\ call[t].pc = "idle" /\ calls < MaxCalls
    /\ calls' = calls + 1
    /\ engine' = [engine EXCEPT ![t] = Opened]
    /\ call' = [call EXCEPT ![t] = [NoCall EXCEPT !.pc = "list", !.op = "decision"]]
    /\ UNCHANGED <<log, told, crashes>>

\* The next request the person has not answered in this session is shown to them.
Ask(t) ==
    /\ call[t].pc = "list"
    /\ \E i \in Pending(t) \ call[t].seen :
        call' = [call EXCEPT ![t].pc = "ask", ![t].req = i, ![t].seen = @ \cup {i}, ![t].attempt = 1]
    /\ UNCHANGED <<log, engine, told, bounds>>

EndSession(t) ==
    /\ call[t].pc = "list" /\ Pending(t) \subseteq call[t].seen
    /\ Tell(t, "done")
    /\ UNCHANGED <<log, engine, bounds>>

\* The one-time code approves, "reject" rejects; input that ends cancels.
Answer(t) ==
    /\ call[t].pc = "ask"
    /\ \/ /\ \E d \in {"approve", "reject"} : call' = [call EXCEPT ![t].pc = "decide", ![t].decision = d]
          /\ UNCHANGED told
       \/ Tell(t, "cancelled")
    /\ UNCHANGED <<log, engine, bounds>>

\* decideApproval: current, and the request still pending.
Decide(t) ==
    /\ call[t].pc = "decide" /\ ~HasExternal(t) /\ call[t].req \in Pending(t)
    /\ Goto(t, "record")
    /\ UNCHANGED <<log, engine, told, bounds>>

DecideStale(t) ==
    /\ call[t].pc = "decide" /\ (HasExternal(t) \/ call[t].req \notin Pending(t))
    /\ Goto(t, "reload")
    /\ UNCHANGED <<log, engine, told, bounds>>

\* The decision, then the signal the person saw, with its payload.
RecordDecision(t) ==
    LET r == log[call[t].req] IN
    /\ call[t].pc = "record"
    /\ Appended(t, [Event("APPROVAL_DECIDED", engine[t].state, r.sig, NoPayload, call[t].req)
                        EXCEPT !.req = call[t].req, !.decision = call[t].decision])
    /\ call' = [call EXCEPT ![t].pc = "emit", ![t].sig = r.sig, ![t].payload = r.payload, ![t].cause = Len(log')]
    /\ UNCHANGED <<told, bounds>>

\* A fresh engine; the decision is tried again only while the same request is pending.
Reload(t) ==
    /\ call[t].pc = "reload"
    /\ engine' = [engine EXCEPT ![t] = Opened]
    /\ Goto(t, "again")
    /\ UNCHANGED <<log, told, bounds>>

Again(t) ==
    /\ call[t].pc = "again"
    /\ IF call[t].req \in Pending(t) /\ call[t].attempt < MaxAttempts
       THEN call' = [call EXCEPT ![t].pc = "decide", ![t].attempt = @ + 1] /\ UNCHANGED told
       ELSE Tell(t, "not applied")
    /\ UNCHANGED <<log, engine, bounds>>

Crash(p) ==
    /\ call[p].pc # "idle" /\ crashes < MaxCrashes
    /\ crashes' = crashes + 1
    /\ engine' = [engine EXCEPT ![p] = Opened]
    /\ call' = [call EXCEPT ![p] = NoCall]
    /\ UNCHANGED <<log, told, calls>>

-----------------------------------------------------------------------------
Step(p) ==
    \/ ResponseSaved(p) \/ ResponseConflict(p) \/ RecordResponse(p) \/ NextOfBatch(p) \/ FinishResponse(p)
    \/ Replay(p) \/ EmitConflict(p) \/ Emit(p) \/ Resolve(p) \/ Unhandled(p) \/ GuardConflict(p)
    \/ GuardReturns(p) \/ Request(p) \/ Refuse(p) \/ Commit(p)
    \/ Ask(p) \/ EndSession(p) \/ Answer(p) \/ Decide(p) \/ DecideStale(p) \/ RecordDecision(p)
    \/ Reload(p) \/ Again(p)

Next ==
    \/ \E p \in Agents : Submit(p) \/ \E k \in Keys : Respond(p, k)
    \/ \E t \in Terminals : OpenTerminal(t)
    \/ \E p \in Procs : Step(p) \/ Crash(p)

\* A process that serves a call goes on with it.
Spec == Init /\ [][Next]_vars /\ \A p \in Procs : WF_vars(Step(p))

-----------------------------------------------------------------------------
(* Properties *)

EventTypes == {"SKILL_INITIALIZED", "SIGNAL_EMITTED", "SIGNAL_REFUSED", "GUARD_EVALUATED", "STATE_TRANSITION",
    "APPROVAL_REQUESTED", "APPROVAL_DECIDED", "DECISION_RECORDED", "MCP_CONTINUATION_RECORDED"}

\* The variables have their types (the events of the ledger and what FSMEngine and the commands keep).
TypeOK ==
    /\ \A i \in DOMAIN log :
        /\ log[i].type \in EventTypes /\ log[i].state \in States
        /\ log[i].payload \in Payloads \cup {NoPayload} /\ log[i].cause < i /\ log[i].req < i
        /\ log[i].type = "APPROVAL_DECIDED" => log[i].req \in Of("APPROVAL_REQUESTED")
    /\ \A p \in Procs :
        /\ engine[p].state \in States /\ engine[p].seen \in DOMAIN log /\ engine[p].stale \in BOOLEAN
        /\ call[p].attempt \in 0 .. MaxAttempts /\ call[p].seen \subseteq Of("APPROVAL_REQUESTED")
        /\ call[p].pc \notin {"idle", "respond", "batch", "emit", "list"} => call[p].ev # 0 \/ call[p].req # 0
    /\ calls \in 0 .. MaxCalls /\ crashes \in 0 .. MaxCrashes

Passes == {i \in Of("STATE_TRANSITION") : log[i].state = "PASSED"}

\* The judged gate is passed only on an approval, and only with the payload of the request the
\* person saw: an agent that names the decision as its cause cannot spend it on another payload
\* (resolveHumanDecision, fsm-engine.ts:1797).
ApprovalsAreInformed ==
    \A i \in Passes :
        LET s == log[log[i].cause] IN
        /\ s.cause \in Of("APPROVAL_DECIDED")
        /\ log[s.cause].decision = "approve"
        /\ log[log[s.cause].req].payload = s.payload

\* A decision moves the run once, although the terminal that recorded it and an agent that names
\* it both send its signal (the count of caused signals, fsm-engine.ts:1797-1813).
DecisionsCountOnce ==
    \A d \in Of("APPROVAL_DECIDED") :
        Cardinality({i \in Of("STATE_TRANSITION") : log[log[i].cause].cause = d}) <= 1

\* With one terminal: however often the approve command is run, interrupted and retried against a
\* run that moves, a request is decided once (decidePending of approve.ts, decideApproval).
RequestsDecidedOnce ==
    \A d, e \in Of("APPROVAL_DECIDED") : log[d].req = log[e].req => d = e

\* An agent that is told to wait for a person has a request with its payload to be decided: one
\* that is open, or was decided, superseded or left behind since (recordApprovalRequest is
\* skipped for a pending request, fsm-engine.ts:1831-1855).
RefusedGatesWaitForAPerson ==
    \A p \in Agents : told[p].answer = "wait for a person" =>
        \E i \in Of("APPROVAL_REQUESTED") :
            /\ log[i].payload = log[told[p].ev].payload
            /\ \A d \in Of("APPROVAL_DECIDED") : log[d].req = i => d > told[p].ev

\* A human response sends each of its signals at most once and in order, retries after crashes
\* and by other processes included (dispatchResponse of human-response.ts).
OneOfEachSignal ==
    LET sent == {i \in Of("SIGNAL_EMITTED") : log[i].src = "response"} IN
    /\ \A i, j \in sent : (log[i].cause = log[j].cause /\ log[i].sig = log[j].sig) => i = j
    /\ \A i \in sent : log[i].sig = "USER_APPROVED" =>
        \E j \in sent : j < i /\ log[j].cause = log[i].cause /\ log[j].sig = "USER_RESPONSE"

\* A saved receipt stands for a response whose signals were all processed: an approval that was
\* cut off between its event and its transition never gets one (responseReceipt and the replayed
\* flag of human-response.ts).
ReceiptsAreEarned ==
    \A j \in Of("MCP_CONTINUATION_RECORDED") :
        \E s \in Of("SIGNAL_EMITTED") :
            /\ log[s].cause = log[j].cause /\ log[s].sig = "USER_APPROVED" /\ s < j
            /\ log[s].state = Human => \E t \in Of("STATE_TRANSITION") : log[t].cause = s /\ t < j

\* With one terminal: a request is decided once and the decision moves the run once.
DecidedOnce == TypeOK /\ DecisionsCountOnce /\ RequestsDecidedOnce

\* A response sends each of its signals once, and is reported as done only when both were.
ResponsesAreWhole == OneOfEachSignal /\ ReceiptsAreEarned
====
