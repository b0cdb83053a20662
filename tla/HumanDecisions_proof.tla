---- MODULE HumanDecisions_proof ----
(***************************************************************************)
(* A person decides once, for what they saw: the invariants of              *)
(* HumanDecisions for every number of agents, terminals, payloads, keys,    *)
(* calls and crashes.                                                       *)
(*                                                                          *)
(* Each event has its reasons in the ledger before it (AllSound): a         *)
(* transition through the judged gate a signal that names an approval of    *)
(* a request with its payload, the second signal of a response the first    *)
(* one under the same key, a receipt the approval that was processed.  The  *)
(* ledger only grows, so what an event rests on cannot change: the lemmas   *)
(* named ...Stay say that an append leaves it.                              *)
(*                                                                          *)
(* Between its event and its transition a signal is in the hands of one     *)
(* call.  Fits says what that call knows: its event is in the ledger and    *)
(* has moved nothing, and once the human decision is resolved, the answer   *)
(* it holds is in the ledger.  Apart says that no two calls hold one signal *)
(* or one decision, so that the step of one leaves the others fitting.      *)
(*                                                                          *)
(* A decision counts once because its signal can come from two places: from *)
(* the terminal that recorded it, once, and from an agent whose engine had  *)
(* seen nothing after it, so at the next position of the ledger (Named).    *)
(* Whoever resolves second counts two signals, and the terminal's signal    *)
(* moves the run only where the agent's is not.                             *)
(***************************************************************************)
EXTENDS HumanDecisions, SetFacts

-----------------------------------------------------------------------------
(* The invariant *)

Sigs == {"none", "go", "back", "USER_RESPONSE", "USER_APPROVED"}
Humans == {"none", "approve", "reject"}
Ops == {"none", "signal", "response", "decision"}

\* Where a call is once its signal is recorded.
InSent == {"resolve", "guard", "commit", "refuse", "request", "waiting"}
InTerminal == {"list", "ask", "decide", "record", "reload", "again"}
Pcs == {"idle", "respond", "batch", "emit"} \cup InSent \cup InTerminal

Told == {"none", "saved", "conflict", "receipt", "unavailable", "unhandled", "refused", "wait for a person",
         "moved", "done", "cancelled", "not applied"}

Events == [type : EventTypes, state : States, sig : Sigs, payload : Payloads \cup {NoPayload}, cause : Nat,
           req : Nat, decision : Humans, key : (Keys \cup {NoKey}) \X (0..2), src : Ops]

Engines == [state : States, seen : Nat, stale : BOOLEAN]

CallRecords ==
    [pc : Pcs, op : Ops, sig : Sigs, payload : Payloads \cup {NoPayload}, cause : Nat,
     key : Keys \cup {NoKey}, next : 0..3, replayed : BOOLEAN, ev : Nat, version : Nat, human : Humans,
     req : Nat, decision : Humans, attempt : 0..MaxAttempts, seen : SUBSET Nat]

Typed ==
    /\ log \in Seq(Events)
    /\ engine \in [Procs -> Engines] /\ \A p \in Procs : engine[p].seen \in 1..Len(log)
    /\ call \in [Procs -> CallRecords]
    /\ told \in [Procs -> [answer : Told, ev : Nat, req : Nat]]
    /\ calls \in 0..MaxCalls /\ crashes \in 0..MaxCrashes

Unkeyed == <<NoKey, 0>>

\* Event i of ledger l has this type.
Is(l, i, type) == i \in 1..Len(l) /\ l[i].type = type

\* An event of ledger l before position n holds this key.
Holds(l, n, key) == \E j \in 1..(n - 1) : l[j].key = key

\* Decision d of ledger l is this answer to a request with this payload.
Answers(l, d, payload, answer) ==
    /\ Is(l, d, "APPROVAL_DECIDED") /\ l[d].decision = answer
    /\ l[l[d].req].payload = payload

\* An agent's signal names decision d.  Its engine saw no event after d, so there is one place for it.
Named(l, d) == Is(l, d + 1, "SIGNAL_EMITTED") /\ l[d + 1].src = "signal" /\ l[d + 1].cause = d

\* The approval of the response recorded at d was processed before position n.
Whole(l, n, d) ==
    \E s \in 1..(n - 1) :
        /\ l[s].type = "SIGNAL_EMITTED" /\ l[s].cause = d /\ l[s].sig = "USER_APPROVED"
        /\ l[s].state = Human => \E t \in 1..(n - 1) : l[t].type = "STATE_TRANSITION" /\ l[t].cause = s

\* A request with the payload of signal s that nobody had decided when s was recorded.
Asked(l, s) ==
    \E i \in 1..Len(l) :
        /\ l[i].type = "APPROVAL_REQUESTED" /\ l[i].payload = l[s].payload
        /\ \A d \in 1..Len(l) : l[d].type = "APPROVAL_DECIDED" /\ l[d].req = i => d > s

\* Where the signal at position i comes from.
SoundSignal(l, i) ==
    LET e == l[i] IN
    /\ e.src \in {"signal", "response", "decision"}
    /\ e.src = "signal" => e.cause \in {0, i - 1}
    /\ e.src = "decision" => Is(l, e.cause, "APPROVAL_DECIDED")
    /\ e.src # "response" => e.key = Unkeyed
    /\ e.src = "response" =>
        \E k \in Keys, n \in 1..2 :
            /\ e.key = <<k, n>> /\ e.sig = Batch[n]
            /\ Is(l, e.cause, "DECISION_RECORDED") /\ l[e.cause].key = <<k, 0>>
            /\ n = 2 => Holds(l, i, <<k, 1>>)

\* What allowed the transition at position i.
SoundMove(l, i) ==
    LET s == l[l[i].cause] IN
    /\ Is(l, l[i].cause, "SIGNAL_EMITTED")
    /\ l[i].state = "PASSED" => s.sig = "go"
    /\ s.sig = "go" => Answers(l, s.cause, s.payload, "approve")
    /\ s.src = "decision" => ~Named(l, s.cause)

\* The event at position i has its reasons before it.
Sound(l, i) ==
    LET e == l[i] IN
    /\ e.cause < i /\ e.req < i
    /\ e.key # Unkeyed => e.type \in {"SIGNAL_EMITTED", "DECISION_RECORDED"}
    /\ e.type = "APPROVAL_REQUESTED" => e.sig = "go"
    /\ e.type = "APPROVAL_DECIDED" => Is(l, e.req, "APPROVAL_REQUESTED")
    /\ e.type = "DECISION_RECORDED" => \E k \in Keys : e.key = <<k, 0>>
    /\ e.type = "SIGNAL_EMITTED" => SoundSignal(l, i)
    /\ e.type = "STATE_TRANSITION" => SoundMove(l, i)
    /\ e.type = "MCP_CONTINUATION_RECORDED" => Whole(l, i, e.cause)

AllSound == \A i \in 1..Len(log) : Sound(log, i)

\* A key, a decision's own signal and the transition of a signal come once.
KeysUnique == \A i, j \in 1..Len(log) : log[i].key = log[j].key /\ log[i].key # Unkeyed => i = j
MovesUnique == \A i, j \in Of("STATE_TRANSITION") : log[i].cause = log[j].cause => i = j
SignalsUnique ==
    \A i, j \in Of("SIGNAL_EMITTED") :
        log[i].src = "decision" /\ log[j].src = "decision" /\ log[i].cause = log[j].cause => i = j

\* The signal of call c is in ledger l, and has not moved the run yet.
Sent(l, c, g) ==
    /\ Is(l, c.ev, "SIGNAL_EMITTED") /\ l[c.ev].src = c.op /\ l[c.ev].cause = c.cause /\ c.cause < c.ev
    /\ l[c.ev].sig = c.sig /\ l[c.ev].payload = c.payload /\ l[c.ev].state = g.state
    /\ \A i \in 1..Len(l) : l[i].type = "STATE_TRANSITION" => l[i].cause # c.ev
    /\ c.op = "response" => l[c.ev].key = <<c.key, c.next - 1>>
    /\ c.op = "decision" => c.sig = "go"
    /\ c.pc # "resolve" => c.sig \in DOMAIN Target[g.state]
    /\ c.pc \in {"guard", "commit"} /\ c.human # "none" =>
        Answers(l, c.cause, c.payload, c.human) /\ (c.op = "decision" => ~Named(l, c.cause))
    /\ c.pc = "commit" /\ c.sig = "go" => c.human = "approve"
    /\ c.pc \in {"refuse", "request", "waiting"} => c.sig = "go"
    /\ c.pc = "waiting" => Asked(l, c.ev)

\* The decision that call c recorded is in ledger l, and its signal is not.
Deciding(l, c) ==
    /\ Is(l, c.cause, "APPROVAL_DECIDED") /\ c.sig = "go"
    /\ \A j \in 1..Len(l) : l[j].type = "SIGNAL_EMITTED" /\ l[j].src = "decision" => l[j].cause # c.cause

\* How far the human response that call c makes has come.
Responding(l, c) ==
    /\ Is(l, c.cause, "DECISION_RECORDED") /\ l[c.cause].key = <<c.key, 0>>
    /\ c.next \in 1..3
    /\ c.pc = "batch" =>
        /\ c.next > 1 => Holds(l, Len(l) + 1, <<c.key, 1>>)
        /\ c.next = 3 /\ ~c.replayed => Whole(l, Len(l) + 1, c.cause)
    /\ c.pc # "batch" =>
        /\ c.next > 1 /\ c.sig = Batch[c.next - 1]
        /\ c.next = 3 => Holds(l, Len(l) + 1, <<c.key, 1>>)

\* A call fits the ledger and its engine.
Fits(l, c, g) ==
    /\ c.op = "none" <=> c.pc = "idle"
    /\ c.op = "signal" => c.pc \in InSent \cup {"emit"}
    /\ c.op = "response" => c.pc \in InSent \cup {"respond", "batch", "emit"} /\ c.key \in Keys
    /\ c.op = "decision" => c.pc \in InSent \cup InTerminal \cup {"emit"}
    /\ \A i \in c.seen : Is(l, i, "APPROVAL_REQUESTED")
    /\ c.op = "decision" /\ c.pc # "list" => Is(l, c.req, "APPROVAL_REQUESTED")
    /\ c.op = "signal" /\ c.pc = "emit" => c.cause \in {0, g.seen}
    /\ c.op = "decision" /\ c.pc = "emit" => Deciding(l, c)
    /\ c.op = "response" /\ c.pc # "respond" => Responding(l, c)
    /\ c.pc \in InSent => Sent(l, c, g)

Fitting(p) ==
    /\ Fits(log, call[p], engine[p])
    /\ p \in Agents => call[p].op # "decision"
    /\ p \in Terminals => call[p].op \in {"none", "decision"}
    /\ told[p].answer = "wait for a person" => told[p].ev \in 1..Len(log) /\ Asked(log, told[p].ev)

\* No two calls work on one signal, nor on one decision.
Apart ==
    \A p, q \in Procs : p # q =>
        /\ call[p].pc \in InSent /\ call[q].pc \in InSent => call[p].ev # call[q].ev
        /\ call[p].op = "decision" /\ call[p].pc = "emit" /\ call[q].op = "decision" /\ call[q].pc = "emit" =>
            call[p].cause # call[q].cause

Inv ==
    /\ Typed /\ AllSound
    /\ KeysUnique /\ MovesUnique /\ SignalsUnique
    /\ (\A p \in Procs : Fitting(p)) /\ Apart

\* One terminal: what it is about to record is not decided, and no request is decided twice.
Once ==
    /\ RequestsDecidedOnce
    /\ \A p \in Terminals : call[p].pc = "record" => call[p].req \notin Decided

-----------------------------------------------------------------------------
(* Appending *)

\* What appending one event to a ledger leaves behind.
LEMMA AppendFacts ==
    ASSUME NEW l \in Seq(Events), NEW e \in Events
    PROVE  /\ Append(l, e) \in Seq(Events)
           /\ Len(l) \in Nat /\ DOMAIN l = 1..Len(l)
           /\ Len(Append(l, e)) = Len(l) + 1 /\ DOMAIN Append(l, e) = 1..(Len(l) + 1)
           /\ \A i \in 1..Len(l) : Append(l, e)[i] = l[i] /\ l[i] \in Events
           /\ Append(l, e)[Len(l) + 1] = e
  OBVIOUS

\* What is said of earlier positions stays true.
LEMMA SaidStays ==
    ASSUME NEW l \in Seq(Events), NEW e \in Events, NEW n \in 1..(Len(l) + 1)
    PROVE  /\ \A i, t : Is(l, i, t) => Is(Append(l, e), i, t)
           /\ \A k : Holds(l, n, k) => Holds(Append(l, e), n, k) /\ Holds(Append(l, e), n + 1, k)
           /\ \A d : Whole(l, n, d) => Whole(Append(l, e), n, d) /\ Whole(Append(l, e), n + 1, d)
  <1>1. /\ Len(l) \in Nat /\ Len(Append(l, e)) = Len(l) + 1 /\ \A i \in 1..Len(l) : Append(l, e)[i] = l[i]
    BY AppendFacts
  <1>2. \A i, t : Is(l, i, t) => Is(Append(l, e), i, t)
    BY <1>1 DEF Is
  <1>3. \A k : Holds(l, n, k) => Holds(Append(l, e), n, k) /\ Holds(Append(l, e), n + 1, k)
    BY <1>1 DEF Holds
  <1>4. \A d : Whole(l, n, d) => Whole(Append(l, e), n, d) /\ Whole(Append(l, e), n + 1, d)
    BY <1>1 DEF Whole
  <1> QED BY <1>2, <1>3, <1>4

\* A decision answers its request for good, and the place for an agent's signal is taken or not.
LEMMA AnswerStays ==
    ASSUME NEW l \in Seq(Events), NEW e \in Events, \A i \in 1..Len(l) : Sound(l, i), NEW d \in 1..(Len(l) - 1)
    PROVE  /\ \A y, a : Answers(l, d, y, a) => Answers(Append(l, e), d, y, a)
           /\ ~Named(l, d) => ~Named(Append(l, e), d)
  <1>1. /\ Len(l) \in Nat /\ Len(Append(l, e)) = Len(l) + 1 /\ \A i \in 1..Len(l) : Append(l, e)[i] = l[i]
    BY AppendFacts
  <1>2. ASSUME NEW y, NEW a, Answers(l, d, y, a) PROVE Answers(Append(l, e), d, y, a)
    <2>1. Is(l, d, "APPROVAL_DECIDED") /\ Sound(l, d)
      BY <1>1, <1>2 DEF Answers
    <2>2. Is(l, l[d].req, "APPROVAL_REQUESTED")
      BY <2>1 DEF Sound, Is
    <2> QED BY <1>1, <1>2, <2>2 DEF Answers, Is
  <1>3. ~Named(l, d) => ~Named(Append(l, e), d)
    BY <1>1 DEF Named, Is
  <1> QED BY <1>2, <1>3

\* A request that was open when signal s was recorded was open then.
LEMMA AskedStays ==
    ASSUME NEW l \in Seq(Events), NEW e \in Events, NEW s \in 1..Len(l), Asked(l, s)
    PROVE  Asked(Append(l, e), s)
  <1>1. /\ Len(l) \in Nat /\ Len(Append(l, e)) = Len(l) + 1 /\ \A i \in 1..Len(l) : Append(l, e)[i] = l[i]
        /\ Append(l, e)[Len(l) + 1] = e
    BY AppendFacts
  <1>2. PICK i \in 1..Len(l) :
            /\ l[i].type = "APPROVAL_REQUESTED" /\ l[i].payload = l[s].payload
            /\ \A d \in 1..Len(l) : l[d].type = "APPROVAL_DECIDED" /\ l[d].req = i => d > s
    BY DEF Asked
  <1>3. \A d \in 1..(Len(l) + 1) :
            Append(l, e)[d].type = "APPROVAL_DECIDED" /\ Append(l, e)[d].req = i => d > s
    BY <1>1, <1>2
  <1> QED BY <1>1, <1>2, <1>3 DEF Asked

\* An event that is sound stays sound.
LEMMA SoundStays ==
    ASSUME NEW l \in Seq(Events), NEW e \in Events, \A j \in 1..Len(l) : Sound(l, j), NEW i \in 1..Len(l)
    PROVE  Sound(Append(l, e), i)
  <1> DEFINE m == Append(l, e)
  <1>1. /\ Len(l) \in Nat /\ Len(m) = Len(l) + 1 /\ \A j \in 1..Len(l) : m[j] = l[j] /\ l[j] \in Events
    BY AppendFacts
  <1>2. Sound(l, i) /\ i \in Nat /\ m[i] = l[i]
    BY <1>1
  <1>3. /\ \A j, t : Is(l, j, t) => Is(m, j, t)
        /\ \A k : Holds(l, i, k) => Holds(m, i, k)
        /\ \A d : Whole(l, i, d) => Whole(m, i, d)
    <2>1. i \in 1..(Len(l) + 1)
      BY <1>1
    <2> QED BY <2>1, SaidStays
  <1>4. SoundSignal(l, i) => SoundSignal(m, i)
    BY <1>1, <1>2, <1>3 DEF SoundSignal, Is
  <1>5. ASSUME SoundMove(l, i) PROVE SoundMove(m, i)
    <2> DEFINE s == l[i].cause
    <2>1. Is(l, s, "SIGNAL_EMITTED") /\ Sound(l, s) /\ s \in 1..Len(l) /\ m[s] = l[s]
      BY <1>1, <1>5 DEF SoundMove, Is
    <2>2. l[s].cause < s /\ l[s].cause \in Nat
      BY <1>1, <2>1 DEF Sound, Events
    <2>3. Answers(l, l[s].cause, l[s].payload, "approve") => Answers(m, l[s].cause, l[s].payload, "approve")
      <3>1. CASE l[s].cause = 0
        BY <3>1 DEF Answers, Is
      <3>2. CASE l[s].cause # 0
        BY <1>1, <2>1, <2>2, <3>2, AnswerStays
      <3> QED BY <3>1, <3>2
    <2>4. l[s].src = "decision" /\ ~Named(l, l[s].cause) => ~Named(m, l[s].cause)
      <3>1. CASE l[s].cause = 0
        <4>1. l[s].src # "decision"
          BY <2>1, <3>1 DEF Sound, SoundSignal, Is
        <4> QED BY <4>1
      <3>2. CASE l[s].cause # 0
        BY <1>1, <2>1, <2>2, <3>2, AnswerStays
      <3> QED BY <3>1, <3>2
    <2> HIDE DEF m
    <2> QED BY <1>2, <1>3, <1>5, <2>1, <2>3, <2>4 DEF SoundMove
  <1>6. Is(l, l[i].req, "APPROVAL_REQUESTED") => Is(m, l[i].req, "APPROVAL_REQUESTED")
    BY <1>3
  <1>7. Whole(l, i, l[i].cause) => Whole(m, i, l[i].cause)
    BY <1>3
  <1>8. Sound(m, i)
    <2> HIDE DEF m
    <2> QED BY <1>2, <1>4, <1>5, <1>6, <1>7 DEF Sound
  <1> QED BY <1>8

-----------------------------------------------------------------------------
(* Calls *)

\* An event that neither moves the run for the signal of call c nor sends the signal of its decision.
Harmless(e, c) ==
    /\ c.pc \in InSent /\ e.type = "STATE_TRANSITION" => e.cause # c.ev
    /\ c.op = "decision" /\ c.pc = "emit" /\ e.type = "SIGNAL_EMITTED" /\ e.src = "decision" => e.cause # c.cause

\* A call fits on while others append what is harmless to it.
LEMMA FitsStay ==
    ASSUME NEW l \in Seq(Events), NEW e \in Events, \A j \in 1..Len(l) : Sound(l, j),
           NEW c \in CallRecords, NEW g \in Engines, Fits(l, c, g), Harmless(e, c)
    PROVE  Fits(Append(l, e), c, g)
  <1> DEFINE m == Append(l, e)
             n == Len(l) + 1
  <1>1. /\ Len(l) \in Nat /\ Len(m) = n /\ \A j \in 1..Len(l) : m[j] = l[j]
        /\ m[n] = e
    BY AppendFacts
  <1>2. /\ \A j, t : Is(l, j, t) => Is(m, j, t)
        /\ \A k : Holds(l, n, k) => Holds(m, n + 1, k)
        /\ \A d : Whole(l, n, d) => Whole(m, n + 1, d)
    <2>1. n \in 1..(Len(l) + 1)
      BY <1>1
    <2> QED BY <2>1, SaidStays
  <1>3. Deciding(l, c) /\ c.op = "decision" /\ c.pc = "emit" => Deciding(m, c)
    BY <1>1, <1>2 DEF Deciding, Is, Harmless
  <1>4. Responding(l, c) => Responding(m, c)
    <2>1. Is(l, c.cause, "DECISION_RECORDED") => m[c.cause] = l[c.cause]
      BY <1>1 DEF Is
    <2> HIDE DEF m
    <2> QED BY <1>1, <1>2, <2>1 DEF Responding
  <1>5. ASSUME Sent(l, c, g), c.pc \in InSent PROVE Sent(m, c, g)
    <2>1. c.ev \in 1..Len(l) /\ m[c.ev] = l[c.ev] /\ c.cause < c.ev /\ c.cause \in Nat
      BY <1>1, <1>5 DEF Sent, Is, CallRecords
    <2>2. /\ Answers(l, c.cause, c.payload, c.human) => Answers(m, c.cause, c.payload, c.human)
          /\ Is(l, c.cause, "APPROVAL_DECIDED") /\ ~Named(l, c.cause) => ~Named(m, c.cause)
      <3>1. CASE c.cause = 0
        BY <3>1 DEF Answers, Is
      <3>2. CASE c.cause # 0
        BY <1>1, <2>1, <3>2, AnswerStays
      <3> QED BY <3>1, <3>2
    <2>3. Answers(l, c.cause, c.payload, c.human) => Is(l, c.cause, "APPROVAL_DECIDED")
      BY DEF Answers
    <2>4. Asked(l, c.ev) => Asked(m, c.ev)
      BY <2>1, AskedStays
    <2>5. \A i \in 1..Len(m) : m[i].type = "STATE_TRANSITION" => m[i].cause # c.ev
      BY <1>1, <1>5 DEF Sent, Harmless
    <2> HIDE DEF m
    <2> QED BY <1>2, <1>5, <2>1, <2>2, <2>3, <2>4, <2>5 DEF Sent
  <1>6. Fits(m, c, g)
    <2> HIDE DEF m
    <2> QED BY <1>2, <1>3, <1>4, <1>5 DEF Fits
  <1> QED BY <1>6

\* A process without a call fits every ledger.
LEMMA IdleFits ==
    ASSUME NEW l, NEW g
    PROVE  Fits(l, NoCall, g) /\ NoCall \in CallRecords /\ NoCall.pc = "idle" /\ NoCall.op = "none"
  <1>1. NoCall \in CallRecords
    BY ConstantsAssumption DEF NoCall, CallRecords, Pcs, Ops, Sigs, Humans
  <1>2. Fits(l, NoCall, g)
    BY DEF NoCall, Fits, InSent
  <1> QED BY <1>1, <1>2 DEF NoCall

\* A call that only goes somewhere keeps what it knows.
LEMMA GotoFacts ==
    ASSUME NEW c \in CallRecords, NEW x \in Pcs
    PROVE  LET d == [c EXCEPT !.pc = x] IN
           /\ d \in CallRecords /\ d.pc = x
           /\ d.op = c.op /\ d.sig = c.sig /\ d.payload = c.payload /\ d.cause = c.cause /\ d.key = c.key
           /\ d.next = c.next /\ d.replayed = c.replayed /\ d.ev = c.ev /\ d.version = c.version
           /\ d.human = c.human /\ d.req = c.req /\ d.decision = c.decision /\ d.attempt = c.attempt
           /\ d.seen = c.seen
  BY DEF CallRecords

\* What process p is doing becomes c, with engine g, and its last answer t.
Becomes(p, c, g, t) ==
    /\ c \in CallRecords /\ call' = [call EXCEPT ![p] = c]
    /\ g \in Engines /\ g.seen \in 1..Len(log') /\ engine' = [engine EXCEPT ![p] = g]
    /\ t \in [answer : Told, ev : Nat, req : Nat] /\ told' = [told EXCEPT ![p] = t]
    /\ t.answer = "wait for a person" => t.ev \in 1..Len(log') /\ Asked(log', t.ev)
    /\ calls' \in 0..MaxCalls /\ crashes' \in 0..MaxCrashes
    /\ Fits(log', c, g)
    /\ p \in Agents => c.op # "decision"
    /\ p \in Terminals => c.op \in {"none", "decision"}

\* A step that records nothing.
LEMMA Quiet ==
    ASSUME Inv, NEW p \in Procs, NEW c, NEW g, NEW t, Becomes(p, c, g, t), log' = log,
           c.pc \in InSent => call[p].pc \in InSent /\ c.ev = call[p].ev,
           ~(c.op = "decision" /\ c.pc = "emit")
    PROVE  Inv'
  <1>1. Typed /\ Typed'
    BY DEF Inv, Typed, Becomes
  <1>2. (AllSound /\ KeysUnique /\ MovesUnique /\ SignalsUnique)'
    BY DEF Inv, AllSound, KeysUnique, MovesUnique, SignalsUnique, Of
  <1>3. call'[p] = c /\ engine'[p] = g /\ told'[p] = t
    BY <1>1 DEF Becomes, Typed
  <1>4. ASSUME NEW q \in Procs PROVE Fitting(q)'
    <2>1. CASE q = p
      BY <1>3, <2>1 DEF Becomes, Fitting
    <2>2. CASE q # p
      <3>1. call'[q] = call[q] /\ engine'[q] = engine[q] /\ told'[q] = told[q]
        BY <1>1, <2>2 DEF Becomes, Typed
      <3> QED BY <3>1 DEF Fitting, Inv
    <2> QED BY <2>1, <2>2
  <1>5. Apart'
    <2> SUFFICES ASSUME NEW q \in Procs, NEW r \in Procs, q # r
                 PROVE  /\ call'[q].pc \in InSent /\ call'[r].pc \in InSent => call'[q].ev # call'[r].ev
                        /\ call'[q].op = "decision" /\ call'[q].pc = "emit" /\ call'[r].op = "decision"
                            /\ call'[r].pc = "emit" => call'[q].cause # call'[r].cause
      BY DEF Apart
    <2>1. \A z \in Procs \ {p} : call'[z] = call[z]
      BY <1>1 DEF Becomes, Typed
    <2> QED BY <1>3, <2>1 DEF Inv, Apart
  <1> QED BY <1>1, <1>2, <1>4, <1>5 DEF Inv

\* A step that records event e.
LEMMA Record ==
    ASSUME Inv, NEW p \in Procs, NEW c, NEW g, NEW t, NEW e \in Events, log' = Append(log, e), Becomes(p, c, g, t),
           Sound(log', Len(log) + 1),
           e.key # Unkeyed => \A j \in 1..Len(log) : log[j].key # e.key,
           e.type = "STATE_TRANSITION" => call[p].pc \in InSent /\ e.cause = call[p].ev,
           e.type = "SIGNAL_EMITTED" /\ e.src = "decision" =>
               call[p].op = "decision" /\ call[p].pc = "emit" /\ e.cause = call[p].cause,
           c.pc \in InSent => (call[p].pc \in InSent /\ c.ev = call[p].ev) \/ c.ev = Len(log) + 1,
           c.op = "decision" /\ c.pc = "emit" => c.cause = Len(log) + 1
    PROVE  Inv'
  <1> DEFINE n == Len(log) + 1
  <1>1. /\ log \in Seq(Events) /\ log' \in Seq(Events) /\ Len(log) \in Nat /\ Len(log') = n
        /\ DOMAIN log = 1..Len(log) /\ DOMAIN log' = 1..n
        /\ \A i \in 1..Len(log) : log'[i] = log[i]
        /\ log'[n] = e
    BY AppendFacts DEF Inv, Typed
  <1>2. Typed /\ Typed'
    <2>1. Typed
      BY DEF Inv
    <2>2. \A q \in Procs : engine'[q].seen \in 1..Len(log')
      <3>1. engine'[p] = g /\ \A q \in Procs \ {p} : engine'[q] = engine[q]
        BY <2>1 DEF Becomes, Typed
      <3>2. g.seen \in 1..n
        BY <1>1 DEF Becomes
      <3>3. \A q \in Procs : engine[q].seen \in 1..n
        BY <1>1, <2>1 DEF Typed
      <3> QED BY <1>1, <3>1, <3>2, <3>3
    <2> QED BY <1>1, <2>1, <2>2 DEF Typed, Becomes
  <1>3. AllSound'
    <2>1. \A i \in 1..Len(log) : Sound(log', i)
      BY <1>1, SoundStays DEF Inv, AllSound
    <2> QED BY <1>1, <2>1 DEF AllSound
  <1>4. KeysUnique'
    BY <1>1 DEF Inv, KeysUnique
  <1>5. call'[p] = c /\ engine'[p] = g /\ told'[p] = t /\ Fits(log, call[p], engine[p])
    BY <1>2 DEF Becomes, Typed, Inv, Fitting
  <1>6. \A q \in Procs \ {p} : call'[q] = call[q] /\ engine'[q] = engine[q] /\ told'[q] = told[q]
    BY <1>2 DEF Becomes, Typed
  <1>7. MovesUnique'
    <2>1. e.type = "STATE_TRANSITION" => \A i \in 1..Len(log) : log[i].type = "STATE_TRANSITION" => log[i].cause # e.cause
      BY <1>5 DEF Fits, Sent
    <2> QED BY <1>1, <2>1 DEF Inv, MovesUnique, Of
  <1>8. SignalsUnique'
    <2>1. e.type = "SIGNAL_EMITTED" /\ e.src = "decision" =>
            \A i \in 1..Len(log) : log[i].type = "SIGNAL_EMITTED" /\ log[i].src = "decision" => log[i].cause # e.cause
      BY <1>5 DEF Fits, Deciding
    <2> QED BY <1>1, <2>1 DEF Inv, SignalsUnique, Of
  <1>9. ASSUME NEW q \in Procs PROVE Fitting(q)'
    <2>1. CASE q = p
      BY <1>5, <2>1 DEF Becomes, Fitting
    <2>2. CASE q # p
      <3>1. Harmless(e, call[q])
        BY <2>2 DEF Inv, Apart, Harmless
      <3>2. call[q] \in CallRecords /\ engine[q] \in Engines /\ Fits(log, call[q], engine[q])
        BY <1>2 DEF Typed, Inv, Fitting
      <3>3. Fits(log', call[q], engine[q])
        BY <1>1, <3>1, <3>2, FitsStay DEF Inv, AllSound
      <3>4. told[q].answer = "wait for a person" => told[q].ev \in 1..n /\ Asked(log', told[q].ev)
        <4>1. told[q].answer = "wait for a person" => told[q].ev \in 1..Len(log) /\ Asked(log, told[q].ev)
          BY DEF Inv, Fitting
        <4>2. ASSUME NEW s \in 1..Len(log), Asked(log, s) PROVE Asked(log', s)
          BY <1>1, <4>2, AskedStays
        <4>3. told[q].ev \in 1..Len(log) => told[q].ev \in 1..n
          BY <1>1
        <4> HIDE DEF n
        <4> QED BY <4>1, <4>2, <4>3
      <3> QED BY <1>1, <1>6, <2>2, <3>3, <3>4 DEF Fitting, Inv
    <2> QED BY <2>1, <2>2
  <1>10. Apart'
    <2> SUFFICES ASSUME NEW q \in Procs, NEW r \in Procs, q # r
                 PROVE  /\ call'[q].pc \in InSent /\ call'[r].pc \in InSent => call'[q].ev # call'[r].ev
                        /\ call'[q].op = "decision" /\ call'[q].pc = "emit" /\ call'[r].op = "decision"
                            /\ call'[r].pc = "emit" => call'[q].cause # call'[r].cause
      BY DEF Apart
    <2>1. ASSUME NEW z \in Procs
          PROVE  /\ call[z].pc \in InSent => call[z].ev \in 1..Len(log)
                 /\ call[z].op = "decision" /\ call[z].pc = "emit" => call[z].cause \in 1..Len(log)
      BY DEF Inv, Fitting, Fits, Sent, Deciding, Is
    <2> QED BY <1>1, <1>5, <1>6, <2>1 DEF Inv, Apart
  <1> QED BY <1>2, <1>3, <1>4, <1>7, <1>8, <1>9, <1>10 DEF Inv

\* The events of a kind are positions of the ledger.
LEMMA OfFacts ==
    ASSUME Typed, NEW type
    PROVE  Of(type) \subseteq 1..Len(log) /\ \A i : i \in Of(type) <=> Is(log, i, type)
  <1>1. DOMAIN log = 1..Len(log)
    BY DEF Typed
  <1> QED BY <1>1 DEF Of, Is

\* WithKey finds the event that holds a key.
LEMMA KeyFacts ==
    ASSUME Typed, NEW key
    PROVE  /\ WithKey(key) # 0 => WithKey(key) \in 1..Len(log) /\ log[WithKey(key)].key = key /\ key # Unkeyed
           /\ WithKey(key) = 0 => key = Unkeyed \/ \A j \in 1..Len(log) : log[j].key # key
           /\ WithKey(key) = 0 <=> ~(key # Unkeyed /\ Holds(log, Len(log) + 1, key))
  <1> DEFINE S == {0} \cup {i \in DOMAIN log : key # Unkeyed /\ log[i].key = key}
  <1>1. DOMAIN log = 1..Len(log) /\ Len(log) \in Nat
    BY DEF Typed
  <1>2. S \subseteq 0..Len(log) /\ S # {} /\ 0 \in S
    BY <1>1
  <1>3. WithKey(key) = Max(S)
    BY DEF WithKey, Unkeyed
  <1>4. Max(S) \in S /\ \A y \in S : y <= Max(S)
    <2> HIDE DEF S
    <2> QED BY <1>1, <1>2, MaxFacts
  <1>5. Max(S) = 0 <=> \A i \in 1..Len(log) : ~(key # Unkeyed /\ log[i].key = key)
    BY <1>1, <1>4
  <1>6. Max(S) # 0 => Max(S) \in 1..Len(log) /\ log[Max(S)].key = key /\ key # Unkeyed
    BY <1>1, <1>4
  <1> HIDE DEF S
  <1>7. Holds(log, Len(log) + 1, key) <=> \E i \in 1..Len(log) : log[i].key = key
    BY <1>1 DEF Holds
  <1> QED BY <1>3, <1>5, <1>6, <1>7

\* Where signals lead.
LEMMA TargetFacts ==
    ASSUME NEW s \in States
    PROVE  /\ DOMAIN Target[s] \subseteq Sigs
           /\ \A x \in DOMAIN Target[s] : Target[s][x] \in States /\ (Target[s][x] = "PASSED" => x = "go")
           /\ "USER_APPROVED" \in DOMAIN Target[Human]
  <1>1. Target[Human] = [USER_APPROVED |-> Judged] /\ Target[Judged] = [go |-> "PASSED", back |-> Human]
    BY DEF Target, States, Human, Judged
  <1>2. Target["PASSED"] = [sig \in {} |-> "PASSED"]
    BY DEF Target, States, Human, Judged
  <1>3. s \in {Human, Judged, "PASSED"}
    BY DEF States
  <1> QED BY <1>1, <1>2, <1>3 DEF Sigs, States, Human, Judged

\* An engine that is opened holds a state of the run.
LEMMA OpenedFacts ==
    ASSUME Typed
    PROVE  Opened \in Engines /\ Opened.seen = Len(log)
  <1>1. Len(log) \in Nat /\ \A i \in 1..Len(log) : log[i].state \in States
    <2>1. Len(log) \in Nat /\ \A i \in 1..Len(log) : log[i] \in Events
      BY DEF Typed
    <2> QED BY <2>1 DEF Events
  <1>2. CurrentState \in States
    <2> DEFINE moves == Of("STATE_TRANSITION")
    <2>1. CASE moves = {}
      BY <2>1 DEF CurrentState, States
    <2>2. CASE moves # {}
      <3>1. moves \subseteq 0..Len(log) /\ moves \subseteq 1..Len(log)
        BY <1>1, OfFacts
      <3>2. CurrentState = log[Max(moves)].state
        BY <2>2 DEF CurrentState
      <3> HIDE DEF moves
      <3>3. Max(moves) \in moves
        BY <1>1, <2>2, <3>1, MaxFacts
      <3> QED BY <1>1, <3>1, <3>2, <3>3
    <2> QED BY <2>1, <2>2
  <1> QED BY <1>1, <1>2 DEF Opened, Engines

\* The engine that serves a new call has seen everything.
LEMMA RefreshedFacts ==
    ASSUME Typed, NEW p \in Procs
    PROVE  Refreshed(p) \in Engines /\ Refreshed(p).seen = Len(log)
  <1>1. CASE HasExternal(p)
    BY <1>1, OpenedFacts DEF Refreshed
  <1>2. CASE ~HasExternal(p)
    <2>1. engine[p] \in Engines /\ engine[p].seen \in 1..Len(log) /\ ~(Len(log) > engine[p].seen)
      BY <1>2 DEF Typed, HasExternal
    <2>2. engine[p].seen = Len(log)
      BY <2>1 DEF Typed
    <2> QED BY <1>2, <2>1, <2>2 DEF Refreshed
  <1> QED BY <1>1, <1>2

\* Recording leaves the engine in its state, with everything seen.
LEMMA AppendedFacts ==
    ASSUME Typed, NEW p \in Procs, NEW e \in Events, Appended(p, e)
    PROVE  /\ log' = Append(log, e) /\ Len(log') = Len(log) + 1
           /\ \E g \in Engines : /\ engine' = [engine EXCEPT ![p] = g] /\ g.seen \in 1..Len(log')
                                 /\ g.state = engine[p].state
  <1>1. log' = Append(log, e) /\ Len(log') = Len(log) + 1 /\ Len(log) \in Nat
    BY DEF Appended, Typed
  <1> DEFINE stale == engine[p].stale \/ Len(log) > engine[p].seen
             g == [engine[p] EXCEPT !.stale = stale, !.seen = Len(log) + 1]
  <1>2. engine[p] \in Engines
    BY DEF Typed
  <1>3. engine' = [engine EXCEPT ![p] = g]
    BY <1>2 DEF Appended, Typed
  <1>4. stale \in BOOLEAN
    OBVIOUS
  <1>5. g \in Engines /\ g.seen = Len(log) + 1 /\ g.state = engine[p].state
    <2> HIDE DEF stale
    <2>1. Len(log) + 1 \in Nat
      BY <1>1
    <2>2. g \in Engines
      BY <1>2, <1>4, <2>1, Zenon DEF Engines
    <2>3. g.seen = Len(log) + 1 /\ g.state = engine[p].state
      BY <1>2, Zenon DEF Engines
    <2> QED BY <2>2, <2>3
  <1>6. g.seen \in 1..Len(log')
    BY <1>1, <1>5
  <1> HIDE DEF g
  <1> QED BY <1>1, <1>3, <1>5, <1>6

\* A process that says nothing stands by its last answer.
LEMMA KeepsAnswer ==
    ASSUME Inv, NEW p \in Procs, told' = told, log' = log \/ \E e \in Events : log' = Append(log, e)
    PROVE  /\ told[p] \in [answer : Told, ev : Nat, req : Nat] /\ told' = [told EXCEPT ![p] = told[p]]
           /\ told[p].answer = "wait for a person" => told[p].ev \in 1..Len(log') /\ Asked(log', told[p].ev)
  <1>1. Typed
    BY DEF Inv
  <1>2. told[p].answer = "wait for a person" => told[p].ev \in 1..Len(log) /\ Asked(log, told[p].ev)
    BY DEF Inv, Fitting
  <1>3. ASSUME NEW e \in Events, log' = Append(log, e), NEW s \in 1..Len(log), Asked(log, s)
        PROVE  s \in 1..Len(log') /\ Asked(log', s)
    BY <1>1, <1>3, AskedStays, AppendFacts DEF Typed
  <1>4. told[p].answer = "wait for a person" => told[p].ev \in 1..Len(log') /\ Asked(log', told[p].ev)
    BY <1>2, <1>3
  <1> QED BY <1>1, <1>4 DEF Typed

\* A call ends and nothing is recorded.
LEMMA Rests ==
    ASSUME Inv, NEW p \in Procs, log' = log, call' = [call EXCEPT ![p] = NoCall],
           NEW g \in Engines, g.seen \in 1..Len(log), engine' = [engine EXCEPT ![p] = g],
           NEW t \in [answer : Told, ev : Nat, req : Nat], told' = [told EXCEPT ![p] = t],
           t.answer # "wait for a person" \/ t = told[p], calls' \in 0..MaxCalls, crashes' \in 0..MaxCrashes
    PROVE  Inv'
  <1>1. t.answer = "wait for a person" => t.ev \in 1..Len(log) /\ Asked(log, t.ev)
    <2>1. told[p].answer = "wait for a person" => told[p].ev \in 1..Len(log) /\ Asked(log, told[p].ev)
      BY DEF Inv, Fitting
    <2> QED BY <2>1
  <1>2. Becomes(p, NoCall, g, t)
    BY <1>1, IdleFits DEF Becomes
  <1> QED BY <1>2, IdleFits, Quiet DEF InSent

-----------------------------------------------------------------------------
(* Steps that record nothing *)

\* What a process knows before it takes a step.
LEMMA Basics ==
    ASSUME Inv, NEW p \in Procs
    PROVE  /\ Typed /\ log \in Seq(Events) /\ Len(log) \in Nat \ {0} /\ DOMAIN log = 1..Len(log)
           /\ \A i \in 1..Len(log) : log[i] \in Events /\ Sound(log, i)
           /\ call[p] \in CallRecords /\ engine[p] \in Engines /\ engine[p].seen \in 1..Len(log)
           /\ engine' = engine => engine' = [engine EXCEPT ![p] = engine[p]]
           /\ Fits(log, call[p], engine[p])
           /\ calls \in 0..MaxCalls /\ crashes \in 0..MaxCrashes
  <1>1. Typed
    BY DEF Inv
  <1>2. log \in Seq(Events) /\ DOMAIN log = 1..Len(log) /\ Len(log) \in Nat
    BY <1>1 DEF Typed
  <1>3. engine[p].seen \in 1..Len(log)
    BY <1>1 DEF Typed
  <1>4. Len(log) # 0
    BY <1>2, <1>3
  <1>5. \A i \in 1..Len(log) : log[i] \in Events /\ Sound(log, i)
    BY <1>2 DEF Inv, AllSound
  <1>6. Fits(log, call[p], engine[p])
    BY DEF Inv, Fitting
  <1> QED BY <1>1, <1>2, <1>3, <1>4, <1>5, <1>6 DEF Typed

\* A call begins: a signal of the agent, an answer that it passes on, or a terminal.
LEMMA BeginStep ==
    ASSUME Inv, NEW p \in Procs,
           (p \in Agents /\ (Submit(p) \/ \E k \in Keys : Respond(p, k))) \/ (p \in Terminals /\ OpenTerminal(p))
    PROVE  Inv'
  <1>t. Typed /\ NoCall \in CallRecords /\ Len(log) \in Nat \ {0} /\ calls \in 0..MaxCalls /\ crashes \in 0..MaxCrashes
    BY IdleFits, Basics
  <1>0. /\ log' = log /\ told' = told /\ crashes' = crashes /\ calls' \in 0..MaxCalls /\ crashes' \in 0..MaxCrashes
    <2>1. log' = log /\ told' = told /\ crashes' = crashes /\ calls < MaxCalls /\ calls' = calls + 1
      BY DEF Submit, Respond, OpenTerminal
    <2> QED BY <1>t, <2>1, ConstantsAssumption
  <1>1. PICK g \in Engines : g.seen = Len(log) /\ engine' = [engine EXCEPT ![p] = g]
    BY <1>t, RefreshedFacts, OpenedFacts DEF Submit, Respond, OpenTerminal
  <1>2. g.seen \in 1..Len(log')
    BY <1>t, <1>0, <1>1
  <1>3. ASSUME NEW c \in CallRecords, call' = [call EXCEPT ![p] = c], Fits(log, c, g),
               c.pc \notin InSent, ~(c.op = "decision" /\ c.pc = "emit"),
               p \in Agents => c.op # "decision", p \in Terminals => c.op \in {"none", "decision"}
        PROVE  Inv'
    <2>1. Becomes(p, c, g, told[p])
      BY <1>0, <1>1, <1>2, <1>3, KeepsAnswer DEF Becomes
    <2> QED BY <1>0, <1>3, <2>1, Quiet
  <1>4. CASE p \in Agents /\ Submit(p)
    <2>1. PICK sig \in {"go", "back"}, payload \in Payloads, cause \in {0, Len(log)} :
            call' = [call EXCEPT ![p] = [NoCall EXCEPT !.pc = "emit", !.op = "signal", !.sig = sig,
                                            !.payload = IF sig = "go" THEN payload ELSE NoPayload, !.cause = cause]]
      BY <1>4 DEF Submit
    <2> DEFINE y == IF sig = "go" THEN payload ELSE NoPayload
               c == [NoCall EXCEPT !.pc = "emit", !.op = "signal", !.sig = sig, !.payload = y, !.cause = cause]
    <2>2. c \in CallRecords
      <3>1. y \in Payloads \cup {NoPayload} /\ sig \in Sigs /\ cause \in Nat /\ "emit" \in Pcs /\ "signal" \in Ops
        BY <1>t DEF Pcs, Ops, Sigs
      <3> HIDE DEF y
      <3> QED BY <1>t, <3>1 DEF CallRecords
    <2>3. c.pc = "emit" /\ c.op = "signal" /\ c.cause = cause /\ c.seen = {}
      BY DEF NoCall
    <2>4. call' = [call EXCEPT ![p] = c]
      BY <2>1
    <2> HIDE DEF c
    <2>5. Fits(log, c, g)
      BY <1>1, <2>3 DEF Fits, InSent
    <2> QED BY <1>3, <1>4, <2>2, <2>3, <2>4, <2>5, ConstantsAssumption DEF InSent
  <1>5. ASSUME NEW k \in Keys, p \in Agents, Respond(p, k) PROVE Inv'
    <2> DEFINE c == [NoCall EXCEPT !.pc = "respond", !.op = "response", !.key = k]
    <2>2. c \in CallRecords
      BY <1>t DEF CallRecords, Pcs, Ops
    <2>3. c.pc = "respond" /\ c.op = "response" /\ c.key = k /\ c.seen = {}
      BY DEF NoCall
    <2>4. call' = [call EXCEPT ![p] = c]
      BY <1>5 DEF Respond
    <2> HIDE DEF c
    <2>5. Fits(log, c, g)
      BY <2>3 DEF Fits, InSent
    <2> QED BY <1>3, <1>5, <2>2, <2>3, <2>4, <2>5, ConstantsAssumption DEF InSent
  <1>6. CASE p \in Terminals /\ OpenTerminal(p)
    <2> DEFINE c == [NoCall EXCEPT !.pc = "list", !.op = "decision"]
    <2>2. c \in CallRecords
      BY <1>t DEF CallRecords, Pcs, Ops, InTerminal
    <2>3. c.pc = "list" /\ c.op = "decision" /\ c.seen = {}
      BY DEF NoCall
    <2>4. call' = [call EXCEPT ![p] = c]
      BY <1>6 DEF OpenTerminal
    <2> HIDE DEF c
    <2>5. Fits(log, c, g)
      BY <2>3 DEF Fits, InSent, InTerminal
    <2> QED BY <1>3, <1>6, <2>2, <2>3, <2>4, <2>5, ConstantsAssumption DEF InSent
  <1> QED BY <1>4, <1>5, <1>6

\* A process dies.
LEMMA CrashStep ==
    ASSUME Inv, NEW p \in Procs, Crash(p)
    PROVE  Inv'
  <1>t. Typed /\ Len(log) \in Nat \ {0} /\ calls \in 0..MaxCalls /\ crashes \in 0..MaxCrashes
    BY Basics
  <1>1. /\ log' = log /\ engine' = [engine EXCEPT ![p] = Opened] /\ call' = [call EXCEPT ![p] = NoCall] /\ told' = told
        /\ calls' = calls /\ crashes < MaxCrashes /\ crashes' = crashes + 1
    BY DEF Crash
  <1>2. calls' \in 0..MaxCalls /\ crashes' \in 0..MaxCrashes
    BY <1>t, <1>1, ConstantsAssumption
  <1>3. Opened \in Engines /\ Opened.seen \in 1..Len(log)
    BY <1>t, OpenedFacts
  <1>4. told[p] \in [answer : Told, ev : Nat, req : Nat] /\ told' = [told EXCEPT ![p] = told[p]]
    BY <1>t, <1>1 DEF Typed
  <1> QED BY <1>1, <1>2, <1>3, <1>4, Rests

\* A process tells its caller an answer that asks for no person.
LEMMA RestStep ==
    ASSUME Inv, NEW p \in Procs, NEW a \in Told \ {"wait for a person"}, Tell(p, a),
           log' = log, engine' = engine, calls' = calls, crashes' = crashes
    PROVE  Inv'
  <1>t. /\ Typed /\ calls \in 0..MaxCalls /\ crashes \in 0..MaxCrashes /\ call[p] \in CallRecords
        /\ engine' = [engine EXCEPT ![p] = engine[p]] /\ engine[p] \in Engines /\ engine[p].seen \in 1..Len(log)
    BY Basics
  <1> DEFINE t == [answer |-> a, ev |-> call[p].ev, req |-> call[p].req]
  <1>1. t \in [answer : Told, ev : Nat, req : Nat] /\ t.answer # "wait for a person"
    BY <1>t DEF CallRecords
  <1>2. told' = [told EXCEPT ![p] = t] /\ call' = [call EXCEPT ![p] = NoCall]
    BY DEF Tell
  <1> HIDE DEF t
  <1> QED BY <1>t, <1>1, <1>2, Rests

\* A call goes on and nothing is recorded.
LEMMA Works ==
    ASSUME Inv, NEW p \in Procs, log' = log, told' = told, calls' = calls, crashes' = crashes,
           NEW c \in CallRecords, call' = [call EXCEPT ![p] = c], c.op = call[p].op,
           NEW g \in Engines, g.seen \in 1..Len(log), engine' = [engine EXCEPT ![p] = g], Fits(log, c, g),
           c.pc \in InSent => call[p].pc \in InSent /\ c.ev = call[p].ev,
           ~(c.op = "decision" /\ c.pc = "emit")
    PROVE  Inv'
  <1>1. p \in Agents => c.op # "decision"
    BY DEF Inv, Fitting
  <1>2. p \in Terminals => c.op \in {"none", "decision"}
    BY DEF Inv, Fitting
  <1>3. calls' \in 0..MaxCalls /\ crashes' \in 0..MaxCrashes
    BY Basics
  <1>4. Becomes(p, c, g, told[p])
    BY <1>1, <1>2, <1>3, KeepsAnswer DEF Becomes
  <1> QED BY <1>4, Quiet

\* The signals of a response, one after the other.
LEMMA BatchStep ==
    ASSUME Inv, NEW p \in Procs, NextOfBatch(p) \/ Replay(p)
    PROVE  Inv'
  <1>b. /\ Typed /\ Len(log) \in Nat \ {0} /\ call[p] \in CallRecords /\ engine[p] \in Engines
        /\ engine[p].seen \in 1..Len(log) /\ Fits(log, call[p], engine[p])
    BY Basics
  <1>e. /\ log' = log /\ told' = told /\ calls' = calls /\ crashes' = crashes
        /\ engine' = [engine EXCEPT ![p] = engine[p]]
    <2>1. log' = log /\ told' = told /\ calls' = calls /\ crashes' = crashes /\ engine' = engine
      BY DEF NextOfBatch, Replay, bounds
    <2> QED BY <2>1, Basics
  <1> DEFINE d == call[p]
  <1>1. CASE NextOfBatch(p)
    <2> DEFINE c == [d EXCEPT !.pc = "emit", !.sig = Batch[d.next], !.next = d.next + 1]
    <2>1. d.pc = "batch" /\ d.next <= Len(Batch)
      BY <1>1 DEF NextOfBatch
    <2>2. d.op = "response" /\ d.key \in Keys /\ Responding(log, d)
      BY <1>b, <2>1 DEF Fits, InSent, InTerminal, CallRecords, Ops
    <2>3. d.next \in 1..2 /\ Len(Batch) = 2
      BY <2>1, <2>2 DEF Responding, Batch
    <2>4. Batch[d.next] \in Sigs /\ d.next + 1 \in 0..3 /\ "emit" \in Pcs
      BY <2>3 DEF Batch, Sigs, Pcs
    <2>5. c \in CallRecords
      BY <1>b, <2>4 DEF CallRecords
    <2>6. /\ c.pc = "emit" /\ c.op = d.op /\ c.key = d.key /\ c.next = d.next + 1 /\ c.sig = Batch[d.next]
          /\ c.cause = d.cause /\ c.seen = d.seen
      BY <1>b DEF CallRecords
    <2>7. call' = [call EXCEPT ![p] = c]
      BY <1>1, <1>b DEF NextOfBatch, Typed
    <2> HIDE DEF c
    <2>8. Responding(log, c)
      BY <2>1, <2>2, <2>3, <2>6 DEF Responding
    <2>9. Fits(log, c, engine[p])
      BY <1>b, <2>2, <2>6, <2>8 DEF Fits, InSent, InTerminal
    <2> QED BY <1>b, <1>e, <2>2, <2>5, <2>6, <2>7, <2>9, Works DEF InSent
  <1>2. CASE Replay(p)
    <2> DEFINE c == [d EXCEPT !.pc = "batch", !.replayed = TRUE]
    <2>1. d.pc = "emit" /\ WithKey(SignalKey(p)) # 0
      BY <1>2 DEF Replay
    <2>2. SignalKey(p) # Unkeyed /\ Holds(log, Len(log) + 1, SignalKey(p))
      BY <1>b, <2>1, KeyFacts
    <2>3. d.op = "response" /\ SignalKey(p) = <<d.key, d.next - 1>> /\ d.key \in Keys /\ Responding(log, d)
      BY <1>b, <2>1, <2>2 DEF SignalKey, Unkeyed, Fits
    <2>4. c \in CallRecords
      BY <1>b DEF CallRecords, Pcs
    <2>5. /\ c.pc = "batch" /\ c.op = d.op /\ c.key = d.key /\ c.next = d.next /\ c.replayed = TRUE
          /\ c.cause = d.cause /\ c.seen = d.seen
      BY <1>b DEF CallRecords
    <2>6. call' = [call EXCEPT ![p] = c]
      BY <1>2, <1>b DEF Replay, Typed
    <2> HIDE DEF c
    <2>7. d.next \in 2..3 /\ (d.next = 3 => Holds(log, Len(log) + 1, <<d.key, 1>>))
      BY <2>1, <2>3 DEF Responding
    <2>8. Holds(log, Len(log) + 1, <<d.key, 1>>)
      <3>1. CASE d.next = 2
        BY <2>2, <2>3, <3>1
      <3>2. CASE d.next = 3
        BY <2>7, <3>2
      <3> QED BY <2>7, <3>1, <3>2
    <2>9. Responding(log, c)
      BY <2>3, <2>5, <2>8 DEF Responding
    <2>10. Fits(log, c, engine[p])
      BY <1>b, <2>3, <2>5, <2>9 DEF Fits, InSent, InTerminal
    <2> QED BY <1>b, <1>e, <2>3, <2>4, <2>5, <2>6, <2>10, Works DEF InSent
  <1> QED BY <1>1, <1>2

\* A signal that was processed lets its response go on to the next one, and its terminal to the next request.
LEMMA ProcessedFits ==
    ASSUME NEW l \in Seq(Events), NEW m, m = l \/ \E e \in Events : m = Append(l, e),
           NEW d \in CallRecords, NEW g, NEW h, Fits(l, d, g), d.pc \in InSent
    PROVE  /\ d.op = "response" /\ (d.next = 3 => Whole(m, Len(m) + 1, d.cause)) => Fits(m, [d EXCEPT !.pc = "batch"], h)
           /\ d.op = "decision" => Fits(m, [d EXCEPT !.pc = "list"], h)
  <1>1. /\ Len(l) \in Nat /\ Len(m) \in Len(l)..(Len(l) + 1) /\ \A i \in 1..Len(l) : m[i] = l[i]
    BY AppendFacts
  <1>2. /\ \A j, t : Is(l, j, t) => Is(m, j, t)
        /\ \A k : Holds(l, Len(l) + 1, k) => Holds(m, Len(m) + 1, k)
    BY <1>1 DEF Is, Holds
  <1>3. /\ \A i \in d.seen : Is(m, i, "APPROVAL_REQUESTED")
    BY <1>2 DEF Fits
  <1>4. ASSUME d.op = "response", d.next = 3 => Whole(m, Len(m) + 1, d.cause)
        PROVE  Fits(m, [d EXCEPT !.pc = "batch"], h)
    <2> DEFINE c == [d EXCEPT !.pc = "batch"]
    <2>1. /\ c.pc = "batch" /\ c.op = d.op /\ c.key = d.key /\ c.next = d.next /\ c.replayed = d.replayed
          /\ c.cause = d.cause /\ c.seen = d.seen
      BY DEF CallRecords
    <2>2. Responding(l, d) /\ Sent(l, d, g) /\ d.key \in Keys /\ d.pc # "batch"
      BY <1>4 DEF Fits, InSent
    <2>3. d.next \in 2..3 /\ (d.next = 3 => Holds(l, Len(l) + 1, <<d.key, 1>>)) /\ Is(l, d.cause, "DECISION_RECORDED")
          /\ l[d.cause].key = <<d.key, 0>>
      BY <2>2 DEF Responding
    <2>4. Holds(l, Len(l) + 1, <<d.key, d.next - 1>>)
      BY <1>1, <1>4, <2>2 DEF Sent, Is, Holds
    <2>5. Holds(m, Len(m) + 1, <<d.key, 1>>)
      <3>1. d.next = 2 => Holds(l, Len(l) + 1, <<d.key, 1>>)
        BY <2>4
      <3> QED BY <1>2, <2>3, <3>1
    <2>6. Is(m, d.cause, "DECISION_RECORDED") /\ m[d.cause].key = <<d.key, 0>>
      BY <1>1, <1>2, <2>3 DEF Is
    <2> HIDE DEF c
    <2>7. Responding(m, c)
      BY <1>4, <2>1, <2>3, <2>5, <2>6 DEF Responding
    <2>8. Fits(m, c, h)
      BY <1>3, <1>4, <2>1, <2>2, <2>7 DEF Fits, InSent, InTerminal
    <2> QED BY <2>8 DEF c
  <1>5. ASSUME d.op = "decision" PROVE Fits(m, [d EXCEPT !.pc = "list"], h)
    <2> DEFINE c == [d EXCEPT !.pc = "list"]
    <2>1. c.pc = "list" /\ c.op = d.op /\ c.seen = d.seen
      BY DEF CallRecords
    <2> HIDE DEF c
    <2>2. Fits(m, c, h)
      BY <1>3, <1>5, <2>1 DEF Fits, InSent, InTerminal
    <2> QED BY <2>2 DEF c
  <1> QED BY <1>4, <1>5

\* A terminal whose run moved looks again.
LEMMA ReloadFits ==
    ASSUME NEW l, NEW d \in CallRecords, NEW g, NEW h, Fits(l, d, g), d.op = "decision", d.pc # "list", NEW x \in {"reload", "again"}
    PROVE  Fits(l, [d EXCEPT !.pc = x], h)
  <1> DEFINE c == [d EXCEPT !.pc = x]
  <1>1. c.pc = x /\ c.op = d.op /\ c.seen = d.seen /\ c.req = d.req
    BY DEF CallRecords
  <1> HIDE DEF c
  <1>2. Fits(l, c, h)
    BY <1>1 DEF Fits, InSent, InTerminal
  <1> QED BY <1>2 DEF c

\* A conflict ends the call, or sends the terminal back.
LEMMA ConflictStep ==
    ASSUME Inv, NEW p \in Procs, EmitConflict(p) \/ GuardConflict(p)
    PROVE  Inv'
  <1>b. /\ Typed /\ Len(log) \in Nat \ {0} /\ call[p] \in CallRecords /\ engine[p] \in Engines
        /\ engine[p].seen \in 1..Len(log) /\ Fits(log, call[p], engine[p])
    BY Basics
  <1>e. log' = log /\ calls' = calls /\ crashes' = crashes /\ engine' = engine /\ call[p].pc # "list" /\ Conflict(p)
    BY DEF EmitConflict, GuardConflict, bounds
  <1>1. CASE call[p].op = "decision"
    <2> DEFINE c == [call[p] EXCEPT !.pc = "reload"]
    <2>1. call' = [call EXCEPT ![p] = c] /\ told' = told
      BY <1>b, <1>e, <1>1 DEF Conflict, Goto, Typed
    <2>2. c \in CallRecords /\ c.pc = "reload" /\ c.op = call[p].op
      BY <1>b DEF CallRecords, Pcs, InTerminal
    <2>3. Fits(log, c, engine[p])
      BY <1>b, <1>e, <1>1, ReloadFits
    <2>4. engine' = [engine EXCEPT ![p] = engine[p]]
      BY <1>e, Basics
    <2> HIDE DEF c
    <2> QED BY <1>b, <1>e, <2>1, <2>2, <2>3, <2>4, Works DEF InSent
  <1>2. CASE call[p].op # "decision"
    <2>1. Tell(p, "conflict")
      BY <1>e, <1>2 DEF Conflict
    <2> QED BY <1>e, <2>1, RestStep DEF Told
  <1> QED BY <1>1, <1>2

\* A call that has sent its signal.
LEMMA SentFacts ==
    ASSUME Inv, NEW p \in Procs, call[p].pc \in InSent
    PROVE  /\ Sent(log, call[p], engine[p]) /\ call[p].op \in {"signal", "response", "decision"}
           /\ call[p].ev \in 1..Len(log) /\ call[p].cause \in 0..(call[p].ev - 1)
           /\ call[p].op = "response" => Responding(log, call[p]) /\ call[p].next \in 2..3
                                         /\ call[p].sig = Batch[call[p].next - 1]
  <1>b. /\ Typed /\ Len(log) \in Nat \ {0} /\ call[p] \in CallRecords /\ Fits(log, call[p], engine[p])
    BY Basics
  <1>1. Sent(log, call[p], engine[p])
    BY <1>b DEF Fits
  <1>2. call[p].op \in {"signal", "response", "decision"}
    BY <1>b DEF Fits, InSent, CallRecords, Ops
  <1>3. call[p].ev \in 1..Len(log) /\ call[p].cause < call[p].ev /\ call[p].cause \in Nat
    BY <1>b, <1>1 DEF Sent, Is, CallRecords
  <1>4. ASSUME call[p].op = "response"
        PROVE  Responding(log, call[p]) /\ call[p].next \in 2..3 /\ call[p].sig = Batch[call[p].next - 1]
    <2>1. Responding(log, call[p])
      BY <1>b, <1>4 DEF Fits, InSent
    <2> QED BY <2>1 DEF Responding, InSent
  <1> QED BY <1>b, <1>1, <1>2, <1>3, <1>4

\* A decision that is resolved answers the request of this payload, and no agent's signal came before.
LEMMA ResolvedFacts ==
    ASSUME Inv, NEW p \in Procs, call[p].pc \in InSent
    PROVE  LET d == call[p]
               h == HumanDecision(d.sig, d.payload, d.cause)
           IN  /\ h \in Humans
               /\ h # "none" => Answers(log, d.cause, d.payload, h) /\ (d.op = "decision" => ~Named(log, d.cause))
  <1> DEFINE d == call[p]
             h == HumanDecision(d.sig, d.payload, d.cause)
  <1>b. /\ Typed /\ Len(log) \in Nat \ {0} /\ call[p] \in CallRecords /\ DOMAIN log = 1..Len(log)
    BY Basics
  <1>1. Sent(log, d, engine[p]) /\ d.ev \in 1..Len(log) /\ d.cause \in 0..(d.ev - 1)
    BY SentFacts
  <1>2. CASE /\ d.cause \in Of("APPROVAL_DECIDED") /\ log[d.cause].sig = d.sig
             /\ SamePayload(d.cause, d.payload) /\ FirstSignal(d.cause)
    <2>1. h = log[d.cause].decision
      BY <1>2 DEF HumanDecision
    <2>2. Is(log, d.cause, "APPROVAL_DECIDED")
      BY <1>b, <1>2, OfFacts
    <2>3. Answers(log, d.cause, d.payload, h)
      BY <1>2, <2>1, <2>2 DEF Answers, SamePayload
    <2>4. h \in Humans
      <3>1. log[d.cause] \in Events
        BY <2>2, Basics DEF Is
      <3> QED BY <2>1, <3>1 DEF Events
    <2>5. ASSUME d.op = "decision", Named(log, d.cause) PROVE FALSE
      <3> DEFINE S == SignalsCausedBy(d.cause)
      <3>1. S \subseteq 1..Len(log) /\ \A j \in 1..Len(log) : j \in S <=> Is(log, j, "SIGNAL_EMITTED") /\ log[j].cause = d.cause
        BY <1>b, OfFacts DEF SignalsCausedBy
      <3>2. d.ev \in S /\ d.cause + 1 \in S
        BY <1>1, <2>5, <3>1 DEF Sent, Named, Is
      <3>3. Cardinality(S) = 1
        BY <1>2 DEF FirstSignal
      <3> HIDE DEF S
      <3>4. PICK x : S = {x}
        BY <1>b, <3>1, <3>3, ExactlyOne
      <3>5. d.ev = d.cause + 1
        BY <3>2, <3>4
      <3> QED BY <1>1, <2>5, <3>5 DEF Sent, Named
    <2> QED BY <2>3, <2>4, <2>5
  <1>3. CASE ~(/\ d.cause \in Of("APPROVAL_DECIDED") /\ log[d.cause].sig = d.sig
               /\ SamePayload(d.cause, d.payload) /\ FirstSignal(d.cause))
    BY <1>3 DEF HumanDecision, Humans
  <1> QED BY <1>2, <1>3

\* The human decision is resolved.
LEMMA ResolveStep ==
    ASSUME Inv, NEW p \in Procs, Resolve(p)
    PROVE  Inv'
  <1> DEFINE d == call[p]
             h == HumanDecision(d.sig, d.payload, d.cause)
             c == [d EXCEPT !.pc = "guard", !.version = Len(log), !.human = h]
  <1>b. /\ Typed /\ Len(log) \in Nat \ {0} /\ call[p] \in CallRecords /\ engine[p] \in Engines
        /\ engine[p].seen \in 1..Len(log) /\ Fits(log, call[p], engine[p])
    BY Basics
  <1>e. /\ log' = log /\ told' = told /\ calls' = calls /\ crashes' = crashes
        /\ engine' = [engine EXCEPT ![p] = engine[p]]
    <2>1. log' = log /\ told' = told /\ calls' = calls /\ crashes' = crashes /\ engine' = engine
      BY DEF Resolve, bounds
    <2> QED BY <2>1, Basics
  <1>1. d.pc = "resolve" /\ d.pc \in InSent /\ d.sig \in DOMAIN Target[engine[p].state]
    BY DEF Resolve, InSent
  <1>2. call' = [call EXCEPT ![p] = c]
    BY <1>b DEF Resolve, Typed
  <1>3. /\ h \in Humans
        /\ h # "none" => Answers(log, d.cause, d.payload, h) /\ (d.op = "decision" => ~Named(log, d.cause))
    BY <1>1, ResolvedFacts
  <1> HIDE DEF h
  <1>4. c \in CallRecords
    BY <1>b, <1>3 DEF CallRecords, Pcs, InSent
  <1>5. /\ c.pc = "guard" /\ c.op = d.op /\ c.sig = d.sig /\ c.payload = d.payload /\ c.cause = d.cause /\ c.key = d.key
        /\ c.next = d.next /\ c.replayed = d.replayed /\ c.ev = d.ev /\ c.human = h /\ c.req = d.req /\ c.seen = d.seen
    BY <1>b DEF CallRecords
  <1>6. Sent(log, d, engine[p]) /\ d.op \in {"signal", "response", "decision"} /\ (d.op = "response" => Responding(log, d))
    BY <1>1, SentFacts
  <1> HIDE DEF c
  <1>7. Sent(log, c, engine[p])
    BY <1>1, <1>3, <1>5, <1>6 DEF Sent
  <1>8. d.op = "response" => Responding(log, c)
    BY <1>1, <1>5, <1>6 DEF Responding
  <1>9. Fits(log, c, engine[p])
    BY <1>b, <1>1, <1>5, <1>6, <1>7, <1>8 DEF Fits, InSent
  <1> QED BY <1>b, <1>e, <1>1, <1>2, <1>4, <1>5, <1>9, Works

\* No level handles the signal.
LEMMA UnhandledStep ==
    ASSUME Inv, NEW p \in Procs, Unhandled(p)
    PROVE  Inv'
  <1> DEFINE d == call[p]
  <1>b. /\ Typed /\ Len(log) \in Nat \ {0} /\ call[p] \in CallRecords /\ engine[p] \in Engines
        /\ engine[p].seen \in 1..Len(log) /\ Fits(log, call[p], engine[p]) /\ log \in Seq(Events)
    BY Basics
  <1>e. log' = log /\ calls' = calls /\ crashes' = crashes /\ engine' = engine
    BY DEF Unhandled, bounds
  <1>g. engine' = [engine EXCEPT ![p] = engine[p]]
    BY <1>e, Basics
  <1>1. d.pc = "resolve" /\ d.pc \in InSent /\ d.sig \notin DOMAIN Target[engine[p].state] /\ Processed(p, "unhandled")
    BY DEF Unhandled, InSent
  <1>2. /\ Sent(log, d, engine[p]) /\ d.op \in {"signal", "response", "decision"} /\ d.ev \in 1..Len(log)
        /\ d.op = "response" => d.next \in 2..3 /\ d.sig = Batch[d.next - 1]
    BY <1>1, SentFacts
  <1>3. CASE d.op = "signal"
    <2>1. Tell(p, "unhandled")
      BY <1>1, <1>3 DEF Processed
    <2> QED BY <1>e, <2>1, RestStep DEF Told
  <1>4. CASE d.op = "response"
    <2> DEFINE c == [d EXCEPT !.pc = "batch"]
    <2>1. ASSUME d.next = 3 PROVE Whole(log, Len(log) + 1, d.cause)
      <3>1. d.sig = "USER_APPROVED" /\ engine[p].state # Human
        BY <1>1, <1>2, <1>4, <2>1, TargetFacts DEF Batch, States
      <3>2. /\ log[d.ev].type = "SIGNAL_EMITTED" /\ log[d.ev].cause = d.cause
            /\ log[d.ev].sig = "USER_APPROVED" /\ log[d.ev].state # Human
        BY <1>2, <3>1 DEF Sent, Is
      <3> QED BY <1>b, <1>2, <3>2 DEF Whole
    <2>2. Fits(log, c, engine[p])
      BY <1>b, <1>1, <1>4, <2>1, ProcessedFits
    <2>3. call' = [call EXCEPT ![p] = c] /\ told' = told
      BY <1>b, <1>1, <1>4 DEF Processed, Goto, Typed
    <2>4. c \in CallRecords /\ c.pc = "batch" /\ c.op = d.op
      BY <1>b DEF CallRecords, Pcs
    <2> HIDE DEF c
    <2> QED BY <1>b, <1>e, <1>g, <1>4, <2>2, <2>3, <2>4, Works DEF InSent
  <1>5. CASE d.op = "decision"
    <2> DEFINE c == [d EXCEPT !.pc = "list"]
    <2>1. Fits(log, c, engine[p])
      BY <1>b, <1>1, <1>5, ProcessedFits
    <2>2. call' = [call EXCEPT ![p] = c] /\ told' = told
      BY <1>b, <1>1, <1>5 DEF Processed, Goto, Typed
    <2>3. c \in CallRecords /\ c.pc = "list" /\ c.op = d.op
      BY <1>b DEF CallRecords, Pcs, InTerminal
    <2> HIDE DEF c
    <2> QED BY <1>b, <1>e, <1>g, <1>5, <2>1, <2>2, <2>3, Works DEF InSent
  <1> QED BY <1>2, <1>3, <1>4, <1>5

\* Only a terminal asks a person.
LEMMA TerminalFacts ==
    ASSUME Inv, NEW p \in Procs, call[p].pc \in InTerminal
    PROVE  call[p].op = "decision" /\ (call[p].pc # "list" => Is(log, call[p].req, "APPROVAL_REQUESTED"))
  <1>b. call[p] \in CallRecords /\ Fits(log, call[p], engine[p])
    BY Basics
  <1>1. call[p].op = "decision"
    BY <1>b DEF Fits, InSent, InTerminal, CallRecords, Ops
  <1> QED BY <1>b, <1>1 DEF Fits

\* The approve command looks, asks, checks and looks again.
LEMMA TerminalStep ==
    ASSUME Inv, NEW p \in Procs, Ask(p) \/ Answer(p) \/ Decide(p) \/ DecideStale(p) \/ Reload(p) \/ Again(p) \/ EndSession(p)
    PROVE  Inv'
  <1> DEFINE d == call[p]
  <1>b. /\ Typed /\ Len(log) \in Nat \ {0} /\ call[p] \in CallRecords /\ engine[p] \in Engines
        /\ engine[p].seen \in 1..Len(log) /\ Fits(log, call[p], engine[p])
    BY Basics
  <1>e. log' = log /\ calls' = calls /\ crashes' = crashes
    BY DEF Ask, Answer, Decide, DecideStale, Reload, Again, EndSession, bounds
  <1>g. PICK g \in Engines : g.seen \in 1..Len(log) /\ engine' = [engine EXCEPT ![p] = g] /\ (g = engine[p] \/ Reload(p))
    <2>1. CASE Reload(p)
      <3>1. Opened \in Engines /\ Opened.seen \in 1..Len(log)
        BY <1>b, OpenedFacts
      <3> QED BY <2>1, <3>1 DEF Reload
    <2>2. CASE ~Reload(p)
      <3>1. engine' = engine
        BY <2>2 DEF Ask, Answer, Decide, DecideStale, Again, EndSession
      <3> QED BY <1>b, <3>1, Basics
    <2> QED BY <2>1, <2>2
  <1>1. d.pc \in InTerminal /\ d.op = "decision" /\ (d.pc # "list" => Is(log, d.req, "APPROVAL_REQUESTED"))
    <2>1. d.pc \in InTerminal
      BY DEF Ask, Answer, Decide, DecideStale, Reload, Again, EndSession, InTerminal
    <2> QED BY <2>1, TerminalFacts
  <1>2. ASSUME NEW c \in CallRecords, call' = [call EXCEPT ![p] = c], told' = told, c.op = "decision",
               c.pc \in InTerminal, \A i \in c.seen : Is(log, i, "APPROVAL_REQUESTED"),
               c.pc # "list" => Is(log, c.req, "APPROVAL_REQUESTED")
        PROVE  Inv'
    <2>1. Fits(log, c, g)
      BY <1>2 DEF Fits, InSent, InTerminal
    <2> QED BY <1>e, <1>g, <1>1, <1>2, <2>1, Works DEF InSent, InTerminal
  <1>3. ASSUME NEW a \in Told \ {"wait for a person"}, Tell(p, a), engine' = engine PROVE Inv'
    BY <1>e, <1>3, RestStep
  <1>s. \A i \in d.seen : Is(log, i, "APPROVAL_REQUESTED")
    BY <1>b DEF Fits
  <1>4. ASSUME NEW x \in {"record", "reload", "again"}, Goto(p, x), told' = told, d.pc # "list" PROVE Inv'
    <2> DEFINE c == [d EXCEPT !.pc = x]
    <2>1. call' = [call EXCEPT ![p] = c]
      BY <1>b, <1>4 DEF Goto, Typed
    <2>2. c \in CallRecords /\ c.pc = x /\ c.op = d.op /\ c.seen = d.seen /\ c.req = d.req
      BY <1>b, <1>4 DEF CallRecords, Pcs, InTerminal
    <2> HIDE DEF c
    <2> QED BY <1>1, <1>2, <1>4, <1>s, <2>1, <2>2 DEF InTerminal
  <1>5. CASE Ask(p)
    <2>1. PICK i \in Pending(p) \ d.seen :
            call' = [call EXCEPT ![p].pc = "ask", ![p].req = i, ![p].seen = @ \cup {i}, ![p].attempt = 1]
      BY <1>5 DEF Ask
    <2>2. Is(log, i, "APPROVAL_REQUESTED") /\ i \in Nat
      BY <1>b, <2>1, OfFacts DEF Pending, Is
    <2> DEFINE c == [d EXCEPT !.pc = "ask", !.req = i, !.seen = d.seen \cup {i}, !.attempt = 1]
    <2>3. call' = [call EXCEPT ![p] = c] /\ told' = told
      BY <1>b, <1>5, <2>1 DEF Ask, Typed
    <2>4. c \in CallRecords
      <3>1. d.seen \cup {i} \in SUBSET Nat /\ 1 \in 0..MaxAttempts /\ "ask" \in Pcs
        BY <1>b, <2>2, ConstantsAssumption DEF CallRecords, Pcs, InTerminal
      <3> QED BY <1>b, <2>2, <3>1, Zenon DEF CallRecords
    <2>5. c.pc = "ask" /\ c.op = d.op /\ c.req = i /\ c.seen = d.seen \cup {i}
      BY <1>b DEF CallRecords
    <2> HIDE DEF c
    <2> QED BY <1>1, <1>2, <1>s, <2>2, <2>3, <2>4, <2>5 DEF InTerminal
  <1>6. CASE Answer(p)
    <2>1. ASSUME NEW a \in {"approve", "reject"}, call' = [call EXCEPT ![p].pc = "decide", ![p].decision = a], told' = told
          PROVE  Inv'
      <3> DEFINE c == [d EXCEPT !.pc = "decide", !.decision = a]
      <3>1. call' = [call EXCEPT ![p] = c]
        BY <1>b, <2>1 DEF Typed
      <3>2. c \in CallRecords
        BY <1>b DEF CallRecords, Pcs, InTerminal, Humans
      <3>3. c.pc = "decide" /\ c.op = d.op /\ c.req = d.req /\ c.seen = d.seen
        BY <1>b DEF CallRecords
      <3>4. d.pc = "ask"
        BY <1>6 DEF Answer
      <3> HIDE DEF c
      <3> QED BY <1>1, <1>2, <1>s, <2>1, <3>1, <3>2, <3>3, <3>4 DEF InTerminal
    <2>2. Tell(p, "cancelled") => Inv'
      BY <1>3, <1>6 DEF Answer, Told
    <2> QED BY <1>6, <2>1, <2>2 DEF Answer
  <1>7. CASE Again(p)
    <2>1. CASE d.req \in Pending(p) /\ d.attempt < MaxAttempts
      <3> DEFINE c == [d EXCEPT !.pc = "decide", !.attempt = d.attempt + 1]
      <3>1. call' = [call EXCEPT ![p] = c] /\ told' = told /\ d.pc = "again"
        BY <1>b, <1>7, <2>1 DEF Again, Typed
      <3>2. d.attempt + 1 \in 0..MaxAttempts
        BY <1>b, <2>1, ConstantsAssumption DEF CallRecords
      <3>3. c \in CallRecords
        BY <1>b, <3>2 DEF CallRecords, Pcs, InTerminal
      <3>4. c.pc = "decide" /\ c.op = d.op /\ c.req = d.req /\ c.seen = d.seen
        BY <1>b DEF CallRecords
      <3> HIDE DEF c
      <3> QED BY <1>1, <1>2, <1>s, <3>1, <3>3, <3>4 DEF InTerminal
    <2>2. CASE ~(d.req \in Pending(p) /\ d.attempt < MaxAttempts)
      <3>1. Tell(p, "not applied") /\ engine' = engine
        BY <1>7, <2>2 DEF Again
      <3> QED BY <1>3, <3>1 DEF Told
    <2> QED BY <2>1, <2>2
  <1>8. CASE Decide(p) \/ DecideStale(p) \/ Reload(p)
    BY <1>4, <1>8 DEF Decide, DecideStale, Reload
  <1>9. CASE EndSession(p)
    BY <1>3, <1>9 DEF EndSession, Told
  <1> QED BY <1>5, <1>6, <1>7, <1>8, <1>9

\* A response that is answered from the ledger, or refused.
LEMMA ResponseAnswerStep ==
    ASSUME Inv, NEW p \in Procs, ResponseSaved(p) \/ ResponseConflict(p)
    PROVE  Inv'
  BY RestStep DEF ResponseSaved, ResponseConflict, bounds, Told

-----------------------------------------------------------------------------
(* Steps that record an event *)

\* Events are built from a known type, state, signal, payload and cause.
LEMMA EventTyped ==
    ASSUME NEW type \in EventTypes, NEW st \in States, NEW sig \in Sigs, NEW y \in Payloads \cup {NoPayload}, NEW cause \in Nat,
           NEW e, e = Event(type, st, sig, y, cause)
    PROVE  /\ e \in Events
           /\ e.type = type /\ e.state = st /\ e.sig = sig /\ e.payload = y /\ e.cause = cause
           /\ e.req = 0 /\ e.decision = "none" /\ e.key = Unkeyed /\ e.src = "none"
  BY DEF Event, Events, Unkeyed, Humans, Ops

\* The same of an event without a payload.
LEMMA EventBare ==
    ASSUME NEW type \in EventTypes, NEW st \in States, NEW sig \in Sigs, NEW cause \in Nat,
           NEW e, e = Event(type, st, sig, NoPayload, cause)
    PROVE  /\ e \in Events
           /\ e.type = type /\ e.state = st /\ e.sig = sig /\ e.payload = NoPayload /\ e.cause = cause
           /\ e.req = 0 /\ e.decision = "none" /\ e.key = Unkeyed /\ e.src = "none"
  BY DEF Event, Events, Unkeyed, Humans, Ops

\* What the other fields of a recorded event do to it.
LEMMA EventKeyed ==
    ASSUME NEW e \in Events, NEW key, NEW src, NEW f, f = [e EXCEPT !.key = key, !.src = src]
    PROVE  /\ key \in (Keys \cup {NoKey}) \X (0..2) /\ src \in Ops => f \in Events
           /\ f.type = e.type /\ f.state = e.state /\ f.sig = e.sig /\ f.payload = e.payload /\ f.cause = e.cause
           /\ f.req = e.req /\ f.decision = e.decision /\ f.key = key /\ f.src = src
  BY DEF Events

\* The ledger after event e.
LEMMA LedgerNext ==
    ASSUME Inv, NEW p \in Procs, NEW e \in Events, log' = Append(log, e)
    PROVE  /\ Len(log') = Len(log) + 1 /\ Len(log) + 1 \in Nat \ {0}
           /\ \A i \in 1..Len(log) : log'[i] = log[i]
           /\ log'[Len(log) + 1] = e
           /\ \A i, t : Is(log, i, t) => Is(log', i, t) /\ log'[i] = log[i]
           /\ \A t : e.type = t => Is(log', Len(log) + 1, t)
           /\ \A k : Holds(log, Len(log) + 1, k) => Holds(log', Len(log) + 1, k) /\ Holds(log', Len(log') + 1, k)
  <1>1. log \in Seq(Events) /\ Len(log) \in Nat \ {0}
    BY Basics
  <1>2. /\ Len(log') = Len(log) + 1 /\ \A i \in 1..Len(log) : log'[i] = log[i]
        /\ log'[Len(log) + 1] = e
    BY <1>1, AppendFacts
  <1> QED BY <1>1, <1>2 DEF Is, Holds

\* The decision of a response is recorded, or found.
LEMMA RecordResponseStep ==
    ASSUME Inv, NEW p \in Procs, RecordResponse(p)
    PROVE  Inv'
  <1> DEFINE d == call[p]
             existing == ResponseOf(d.key)
             n == Len(log) + 1
  <1>b. /\ Typed /\ Len(log) \in Nat \ {0} /\ call[p] \in CallRecords /\ engine[p] \in Engines
        /\ engine[p].seen \in 1..Len(log) /\ Fits(log, call[p], engine[p]) /\ calls \in 0..MaxCalls /\ crashes \in 0..MaxCrashes
        /\ \A i \in 1..Len(log) : log[i] \in Events /\ Sound(log, i)
    BY Basics
  <1>1. d.pc = "respond" /\ told' = told /\ calls' = calls /\ crashes' = crashes
    BY DEF RecordResponse, bounds
  <1>2. d.op = "response" /\ d.key \in Keys
    BY <1>b, <1>1 DEF Fits, InSent, InTerminal, CallRecords, Ops
  <1>3. existing = WithKey(<<d.key, 0>>) /\ <<d.key, 0>> # Unkeyed
    BY <1>2, ConstantsAssumption DEF ResponseOf, Unkeyed
  <1>4. p \in Agents /\ p \notin Terminals
    <2>1. p \in Terminals => d.op \in {"none", "decision"}
      BY DEF Inv, Fitting
    <2> QED BY <1>2, <2>1 DEF Procs
  <1>5. ASSUME NEW cause \in Nat
        PROVE  LET c == [d EXCEPT !.pc = "batch", !.next = 1, !.cause = cause] IN
               /\ c \in CallRecords /\ c.pc = "batch" /\ c.op = "response" /\ c.key = d.key /\ c.next = 1 /\ c.cause = cause
               /\ c.seen = d.seen
    <2> DEFINE c == [d EXCEPT !.pc = "batch", !.next = 1, !.cause = cause]
    <2>1. "batch" \in Pcs /\ 1 \in 0..3
      BY DEF Pcs
    <2>2. c \in CallRecords
      BY <1>b, <2>1, Zenon DEF CallRecords
    <2>3. c.pc = "batch" /\ c.op = d.op /\ c.key = d.key /\ c.next = 1 /\ c.cause = cause /\ c.seen = d.seen
      BY <1>b, Zenon DEF CallRecords
    <2> HIDE DEF c
    <2> QED BY <1>2, <2>2, <2>3 DEF c
  <1>6. CASE existing # 0
    <2> DEFINE c == [d EXCEPT !.pc = "batch", !.next = 1, !.cause = existing]
    <2>1. existing \in 1..Len(log) /\ log[existing].key = <<d.key, 0>>
      BY <1>b, <1>3, <1>6, KeyFacts
    <2>2. Is(log, existing, "DECISION_RECORDED")
      <3>1. log[existing].type \in {"SIGNAL_EMITTED", "DECISION_RECORDED"} /\ Sound(log, existing)
        BY <1>b, <1>3, <2>1 DEF Sound
      <3>2. ASSUME log[existing].type = "SIGNAL_EMITTED" PROVE FALSE
        <4>1. \E k \in Keys, i \in 1..2 : log[existing].key = <<k, i>>
          BY <1>3, <2>1, <3>1, <3>2 DEF Sound, SoundSignal
        <4> QED BY <2>1, <4>1
      <3> QED BY <2>1, <3>1, <3>2 DEF Is
    <2>3. log' = log /\ call' = [call EXCEPT ![p] = c] /\ engine' = [engine EXCEPT ![p] = engine[p]]
      <3>1. log' = log /\ engine' = engine
        BY <1>6 DEF RecordResponse
      <3>2. call' = [call EXCEPT ![p] = c]
        BY <1>b, <1>6 DEF RecordResponse, Typed
      <3> QED BY <3>1, <3>2, Basics
    <2>4. c \in CallRecords /\ c.pc = "batch" /\ c.op = "response" /\ c.key = d.key /\ c.next = 1 /\ c.cause = existing
          /\ c.seen = d.seen
      <3>1. existing \in Nat
        BY <2>1
      <3> QED BY <1>5, <3>1
    <2> HIDE DEF c, existing
    <2>5. Fits(log, c, engine[p])
      BY <1>b, <1>2, <2>1, <2>2, <2>4 DEF Fits, Responding, InSent, InTerminal
    <2> QED BY <1>b, <1>1, <1>2, <2>3, <2>4, <2>5, Works DEF InSent
  <1>7. CASE existing = 0
    <2> DEFINE e0 == Event("DECISION_RECORDED", engine[p].state, "none", NoPayload, 0)
               e == [e0 EXCEPT !.key = <<d.key, 0>>]
               c == [d EXCEPT !.pc = "batch", !.next = 1, !.cause = n]
    <2>1. /\ e \in Events /\ e.type = "DECISION_RECORDED" /\ e.key = <<d.key, 0>> /\ e.cause = 0 /\ e.req = 0
      <3>1. engine[p].state \in States
        BY <1>b DEF Engines
      <3>2. e0 \in Events /\ e0.type = "DECISION_RECORDED" /\ e0.cause = 0 /\ e0.req = 0
        <4>1. "DECISION_RECORDED" \in EventTypes /\ "none" \in Sigs /\ NoPayload \in Payloads \cup {NoPayload} /\ 0 \in Nat
          BY DEF EventTypes, Sigs
        <4>2. e0 = Event("DECISION_RECORDED", engine[p].state, "none", NoPayload, 0)
          OBVIOUS
        <4> HIDE DEF e0
        <4> QED BY <3>1, <4>1, <4>2, EventBare
      <3> HIDE DEF e0
      <3> QED BY <1>2, <3>2 DEF Events
    <2>2. Appended(p, e)
      BY <1>7 DEF RecordResponse
    <2> HIDE DEF e
    <2>3. PICK g \in Engines : engine' = [engine EXCEPT ![p] = g] /\ g.seen \in 1..Len(log') /\ g.state = engine[p].state
      BY <1>b, <2>1, <2>2, AppendedFacts
    <2>4. log' = Append(log, e) /\ Len(log') = n
      BY <1>b, <2>1, <2>2, AppendedFacts
    <2>5. /\ \A i, t : Is(log, i, t) => Is(log', i, t) /\ log'[i] = log[i]
          /\ log'[n] = e /\ Is(log', n, "DECISION_RECORDED") /\ n \in Nat \ {0}
      BY <2>1, <2>4, LedgerNext
    <2>6. call' = [call EXCEPT ![p] = c]
      BY <1>b, <1>7, <2>4 DEF RecordResponse, Typed
    <2>7. c \in CallRecords /\ c.pc = "batch" /\ c.op = "response" /\ c.key = d.key /\ c.next = 1 /\ c.cause = n
          /\ c.seen = d.seen
      BY <1>5, <2>5
    <2> HIDE DEF c
    <2>8. Fits(log', c, g)
      BY <1>b, <1>2, <2>1, <2>5, <2>7 DEF Fits, Responding, InSent, InTerminal
    <2>9. Sound(log', n)
      BY <1>2, <2>1, <2>5 DEF Sound
    <2>10. \A j \in 1..Len(log) : log[j].key # e.key
      BY <1>b, <1>3, <1>7, <2>1, KeyFacts
    <2>11. Becomes(p, c, g, told[p])
      BY <1>b, <1>1, <1>4, <2>1, <2>3, <2>4, <2>6, <2>7, <2>8, KeepsAnswer DEF Becomes
    <2> QED BY <2>1, <2>4, <2>7, <2>9, <2>10, <2>11, Record DEF InSent
  <1> QED BY <1>6, <1>7

\* The signal is recorded.
LEMMA EmitStep ==
    ASSUME Inv, NEW p \in Procs, Emit(p)
    PROVE  Inv'
  <1> DEFINE d == call[p]
             n == Len(log) + 1
             e0 == Event("SIGNAL_EMITTED", engine[p].state, d.sig, d.payload, d.cause)
             e == [e0 EXCEPT !.key = SignalKey(p), !.src = d.op]
             c == [d EXCEPT !.pc = "resolve", !.ev = n]
  <1>b. /\ Typed /\ Len(log) \in Nat \ {0} /\ call[p] \in CallRecords /\ engine[p] \in Engines
        /\ engine[p].seen \in 1..Len(log) /\ Fits(log, call[p], engine[p]) /\ calls \in 0..MaxCalls /\ crashes \in 0..MaxCrashes
        /\ \A i \in 1..Len(log) : log[i] \in Events /\ Sound(log, i)
    BY Basics
  <1>1. /\ d.pc = "emit" /\ WithKey(SignalKey(p)) = 0 /\ (d.op = "decision" \/ ~HasExternal(p))
        /\ Appended(p, e) /\ told' = told /\ calls' = calls /\ crashes' = crashes
    BY DEF Emit, bounds
  <1>2. d.op \in {"signal", "response", "decision"} /\ d.cause \in Nat
    BY <1>b, <1>1 DEF Fits, CallRecords, Ops
  <1>3. d.op = "response" => Responding(log, d) /\ d.key \in Keys /\ d.next \in 2..3 /\ d.sig = Batch[d.next - 1]
                             /\ (d.next = 3 => Holds(log, n, <<d.key, 1>>))
    BY <1>b, <1>1 DEF Fits, Responding
  <1>4. d.op = "decision" => Deciding(log, d)
    BY <1>b, <1>1 DEF Fits
  <1>5. d.op = "signal" => d.cause \in {0, Len(log)}
    <2>1. d.op = "signal" => d.cause \in {0, engine[p].seen} /\ ~(engine[p].stale \/ Len(log) > engine[p].seen)
      BY <1>b, <1>1 DEF Fits, HasExternal
    <2> QED BY <1>b, <2>1
  <1>6. d.cause < n
    BY <1>b, <1>2, <1>3, <1>4, <1>5 DEF Responding, Deciding, Is
  <1>7. SignalKey(p) \in (Keys \cup {NoKey}) \X (0..2) /\ (d.op = "response" => SignalKey(p) = <<d.key, d.next - 1>>)
        /\ (d.op # "response" => SignalKey(p) = Unkeyed)
    BY <1>3 DEF SignalKey, Unkeyed
  <1>8. /\ e \in Events /\ e.type = "SIGNAL_EMITTED" /\ e.state = engine[p].state /\ e.sig = d.sig /\ e.payload = d.payload
        /\ e.cause = d.cause /\ e.req = 0 /\ e.key = SignalKey(p) /\ e.src = d.op
    <2>1. engine[p].state \in States /\ d.sig \in Sigs /\ d.payload \in Payloads \cup {NoPayload} /\ "SIGNAL_EMITTED" \in EventTypes
          /\ d.op \in Ops
      BY <1>b DEF Engines, CallRecords, EventTypes
    <2>2. /\ e0 \in Events /\ e0.type = "SIGNAL_EMITTED" /\ e0.state = engine[p].state /\ e0.sig = d.sig
          /\ e0.payload = d.payload /\ e0.cause = d.cause /\ e0.req = 0
      <3>1. e0 = Event("SIGNAL_EMITTED", engine[p].state, d.sig, d.payload, d.cause)
        OBVIOUS
      <3> HIDE DEF e0
      <3> QED BY <1>2, <2>1, <3>1, EventTyped
    <2> HIDE DEF e0
    <2>3. e = [e0 EXCEPT !.key = SignalKey(p), !.src = d.op]
      OBVIOUS
    <2> HIDE DEF e
    <2>4. e \in Events
      BY ZenonT(30), <1>7, <2>1, <2>2, <2>3, EventKeyed
    <2>5. /\ e.type = e0.type /\ e.state = e0.state /\ e.sig = e0.sig /\ e.payload = e0.payload /\ e.cause = e0.cause
          /\ e.req = e0.req /\ e.key = SignalKey(p) /\ e.src = d.op
      <3> DEFINE k == SignalKey(p)
                 o == d.op
      <3>1. e = [e0 EXCEPT !.key = k, !.src = o]
        BY <2>3
      <3> HIDE DEF k, o
      <3>2. /\ e.type = e0.type /\ e.state = e0.state /\ e.sig = e0.sig /\ e.payload = e0.payload /\ e.cause = e0.cause
            /\ e.req = e0.req /\ e.key = k /\ e.src = o
        BY <2>2, <3>1 DEF Events
      <3> QED BY <3>2 DEF k, o
    <2> QED BY <2>2, <2>4, <2>5
  <1> HIDE DEF e
  <1>9. log' = Append(log, e) /\ Len(log') = n
    BY <1>b, <1>1, <1>8, AppendedFacts
  <1>10. PICK g \in Engines : engine' = [engine EXCEPT ![p] = g] /\ g.seen \in 1..Len(log') /\ g.state = engine[p].state
    BY <1>b, <1>1, <1>8, AppendedFacts
  <1>11. /\ \A i, t : Is(log, i, t) => Is(log', i, t) /\ log'[i] = log[i]
         /\ log'[n] = e /\ Is(log', n, "SIGNAL_EMITTED") /\ n \in Nat \ {0}
         /\ \A i \in 1..Len(log) : log'[i] = log[i]
         /\ \A k : Holds(log, n, k) => Holds(log', n, k) /\ Holds(log', Len(log') + 1, k)
    BY <1>8, <1>9, LedgerNext
  <1>12. call' = [call EXCEPT ![p] = c]
    BY <1>b, <1>9 DEF Emit, Typed
  <1>13. c \in CallRecords
    BY <1>b, <1>11 DEF CallRecords, Pcs, InSent
  <1>14. /\ c.pc = "resolve" /\ c.ev = n /\ c.op = d.op /\ c.sig = d.sig /\ c.payload = d.payload /\ c.cause = d.cause
         /\ c.key = d.key /\ c.next = d.next /\ c.replayed = d.replayed /\ c.req = d.req /\ c.seen = d.seen
    BY <1>b DEF CallRecords
  <1> HIDE DEF c
  <1>15. Sound(log', n)
    <2>1. SoundSignal(log', n)
      <3>1. d.op = "decision" => Is(log', d.cause, "APPROVAL_DECIDED")
        BY <1>4, <1>11 DEF Deciding
      <3>2. d.op = "response" => Is(log', d.cause, "DECISION_RECORDED") /\ log'[d.cause].key = <<d.key, 0>>
        BY <1>3, <1>11 DEF Responding
      <3>3. ASSUME d.op = "response"
            PROVE  \E k \in Keys, m \in 1..2 :
                    /\ e.key = <<k, m>> /\ e.sig = Batch[m]
                    /\ Is(log', e.cause, "DECISION_RECORDED") /\ log'[e.cause].key = <<k, 0>>
                    /\ m = 2 => Holds(log', n, <<k, 1>>)
        <4>1. d.next - 1 \in 1..2 /\ (d.next - 1 = 2 => Holds(log', n, <<d.key, 1>>))
          BY <1>3, <1>11, <3>3
        <4> QED BY <1>3, <1>7, <1>8, <3>2, <3>3, <4>1
      <3>4. d.op = "signal" => d.cause \in {0, n - 1}
        BY <1>5, <1>b
      <3>5. log'[n] = e
        BY <1>11
      <3> HIDE DEF d, n
      <3>6. e.src \in {"signal", "response", "decision"} /\ (e.src # "response" => e.key = Unkeyed)
            /\ (e.src = "signal" => e.cause \in {0, n - 1}) /\ (e.src = "decision" => Is(log', e.cause, "APPROVAL_DECIDED"))
        BY <1>2, <1>7, <1>8, <3>1, <3>4
      <3> QED BY <1>8, <3>3, <3>5, <3>6 DEF SoundSignal
    <2> QED BY <1>6, <1>8, <1>11, <2>1 DEF Sound
  <1>16. e.key # Unkeyed => \A j \in 1..Len(log) : log[j].key # e.key
    BY <1>b, <1>1, <1>8, KeyFacts
  <1>17. Sent(log', c, g)
    <2>1. \A i \in 1..Len(log') : log'[i].type = "STATE_TRANSITION" => log'[i].cause # n
      <3>1. \A i \in 1..Len(log) : log[i].cause < i /\ log[i].cause \in Nat
        BY <1>b DEF Sound, Events
      <3> QED BY <1>b, <1>8, <1>9, <1>11, <3>1
    <2>2. d.op = "decision" => d.sig = "go"
      BY <1>4 DEF Deciding
    <2> QED BY <1>6, <1>7, <1>8, <1>10, <1>11, <1>14, <2>1, <2>2 DEF Sent
  <1>18. d.op = "response" => Responding(log', c)
    <2>1. ASSUME d.op = "response" PROVE Responding(log', c)
      <3>1. Is(log', d.cause, "DECISION_RECORDED") /\ log'[d.cause].key = <<d.key, 0>>
        BY <1>3, <1>11, <2>1 DEF Responding
      <3>2. d.next = 3 => Holds(log', Len(log') + 1, <<d.key, 1>>)
        BY <1>3, <1>11, <2>1
      <3> QED BY <1>3, <1>14, <2>1, <3>1, <3>2 DEF Responding
    <2> QED BY <2>1
  <1>19. Fits(log', c, g)
    BY <1>b, <1>1, <1>2, <1>3, <1>11, <1>14, <1>17, <1>18 DEF Fits, InSent
  <1>20. (p \in Agents => c.op # "decision") /\ (p \in Terminals => c.op \in {"none", "decision"})
    BY <1>14 DEF Inv, Fitting
  <1>21. Becomes(p, c, g, told[p])
    BY <1>b, <1>1, <1>8, <1>9, <1>10, <1>12, <1>13, <1>19, <1>20, KeepsAnswer DEF Becomes
  <1> QED BY <1>1, <1>8, <1>9, <1>14, <1>15, <1>16, <1>21, Record

\* A decision is recorded, and its signal comes next.
LEMMA RecordDecisionStep ==
    ASSUME Inv, NEW p \in Procs, RecordDecision(p)
    PROVE  Inv'
  <1> DEFINE d == call[p]
             r == log[d.req]
             n == Len(log) + 1
             e0 == Event("APPROVAL_DECIDED", engine[p].state, r.sig, NoPayload, d.req)
             e == [e0 EXCEPT !.req = d.req, !.decision = d.decision]
             c == [d EXCEPT !.pc = "emit", !.sig = r.sig, !.payload = r.payload, !.cause = n]
  <1>b. /\ Typed /\ Len(log) \in Nat \ {0} /\ call[p] \in CallRecords /\ engine[p] \in Engines
        /\ engine[p].seen \in 1..Len(log) /\ Fits(log, call[p], engine[p]) /\ calls \in 0..MaxCalls /\ crashes \in 0..MaxCrashes
        /\ \A i \in 1..Len(log) : log[i] \in Events /\ Sound(log, i)
    BY Basics
  <1>1. d.pc = "record" /\ Appended(p, e) /\ told' = told /\ calls' = calls /\ crashes' = crashes
    BY DEF RecordDecision, bounds
  <1>2. d.op = "decision" /\ Is(log, d.req, "APPROVAL_REQUESTED")
    BY <1>1, TerminalFacts DEF InTerminal
  <1>3. d.req \in 1..Len(log) /\ r.sig = "go" /\ r \in Events
    BY <1>b, <1>2 DEF Is, Sound
  <1>4. r.sig \in Sigs /\ r.payload \in Payloads \cup {NoPayload} /\ d.decision \in Humans /\ d.req \in Nat
    BY <1>b, <1>3 DEF Events, CallRecords
  <1>5. /\ e \in Events /\ e.type = "APPROVAL_DECIDED" /\ e.cause = d.req /\ e.req = d.req /\ e.key = Unkeyed
    <2>1. engine[p].state \in States /\ "APPROVAL_DECIDED" \in EventTypes
      BY <1>b DEF Engines, EventTypes
    <2>2. e0 \in Events /\ e0.type = "APPROVAL_DECIDED" /\ e0.cause = d.req /\ e0.key = Unkeyed
      <3>1. e0 = Event("APPROVAL_DECIDED", engine[p].state, r.sig, NoPayload, d.req)
        OBVIOUS
      <3> HIDE DEF e0
      <3> QED BY <1>4, <2>1, <3>1, EventBare
    <2> HIDE DEF e0
    <2> QED BY <1>4, <2>2 DEF Events
  <1> HIDE DEF e
  <1>6. log' = Append(log, e) /\ Len(log') = n
    BY <1>b, <1>1, <1>5, AppendedFacts
  <1>7. PICK g \in Engines : engine' = [engine EXCEPT ![p] = g] /\ g.seen \in 1..Len(log') /\ g.state = engine[p].state
    BY <1>b, <1>1, <1>5, AppendedFacts
  <1>8. /\ \A i, t : Is(log, i, t) => Is(log', i, t) /\ log'[i] = log[i]
        /\ log'[n] = e /\ Is(log', n, "APPROVAL_DECIDED") /\ n \in Nat \ {0}
        /\ \A i \in 1..Len(log) : log'[i] = log[i]
    BY <1>5, <1>6, LedgerNext
  <1>9. call' = [call EXCEPT ![p] = c]
    BY <1>b, <1>6 DEF RecordDecision, Typed
  <1>10. c \in CallRecords
    BY <1>b, <1>4, <1>8 DEF CallRecords, Pcs
  <1>11. /\ c.pc = "emit" /\ c.op = d.op /\ c.sig = "go" /\ c.cause = n /\ c.req = d.req /\ c.seen = d.seen
    BY <1>b, <1>3 DEF CallRecords
  <1> HIDE DEF c
  <1>12. Sound(log', n)
    BY <1>2, <1>3, <1>5, <1>8 DEF Sound
  <1>13. Deciding(log', c)
    <2>1. \A i \in 1..Len(log) : log[i].cause < i /\ log[i].cause \in Nat
      BY <1>b DEF Sound, Events
    <2>2. \A j \in 1..Len(log') : log'[j].type = "SIGNAL_EMITTED" => log'[j].cause # n
      BY <1>b, <1>5, <1>6, <1>8, <2>1
    <2> QED BY <1>8, <1>11, <2>2 DEF Deciding
  <1>14. Fits(log', c, g)
    BY <1>b, <1>2, <1>8, <1>11, <1>13 DEF Fits, InSent
  <1>15. p \in Agents => c.op # "decision"
    BY <1>11 DEF Inv, Fitting
  <1>16. Becomes(p, c, g, told[p])
    BY <1>b, <1>1, <1>2, <1>5, <1>6, <1>7, <1>9, <1>10, <1>11, <1>14, <1>15, KeepsAnswer DEF Becomes
  <1> QED BY <1>5, <1>6, <1>11, <1>12, <1>16, Record DEF InSent

\* What a call knows holds with every engine of the same state.
LEMMA EngineMoves ==
    ASSUME NEW l, NEW c \in CallRecords, NEW g, NEW h, Fits(l, c, g), h.state = g.state, c.pc # "emit"
    PROVE  Fits(l, c, h)
  BY DEF Fits, Sent

\* A call that has sent its signal still fits after it records an event of a kind that moves nothing.
LEMMA SentRecords ==
    ASSUME Inv, NEW p \in Procs, call[p].pc \in InSent,
           NEW e \in Events, Appended(p, e), e.type \notin {"STATE_TRANSITION", "SIGNAL_EMITTED"}
    PROVE  \E g \in Engines :
             /\ engine' = [engine EXCEPT ![p] = g] /\ g.seen \in 1..Len(log') /\ g.state = engine[p].state
             /\ Fits(log', call[p], g)
  <1>b. /\ Typed /\ Len(log) \in Nat \ {0} /\ call[p] \in CallRecords /\ engine[p] \in Engines
        /\ Fits(log, call[p], engine[p]) /\ log \in Seq(Events) /\ \A i \in 1..Len(log) : log[i] \in Events /\ Sound(log, i)
    BY Basics
  <1>1. PICK g \in Engines : engine' = [engine EXCEPT ![p] = g] /\ g.seen \in 1..Len(log') /\ g.state = engine[p].state
    BY <1>b, AppendedFacts
  <1>2. log' = Append(log, e)
    BY <1>b, AppendedFacts
  <1>3. Harmless(e, call[p])
    BY DEF Harmless
  <1>4. Fits(Append(log, e), call[p], engine[p])
    BY <1>b, <1>3, FitsStay
  <1>5. Fits(log', call[p], engine[p])
    BY <1>2, <1>4
  <1>6. call[p].pc # "emit"
    BY DEF InSent
  <1>7. Fits(log', call[p], g)
    BY <1>b, <1>1, <1>5, <1>6, EngineMoves
  <1> QED BY <1>1, <1>7

\* What a call records about its signal is sound.
LEMMA SentEvent ==
    ASSUME Inv, NEW p \in Procs, call[p].pc \in InSent,
           NEW e \in Events, log' = Append(log, e), e.cause = call[p].ev, e.req = 0, e.key = Unkeyed,
           e.type \in {"GUARD_EVALUATED", "SIGNAL_REFUSED"} \/ (e.type = "APPROVAL_REQUESTED" /\ e.sig = "go")
    PROVE  Sound(log', Len(log) + 1)
  <1> DEFINE n == Len(log) + 1
             y == call[p].ev
  <1>b. Len(log) \in Nat \ {0}
    BY Basics
  <1>3. y < n
    <2>1. y \in 1..Len(log)
      BY SentFacts
    <2> HIDE DEF y
    <2> QED BY <1>b, <2>1
  <1>4. log'[n] = e
    BY LedgerNext
  <1>5. n \in Nat \ {0}
    BY <1>b
  <1>6. e.cause < n /\ e.req < n
    <2>1. e.cause = y /\ e.req = 0
      OBVIOUS
    <2> HIDE DEF y, n
    <2> QED BY <1>3, <1>5, <2>1
  <1>7. Sound(log', n)
    <2> HIDE DEF n
    <2> QED BY <1>4, <1>6 DEF Sound
  <1> QED BY <1>7

\* A call that has sent its signal records an event of such a kind and goes on, or ends with an answer.
LEMMA SentGoesOn ==
    ASSUME Inv, NEW p \in Procs, call[p].pc \in InSent, calls' = calls, crashes' = crashes,
           NEW e \in Events, log' = Append(log, e), e.cause = call[p].ev, e.req = 0, e.key = Unkeyed,
           e.type \in {"GUARD_EVALUATED", "SIGNAL_REFUSED"} \/ (e.type = "APPROVAL_REQUESTED" /\ e.sig = "go"),
           NEW g \in Engines, engine' = [engine EXCEPT ![p] = g], g.seen \in 1..Len(log'),
           NEW c \in CallRecords, call' = [call EXCEPT ![p] = c], c.op \in {"none", call[p].op},
           c.pc \in InSent => c.ev = call[p].ev, c.pc # "emit", Fits(log', c, g),
           NEW t \in [answer : Told, ev : Nat, req : Nat], told' = [told EXCEPT ![p] = t],
           t.answer = "wait for a person" => t.ev \in 1..Len(log') /\ Asked(log', t.ev)
    PROVE  Inv'
  <1>b. /\ Len(log) \in Nat \ {0} /\ calls \in 0..MaxCalls /\ crashes \in 0..MaxCrashes
    BY Basics
  <1>1. (p \in Agents => c.op # "decision") /\ (p \in Terminals => c.op \in {"none", "decision"})
    BY DEF Inv, Fitting
  <1>2. Becomes(p, c, g, t)
    BY <1>b, <1>1 DEF Becomes
  <1>3. Sound(log', Len(log) + 1)
    BY SentEvent
  <1> QED BY <1>2, <1>3, Record

\* The guard returns.
LEMMA GuardReturnsStep ==
    ASSUME Inv, NEW p \in Procs, GuardReturns(p)
    PROVE  Inv'
  <1> DEFINE d == call[p]
             x == Verdict(p)
             e == Event("GUARD_EVALUATED", engine[p].state, d.sig, NoPayload, d.ev)
             c == [d EXCEPT !.pc = x]
  <1>b. /\ Typed /\ Len(log) \in Nat \ {0} /\ call[p] \in CallRecords /\ engine[p] \in Engines
    BY Basics
  <1>1. d.pc = "guard" /\ Appended(p, e) /\ Goto(p, x) /\ told' = told /\ calls' = calls /\ crashes' = crashes
    BY DEF GuardReturns, bounds
  <1>2. d.pc \in InSent
    BY <1>1 DEF InSent
  <1>3. e \in Events /\ e.type = "GUARD_EVALUATED" /\ e.cause = d.ev /\ e.req = 0 /\ e.key = Unkeyed
    <2>1. engine[p].state \in States /\ d.sig \in Sigs /\ d.ev \in Nat /\ "GUARD_EVALUATED" \in EventTypes
      BY <1>b DEF Engines, CallRecords, EventTypes
    <2>2. e = Event("GUARD_EVALUATED", engine[p].state, d.sig, NoPayload, d.ev)
      OBVIOUS
    <2> HIDE DEF e
    <2> QED BY <2>1, <2>2, EventBare
  <1> HIDE DEF e
  <1>4. PICK g \in Engines :
           /\ engine' = [engine EXCEPT ![p] = g] /\ g.seen \in 1..Len(log') /\ g.state = engine[p].state
           /\ Fits(log', d, g)
    BY <1>1, <1>2, <1>3, SentRecords
  <1>5. log' = Append(log, e)
    BY <1>1 DEF Appended
  <1>6. x \in {"commit", "refuse", "request"} /\ (x # "commit" => d.sig = "go")
        /\ (x = "commit" /\ d.sig = "go" => d.human = "approve")
    BY DEF Verdict
  <1>7. call' = [call EXCEPT ![p] = c]
    BY <1>b, <1>1 DEF Goto, Typed
  <1> HIDE DEF x
  <1>8. c \in CallRecords
    BY <1>b, <1>6 DEF CallRecords, Pcs, InSent
  <1>9. /\ c.pc = x /\ c.op = d.op /\ c.sig = d.sig /\ c.payload = d.payload /\ c.cause = d.cause /\ c.key = d.key
        /\ c.next = d.next /\ c.replayed = d.replayed /\ c.ev = d.ev /\ c.human = d.human /\ c.req = d.req /\ c.seen = d.seen
    BY <1>b DEF CallRecords
  <1> HIDE DEF c
  <1>10. Fits(log', c, g)
    <2>1. Sent(log', d, g)
      BY <1>2, <1>4 DEF Fits
    <2>2. Sent(log', c, g)
      BY <1>1, <1>6, <1>9, <2>1 DEF Sent
    <2>3. d.op = "response" => Responding(log', c)
      BY <1>1, <1>2, <1>4, <1>6, <1>9 DEF Fits, Responding
    <2> QED BY <1>1, <1>4, <1>6, <1>9, <2>2, <2>3 DEF Fits, InSent
  <1>11. told[p] \in [answer : Told, ev : Nat, req : Nat] /\ told' = [told EXCEPT ![p] = told[p]]
         /\ (told[p].answer = "wait for a person" => told[p].ev \in 1..Len(log') /\ Asked(log', told[p].ev))
    BY <1>1, <1>3, <1>5, KeepsAnswer
  <1> QED BY <1>1, <1>2, <1>3, <1>4, <1>5, <1>6, <1>7, <1>8, <1>9, <1>10, <1>11, SentGoesOn

\* The request is recorded, or the same one is pending.
LEMMA RequestStep ==
    ASSUME Inv, NEW p \in Procs, Request(p)
    PROVE  Inv'
  <1> DEFINE d == call[p]
             n == Len(log) + 1
             e == Event("APPROVAL_REQUESTED", engine[p].state, d.sig, d.payload, d.ev)
             c == [d EXCEPT !.pc = "waiting"]
  <1>b. /\ Typed /\ Len(log) \in Nat \ {0} /\ call[p] \in CallRecords /\ engine[p] \in Engines
        /\ engine[p].seen \in 1..Len(log) /\ Fits(log, call[p], engine[p])
        /\ \A i \in 1..Len(log) : log[i] \in Events /\ Sound(log, i)
    BY Basics
  <1>1. d.pc = "request" /\ d.pc \in InSent /\ Goto(p, "waiting") /\ told' = told /\ calls' = calls /\ crashes' = crashes
    BY DEF Request, bounds, InSent
  <1>2. Sent(log, d, engine[p]) /\ d.ev \in 1..Len(log) /\ log[d.ev].payload = d.payload /\ d.sig = "go"
    <2>1. Sent(log, d, engine[p]) /\ d.ev \in 1..Len(log)
      BY <1>1, SentFacts
    <2> QED BY <1>1, <2>1 DEF Sent
  <1>3. call' = [call EXCEPT ![p] = c]
    BY <1>b, <1>1 DEF Goto, Typed
  <1>4. c \in CallRecords
    BY <1>b DEF CallRecords, Pcs, InSent
  <1>5. /\ c.pc = "waiting" /\ c.op = d.op /\ c.sig = d.sig /\ c.payload = d.payload /\ c.cause = d.cause /\ c.key = d.key
        /\ c.next = d.next /\ c.replayed = d.replayed /\ c.ev = d.ev /\ c.human = d.human /\ c.req = d.req /\ c.seen = d.seen
    BY <1>b DEF CallRecords
  <1> HIDE DEF c
  <1>6. ASSUME NEW l, NEW g, Fits(l, d, g), Asked(l, d.ev) PROVE Fits(l, c, g)
    <2>1. Sent(l, c, g)
      BY <1>1, <1>2, <1>5, <1>6 DEF Sent, Fits
    <2>2. d.op = "response" => Responding(l, c)
      BY <1>1, <1>5, <1>6 DEF Fits, Responding, InSent
    <2> QED BY <1>1, <1>5, <1>6, <2>1, <2>2 DEF Fits, InSent
  <1>7. CASE SamePending(p)
    <2>1. log' = log /\ engine' = [engine EXCEPT ![p] = engine[p]]
      <3>1. log' = log /\ engine' = engine
        BY <1>7 DEF Request
      <3> QED BY <3>1, Basics
    <2>2. PICK i \in Pending(p) : log[i].payload = d.payload
      BY <1>7 DEF SamePending
    <2>3. Is(log, i, "APPROVAL_REQUESTED") /\ i \notin Decided
      BY <1>b, <2>2, OfFacts DEF Pending
    <2>4. \A j \in 1..Len(log) : ~(log[j].type = "APPROVAL_DECIDED" /\ log[j].req = i)
      BY <1>b, <2>3, OfFacts DEF Decided, Is
    <2>5. Asked(log, d.ev)
      BY <1>2, <2>2, <2>3, <2>4 DEF Asked, Is
    <2>6. Fits(log, c, engine[p])
      BY <1>b, <1>6, <2>5
    <2> QED BY <1>b, <1>1, <1>3, <1>4, <1>5, <2>1, <2>6, Works
  <1>8. CASE ~SamePending(p)
    <2>1. Appended(p, e)
      BY <1>8 DEF Request
    <2>2. e \in Events /\ e.type = "APPROVAL_REQUESTED" /\ e.sig = d.sig /\ e.payload = d.payload /\ e.cause = d.ev
          /\ e.req = 0 /\ e.key = Unkeyed
      <3>1. engine[p].state \in States /\ d.sig \in Sigs /\ d.ev \in Nat /\ "APPROVAL_REQUESTED" \in EventTypes
            /\ d.payload \in Payloads \cup {NoPayload}
        BY <1>b DEF Engines, CallRecords, EventTypes
      <3>2. e = Event("APPROVAL_REQUESTED", engine[p].state, d.sig, d.payload, d.ev)
        OBVIOUS
      <3> HIDE DEF e
      <3> QED BY <3>1, <3>2, EventTyped
    <2> HIDE DEF e
    <2>3. PICK g \in Engines :
             /\ engine' = [engine EXCEPT ![p] = g] /\ g.seen \in 1..Len(log') /\ g.state = engine[p].state
             /\ Fits(log', d, g)
      BY <1>1, <2>1, <2>2, SentRecords
    <2>4. log' = Append(log, e)
      BY <2>1 DEF Appended
    <2>5. /\ Len(log') = n /\ n \in Nat /\ log'[n] = e /\ \A i \in 1..Len(log) : log'[i] = log[i]
      BY <2>4, <2>2, LedgerNext
    <2>6. Asked(log', d.ev)
      <3>1. \A i \in 1..Len(log) : log[i].req < i /\ log[i].req \in Nat
        BY <1>b DEF Sound, Events
      <3>2. \A j \in 1..Len(log') : ~(log'[j].type = "APPROVAL_DECIDED" /\ log'[j].req = n)
        BY <1>b, <2>2, <2>5, <3>1
      <3>3. n \in 1..Len(log') /\ log'[d.ev].payload = d.payload
        BY <1>2, <2>5, <1>b
      <3> QED BY <2>2, <2>5, <3>2, <3>3 DEF Asked
    <2>7. Fits(log', c, g)
      BY <1>6, <2>3, <2>6
    <2>8. told[p] \in [answer : Told, ev : Nat, req : Nat] /\ told' = [told EXCEPT ![p] = told[p]]
          /\ (told[p].answer = "wait for a person" => told[p].ev \in 1..Len(log') /\ Asked(log', told[p].ev))
      BY <1>1, <2>2, <2>4, KeepsAnswer
    <2> QED BY <1>1, <1>2, <1>3, <1>4, <1>5, <2>2, <2>3, <2>4, <2>7, <2>8, SentGoesOn
  <1> QED BY <1>7, <1>8

\* What a call that ends tells its caller.
LEMMA TellFacts ==
    ASSUME NEW p \in Procs, call[p] \in CallRecords, NEW a \in Told, Tell(p, a)
    PROVE  /\ call' = [call EXCEPT ![p] = NoCall] /\ NoCall \in CallRecords /\ NoCall.pc = "idle" /\ NoCall.op = "none"
           /\ \A l, g : Fits(l, NoCall, g)
           /\ \E t \in [answer : Told, ev : Nat, req : Nat] :
                told' = [told EXCEPT ![p] = t] /\ t.answer = a /\ t.ev = call[p].ev
  <1> DEFINE t == [answer |-> a, ev |-> call[p].ev, req |-> call[p].req]
  <1>1. t \in [answer : Told, ev : Nat, req : Nat] /\ t.answer = a /\ t.ev = call[p].ev
    BY DEF CallRecords
  <1>2. told' = [told EXCEPT ![p] = t] /\ call' = [call EXCEPT ![p] = NoCall]
    BY DEF Tell
  <1> HIDE DEF t
  <1> QED BY <1>1, <1>2, IdleFits

\* The call goes to x and is otherwise as it was.
LEMMA GoesTo ==
    ASSUME Inv, NEW p \in Procs, NEW x \in Pcs, Goto(p, x)
    PROVE  LET c == [call[p] EXCEPT !.pc = x] IN
           call' = [call EXCEPT ![p] = c] /\ c \in CallRecords /\ c.pc = x /\ c.op = call[p].op /\ c.ev = call[p].ev
  <1> DEFINE c == [call[p] EXCEPT !.pc = x]
  <1>b. Typed /\ call[p] \in CallRecords
    BY Basics
  <1>1. call' = [call EXCEPT ![p] = c]
    BY <1>b DEF Goto, Typed
  <1>2. c \in CallRecords /\ c.pc = x /\ c.op = call[p].op /\ c.ev = call[p].ev
    BY <1>b DEF CallRecords
  <1> HIDE DEF c
  <1> QED BY <1>1, <1>2 DEF c

\* The signal is refused.
LEMMA RefuseStep ==
    ASSUME Inv, NEW p \in Procs, Refuse(p)
    PROVE  Inv'
  <1> DEFINE d == call[p]
             e == Event("SIGNAL_REFUSED", engine[p].state, d.sig, NoPayload, d.ev)
             a == IF d.pc = "waiting" THEN "wait for a person" ELSE "refused"
  <1>b. /\ Typed /\ Len(log) \in Nat \ {0} /\ call[p] \in CallRecords /\ engine[p] \in Engines
        /\ Fits(log, call[p], engine[p]) /\ log \in Seq(Events)
    BY Basics
  <1>1. d.pc \in {"refuse", "waiting"} /\ Appended(p, e) /\ Processed(p, a) /\ calls' = calls /\ crashes' = crashes
    BY DEF Refuse, bounds
  <1>2. d.pc \in InSent
    BY <1>1 DEF InSent
  <1>3. e \in Events /\ e.type = "SIGNAL_REFUSED" /\ e.cause = d.ev /\ e.req = 0 /\ e.key = Unkeyed
    <2>1. engine[p].state \in States /\ d.sig \in Sigs /\ d.ev \in Nat /\ "SIGNAL_REFUSED" \in EventTypes
      BY <1>b DEF Engines, CallRecords, EventTypes
    <2>2. e = Event("SIGNAL_REFUSED", engine[p].state, d.sig, NoPayload, d.ev)
      OBVIOUS
    <2> HIDE DEF e
    <2> QED BY <2>1, <2>2, EventBare
  <1> HIDE DEF e
  <1>4. PICK g \in Engines :
           /\ engine' = [engine EXCEPT ![p] = g] /\ g.seen \in 1..Len(log') /\ g.state = engine[p].state
           /\ Fits(log', d, g)
    BY <1>1, <1>2, <1>3, SentRecords
  <1>5. log' = Append(log, e)
    BY <1>1 DEF Appended
  <1>6. d.op \in {"signal", "decision"}
    <2>1. /\ Sent(log, d, engine[p]) /\ d.op \in {"signal", "response", "decision"}
          /\ d.op = "response" => d.next \in 2..3 /\ d.sig = Batch[d.next - 1]
      BY <1>2, SentFacts
    <2>2. d.sig = "go"
      BY <1>1, <2>1 DEF Sent
    <2> QED BY <2>1, <2>2 DEF Batch
  <1>7. CASE d.op = "signal"
    <2>1. Tell(p, a) /\ a \in Told
      BY <1>1, <1>7 DEF Processed, Told
    <2> HIDE DEF a
    <2>2. PICK t \in [answer : Told, ev : Nat, req : Nat] :
             told' = [told EXCEPT ![p] = t] /\ t.answer = a /\ t.ev = d.ev
      BY <1>b, <2>1, TellFacts
    <2>3. call' = [call EXCEPT ![p] = NoCall] /\ NoCall \in CallRecords /\ NoCall.pc = "idle" /\ NoCall.op = "none"
          /\ Fits(log', NoCall, g)
      BY <1>b, <2>1, TellFacts
    <2>4. a = "wait for a person" => d.ev \in 1..Len(log') /\ Asked(log', d.ev)
      <3>1. Sent(log', d, g)
        BY <1>2, <1>4 DEF Fits
      <3>2. a = "wait for a person" => d.pc = "waiting"
        BY DEF a
      <3> QED BY <3>1, <3>2 DEF Sent, Is
    <2> QED BY <1>1, <1>2, <1>3, <1>4, <1>5, <2>2, <2>3, <2>4, SentGoesOn DEF InSent
  <1>8. CASE d.op = "decision"
    <2> DEFINE c == [d EXCEPT !.pc = "list"]
    <2>1. Goto(p, "list") /\ told' = told /\ "list" \in Pcs
      BY <1>1, <1>8 DEF Processed, Pcs, InTerminal
    <2>2. call' = [call EXCEPT ![p] = c] /\ c \in CallRecords /\ c.pc = "list" /\ c.op = d.op
      BY <2>1, GoesTo
    <2>3. Fits(log', c, g)
      BY <1>b, <1>2, <1>3, <1>5, <1>8, ProcessedFits
    <2>4. told[p] \in [answer : Told, ev : Nat, req : Nat] /\ told' = [told EXCEPT ![p] = told[p]]
          /\ (told[p].answer = "wait for a person" => told[p].ev \in 1..Len(log') /\ Asked(log', told[p].ev))
      BY <1>3, <1>5, <2>1, KeepsAnswer
    <2> HIDE DEF c
    <2> QED BY <1>1, <1>2, <1>3, <1>4, <1>5, <2>2, <2>3, <2>4, SentGoesOn DEF InSent
  <1> QED BY <1>6, <1>7, <1>8

\* What allows a transition holds when it is recorded.
LEMMA MoveSound ==
    ASSUME Inv, NEW p \in Procs, call[p].pc = "commit", NEW e \in Events, log' = Append(log, e),
           e.type = "STATE_TRANSITION", e.state = Target[engine[p].state][call[p].sig], e.cause = call[p].ev,
           e.req = 0, e.key = Unkeyed
    PROVE  Sound(log', Len(log) + 1)
  <1> DEFINE d == call[p]
             n == Len(log) + 1
  <1>b. /\ Len(log) \in Nat \ {0} /\ engine[p] \in Engines /\ log \in Seq(Events)
        /\ \A i \in 1..Len(log) : log[i] \in Events /\ Sound(log, i)
    BY Basics
  <1>1. d.pc \in InSent
    BY DEF InSent
  <1>2. Sent(log, d, engine[p]) /\ d.ev \in 1..Len(log) /\ d.cause \in 0..(d.ev - 1)
    BY <1>1, SentFacts
  <1>3. log'[n] = e /\ Is(log', d.ev, "SIGNAL_EMITTED") /\ log'[d.ev] = log[d.ev]
    BY <1>2, LedgerNext DEF Sent
  <1>4. d.ev < n /\ n \in Nat \ {0}
    BY <1>b, <1>2
  <1>5. d.sig \in DOMAIN Target[engine[p].state] /\ log[d.ev].sig = d.sig /\ log[d.ev].cause = d.cause
        /\ log[d.ev].payload = d.payload /\ log[d.ev].src = d.op
    BY <1>2 DEF Sent
  <1>6. e.state = "PASSED" => d.sig = "go"
    <2>1. engine[p].state \in States
      BY <1>b DEF Engines
    <2> QED BY <1>5, <2>1, TargetFacts
  <1>7. ASSUME d.sig = "go"
        PROVE  Answers(log', d.cause, d.payload, "approve") /\ (d.op = "decision" => ~Named(log', d.cause))
    <2>1. Answers(log, d.cause, d.payload, "approve") /\ (d.op = "decision" => ~Named(log, d.cause))
      BY <1>2, <1>7 DEF Sent
    <2>2. d.cause \in 1..(Len(log) - 1)
      BY <1>b, <1>2, <2>1 DEF Answers, Is
    <2> QED BY <1>b, <2>1, <2>2, AnswerStays
  <1>8. d.op = "decision" => d.sig = "go"
    BY <1>2 DEF Sent
  <1> HIDE DEF n
  <1>9. SoundMove(log', n)
    BY <1>3, <1>5, <1>6, <1>7, <1>8 DEF SoundMove
  <1>10. e.cause < n /\ e.req < n
    BY <1>4
  <1>11. Sound(log', n)
    BY <1>3, <1>9, <1>10 DEF Sound
  <1> QED BY <1>11 DEF n

\* The run moves.
LEMMA CommitStep ==
    ASSUME Inv, NEW p \in Procs, Commit(p)
    PROVE  Inv'
  <1> DEFINE d == call[p]
             s == Target[engine[p].state][d.sig]
             n == Len(log) + 1
             stale == HasExternal(p)
             e == Event("STATE_TRANSITION", s, d.sig, NoPayload, d.ev)
             g == [state |-> s, seen |-> n, stale |-> stale]
  <1>b. /\ Typed /\ Len(log) \in Nat \ {0} /\ call[p] \in CallRecords /\ engine[p] \in Engines
        /\ Fits(log, call[p], engine[p]) /\ log \in Seq(Events) /\ calls \in 0..MaxCalls /\ crashes \in 0..MaxCrashes
    BY Basics
  <1>1. d.pc = "commit" /\ d.pc \in InSent /\ log' = Append(log, e) /\ Processed(p, "moved")
        /\ calls' = calls /\ crashes' = crashes
    BY DEF Commit, bounds, InSent
  <1>2. /\ Sent(log, d, engine[p]) /\ d.op \in {"signal", "response", "decision"} /\ d.ev \in 1..Len(log)
        /\ d.op = "response" => Responding(log, d) /\ d.next \in 2..3 /\ d.sig = Batch[d.next - 1]
    BY <1>1, SentFacts
  <1>3. d.sig \in DOMAIN Target[engine[p].state] /\ s \in States
    <2>1. d.sig \in DOMAIN Target[engine[p].state] /\ engine[p].state \in States
      BY <1>b, <1>1, <1>2 DEF Sent, Engines
    <2> QED BY <2>1, TargetFacts
  <1>4. /\ e \in Events /\ e.type = "STATE_TRANSITION" /\ e.state = s /\ e.cause = d.ev /\ e.req = 0 /\ e.key = Unkeyed
    <2>1. d.sig \in Sigs /\ d.ev \in Nat /\ "STATE_TRANSITION" \in EventTypes
      BY <1>b DEF CallRecords, EventTypes
    <2>2. e = Event("STATE_TRANSITION", s, d.sig, NoPayload, d.ev)
      OBVIOUS
    <2> HIDE DEF e, s
    <2> QED BY <1>3, <2>1, <2>2, EventBare
  <1>5. Len(log') = n /\ n \in Nat \ {0} /\ log'[n] = e /\ \A i \in 1..Len(log) : log'[i] = log[i]
    BY <1>1, <1>4, LedgerNext
  <1>6. engine' = [engine EXCEPT ![p] = g]
    BY <1>5 DEF Commit
  <1>7. g \in Engines /\ g.seen \in 1..Len(log')
    <2>1. stale \in BOOLEAN
      BY <1>b DEF HasExternal, Engines
    <2> HIDE DEF stale, s
    <2> QED BY <1>3, <1>5, <2>1 DEF Engines
  <1>8. Sound(log', n)
    <2> HIDE DEF e
    <2> QED BY <1>1, <1>4, MoveSound
  <1> HIDE DEF e, g
  <1>9. ASSUME NEW c \in CallRecords, call' = [call EXCEPT ![p] = c], c.op \in {"none", d.op}, c.pc \notin InSent,
               c.pc # "emit", Fits(log', c, g),
               NEW t \in [answer : Told, ev : Nat, req : Nat], told' = [told EXCEPT ![p] = t],
               t.answer = "wait for a person" => t.ev \in 1..Len(log') /\ Asked(log', t.ev)
        PROVE  Inv'
    <2>1. (p \in Agents => c.op # "decision") /\ (p \in Terminals => c.op \in {"none", "decision"})
      BY <1>9 DEF Inv, Fitting
    <2>2. Becomes(p, c, g, t)
      BY <1>b, <1>1, <1>6, <1>7, <1>9, <2>1 DEF Becomes
    <2> QED BY <1>1, <1>4, <1>8, <1>9, <2>2, Record
  <1>10. told' = told =>
            /\ told[p] \in [answer : Told, ev : Nat, req : Nat] /\ told' = [told EXCEPT ![p] = told[p]]
            /\ told[p].answer = "wait for a person" => told[p].ev \in 1..Len(log') /\ Asked(log', told[p].ev)
    BY <1>1, <1>4, KeepsAnswer
  <1>11. CASE d.op = "signal"
    <2>1. Tell(p, "moved") /\ "moved" \in Told
      BY <1>1, <1>11 DEF Processed, Told
    <2>2. PICK t \in [answer : Told, ev : Nat, req : Nat] : told' = [told EXCEPT ![p] = t] /\ t.answer = "moved"
      BY <1>b, <2>1, TellFacts
    <2>3. call' = [call EXCEPT ![p] = NoCall] /\ NoCall \in CallRecords /\ NoCall.pc = "idle" /\ NoCall.op = "none"
          /\ Fits(log', NoCall, g)
      BY <1>b, <2>1, TellFacts
    <2> QED BY <1>9, <2>2, <2>3 DEF InSent
  <1>12. CASE d.op = "response"
    <2> DEFINE c == [d EXCEPT !.pc = "batch"]
    <2>1. Goto(p, "batch") /\ told' = told /\ "batch" \in Pcs
      BY <1>1, <1>12 DEF Processed, Pcs
    <2>2. call' = [call EXCEPT ![p] = c] /\ c \in CallRecords /\ c.pc = "batch" /\ c.op = d.op
      BY <2>1, GoesTo
    <2>3. ASSUME d.next = 3 PROVE Whole(log', Len(log') + 1, d.cause)
      <3>1. log[d.ev].type = "SIGNAL_EMITTED" /\ log[d.ev].cause = d.cause /\ log[d.ev].sig = "USER_APPROVED"
        BY <1>2, <1>12, <2>3 DEF Sent, Is, Batch
      <3>2. d.ev \in 1..n /\ n \in 1..n /\ log'[d.ev] = log[d.ev]
        BY <1>b, <1>2, <1>5
      <3>3. Len(log') + 1 - 1 = n
        BY <1>5
      <3> HIDE DEF n
      <3> QED BY <1>4, <1>5, <3>1, <3>2, <3>3 DEF Whole
    <2>4. Fits(log', c, g)
      BY <1>b, <1>1, <1>4, <1>12, <2>3, ProcessedFits
    <2> HIDE DEF c
    <2> QED BY <1>9, <1>10, <2>1, <2>2, <2>4 DEF InSent
  <1>13. CASE d.op = "decision"
    <2> DEFINE c == [d EXCEPT !.pc = "list"]
    <2>1. Goto(p, "list") /\ told' = told /\ "list" \in Pcs
      BY <1>1, <1>13 DEF Processed, Pcs, InTerminal
    <2>2. call' = [call EXCEPT ![p] = c] /\ c \in CallRecords /\ c.pc = "list" /\ c.op = d.op
      BY <2>1, GoesTo
    <2>3. Fits(log', c, g)
      BY <1>b, <1>1, <1>4, <1>13, ProcessedFits
    <2> HIDE DEF c
    <2> QED BY <1>9, <1>10, <2>1, <2>2, <2>3 DEF InSent
  <1> QED BY <1>2, <1>11, <1>12, <1>13

\* A response whose signals were sent is reported, with a receipt when all of them were processed.
LEMMA FinishResponseStep ==
    ASSUME Inv, NEW p \in Procs, FinishResponse(p)
    PROVE  Inv'
  <1> DEFINE d == call[p]
             n == Len(log) + 1
             e == Event("MCP_CONTINUATION_RECORDED", engine[p].state, "none", NoPayload, d.cause)
  <1>b. /\ Typed /\ Len(log) \in Nat \ {0} /\ call[p] \in CallRecords /\ engine[p] \in Engines
        /\ Fits(log, call[p], engine[p]) /\ log \in Seq(Events) /\ calls \in 0..MaxCalls /\ crashes \in 0..MaxCrashes
    BY Basics
  <1>1. d.pc = "batch" /\ d.next > Len(Batch) /\ calls' = calls /\ crashes' = crashes
    BY DEF FinishResponse, bounds
  <1>2. d.op = "response" /\ Responding(log, d)
    BY <1>b, <1>1 DEF Fits, InSent, InTerminal, CallRecords, Ops
  <1>3. d.next = 3 /\ d.cause \in 1..Len(log) /\ (~d.replayed => Whole(log, n, d.cause))
    BY <1>1, <1>2 DEF Responding, Batch, Is
  <1>4. CASE ~SavesReceipt(p)
    <2>1. log' = log /\ engine' = engine /\ Tell(p, "unavailable")
      BY <1>4 DEF FinishResponse
    <2> QED BY <1>1, <2>1, RestStep DEF Told
  <1>5. CASE SavesReceipt(p)
    <2>1. Appended(p, e) /\ Tell(p, "receipt") /\ "receipt" \in Told /\ ~d.replayed
      BY <1>5 DEF FinishResponse, Told, SavesReceipt
    <2>2. e \in Events /\ e.type = "MCP_CONTINUATION_RECORDED" /\ e.cause = d.cause /\ e.req = 0 /\ e.key = Unkeyed
      <3>1. engine[p].state \in States /\ "none" \in Sigs /\ d.cause \in Nat /\ "MCP_CONTINUATION_RECORDED" \in EventTypes
        BY <1>b DEF Engines, CallRecords, EventTypes, Sigs
      <3>2. e = Event("MCP_CONTINUATION_RECORDED", engine[p].state, "none", NoPayload, d.cause)
        OBVIOUS
      <3> HIDE DEF e
      <3> QED BY <3>1, <3>2, EventBare
    <2> HIDE DEF e
    <2>3. PICK g \in Engines : engine' = [engine EXCEPT ![p] = g] /\ g.seen \in 1..Len(log') /\ g.state = engine[p].state
      BY <1>b, <2>1, <2>2, AppendedFacts
    <2>4. log' = Append(log, e)
      BY <2>1 DEF Appended
    <2>5. log'[n] = e /\ n \in Nat \ {0} /\ Len(log') = n
      BY <2>2, <2>4, LedgerNext
    <2>6. Whole(log', n, d.cause)
      <3>1. n \in 1..(Len(log) + 1)
        BY <1>b
      <3> QED BY <1>b, <1>3, <2>1, <2>2, <2>4, <3>1, SaidStays
    <2>7. d.cause < n /\ 0 < n
      BY <1>b, <1>3
    <2>8. Sound(log', n)
      <3> HIDE DEF n
      <3> QED BY <2>2, <2>5, <2>6, <2>7 DEF Sound
    <2>9. PICK t \in [answer : Told, ev : Nat, req : Nat] : told' = [told EXCEPT ![p] = t] /\ t.answer = "receipt"
      BY <1>b, <2>1, TellFacts
    <2>10. call' = [call EXCEPT ![p] = NoCall] /\ NoCall \in CallRecords /\ NoCall.pc = "idle" /\ NoCall.op = "none"
          /\ Fits(log', NoCall, g)
      BY <1>b, <2>1, TellFacts
    <2>11. Becomes(p, NoCall, g, t)
      BY <1>b, <1>1, <2>3, <2>9, <2>10 DEF Becomes
    <2> QED BY <2>2, <2>4, <2>8, <2>10, <2>11, Record DEF InSent
  <1> QED BY <1>4, <1>5

-----------------------------------------------------------------------------
(* The invariant holds *)

\* A run starts with one event, and nobody has called.
LEMMA InvInit == Init => Inv
  <1> SUFFICES ASSUME Init PROVE Inv
    OBVIOUS
  <1> DEFINE e == Event("SKILL_INITIALIZED", Human, "none", NoPayload, 0)
  <1>1. e \in Events /\ e.type = "SKILL_INITIALIZED" /\ e.cause = 0 /\ e.req = 0 /\ e.key = Unkeyed
    <2>1. Human \in States /\ "none" \in Sigs /\ 0 \in Nat /\ "SKILL_INITIALIZED" \in EventTypes
      BY DEF States, Sigs, EventTypes
    <2>2. e = Event("SKILL_INITIALIZED", Human, "none", NoPayload, 0)
      OBVIOUS
    <2> HIDE DEF e
    <2> QED BY <2>1, <2>2, EventBare
  <1>2. log = <<e>>
    BY DEF Init
  <1> HIDE DEF e
  <1>3. log \in Seq(Events) /\ Len(log) = 1 /\ DOMAIN log = 1..1 /\ log[1] = e
    BY <1>1, <1>2
  <1>4. \A p \in Procs : call[p] = NoCall /\ told[p].answer = "none" /\ engine[p].seen = 1
    BY DEF Init
  <1>5. Typed
    <2>1. engine \in [Procs -> Engines]
      BY DEF Init, Engines, States
    <2>2. call \in [Procs -> CallRecords]
      BY IdleFits DEF Init
    <2>3. told \in [Procs -> [answer : Told, ev : Nat, req : Nat]]
      BY DEF Init, Told
    <2>4. calls \in 0..MaxCalls /\ crashes \in 0..MaxCrashes
      BY ConstantsAssumption DEF Init
    <2> QED BY <1>3, <1>4, <2>1, <2>2, <2>3, <2>4 DEF Typed
  <1>6. AllSound
    BY <1>1, <1>3 DEF AllSound, Sound
  <1>7. KeysUnique /\ MovesUnique /\ SignalsUnique
    <2>1. \A i, j \in 1..Len(log) : i = j
      BY <1>3
    <2> QED BY <1>3, <2>1 DEF KeysUnique, MovesUnique, SignalsUnique, Of
  <1>8. ASSUME NEW p \in Procs PROVE Fitting(p)
    BY <1>4, IdleFits DEF Fitting
  <1>9. Apart
    BY <1>4, IdleFits DEF Apart, InSent
  <1> QED BY <1>5, <1>6, <1>7, <1>8, <1>9 DEF Inv

\* Every step keeps the invariant.
LEMMA InvNext == Inv /\ [Next]_vars => Inv'
  <1> SUFFICES ASSUME Inv, [Next]_vars PROVE Inv'
    OBVIOUS
  <1>1. CASE UNCHANGED vars
    <2>1. log' = log /\ engine' = engine /\ call' = call /\ told' = told /\ calls' = calls /\ crashes' = crashes
      BY <1>1 DEF vars
    <2>2. Typed' /\ AllSound' /\ Apart'
      BY <2>1 DEF Inv, Typed, AllSound, Apart
    <2>3. KeysUnique' /\ MovesUnique' /\ SignalsUnique'
      BY <2>1 DEF Inv, KeysUnique, MovesUnique, SignalsUnique, Of
    <2>4. \A p \in Procs : Fitting(p)'
      BY <2>1 DEF Inv, Fitting
    <2> QED BY <2>2, <2>3, <2>4 DEF Inv
  <1>2. ASSUME NEW p \in Agents, Submit(p) \/ \E k \in Keys : Respond(p, k) PROVE Inv'
    BY <1>2, BeginStep DEF Procs
  <1>3. ASSUME NEW t \in Terminals, OpenTerminal(t) PROVE Inv'
    BY <1>3, BeginStep DEF Procs
  <1>4. ASSUME NEW p \in Procs, Step(p) PROVE Inv'
    <2>1. CASE ResponseSaved(p) \/ ResponseConflict(p)
      BY <2>1, ResponseAnswerStep
    <2>2. CASE RecordResponse(p)
      BY <2>2, RecordResponseStep
    <2>3. CASE NextOfBatch(p) \/ Replay(p)
      BY <2>3, BatchStep
    <2>4. CASE FinishResponse(p)
      BY <2>4, FinishResponseStep
    <2>5. CASE EmitConflict(p) \/ GuardConflict(p)
      BY <2>5, ConflictStep
    <2>6. CASE Emit(p)
      BY <2>6, EmitStep
    <2>7. CASE Resolve(p)
      BY <2>7, ResolveStep
    <2>8. CASE Unhandled(p)
      BY <2>8, UnhandledStep
    <2>9. CASE GuardReturns(p)
      BY <2>9, GuardReturnsStep
    <2>10. CASE Request(p)
      BY <2>10, RequestStep
    <2>11. CASE Refuse(p)
      BY <2>11, RefuseStep
    <2>12. CASE Commit(p)
      BY <2>12, CommitStep
    <2>13. CASE RecordDecision(p)
      BY <2>13, RecordDecisionStep
    <2>14. CASE Ask(p) \/ EndSession(p) \/ Answer(p) \/ Decide(p) \/ DecideStale(p) \/ Reload(p) \/ Again(p)
      BY <2>14, TerminalStep
    <2> QED BY <1>4, <2>1, <2>2, <2>3, <2>4, <2>5, <2>6, <2>7, <2>8, <2>9, <2>10, <2>11, <2>12, <2>13, <2>14 DEF Step
  <1>5. ASSUME NEW p \in Procs, Crash(p) PROVE Inv'
    BY <1>5, CrashStep
  <1> QED BY <1>1, <1>2, <1>3, <1>4, <1>5 DEF Next

\* The invariant holds in every state of every run.
LEMMA Invariance == Spec => []Inv
  BY InvInit, InvNext, PTL DEF Spec

-----------------------------------------------------------------------------
(* What it says *)

\* What the events of the ledger say of one another.
LEMMA LedgerFacts ==
    ASSUME Inv
    PROVE  /\ Typed /\ Len(log) \in Nat /\ DOMAIN log = 1..Len(log)
           /\ \A i \in 1..Len(log) : log[i] \in Events /\ Sound(log, i)
           /\ \A type : Of(type) \subseteq 1..Len(log) /\ \A i : i \in Of(type) <=> Is(log, i, type)
           /\ KeysUnique /\ MovesUnique /\ SignalsUnique
  <1>1. Typed /\ KeysUnique /\ MovesUnique /\ SignalsUnique
    BY DEF Inv
  <1>2. DOMAIN log = 1..Len(log) /\ Len(log) \in Nat
    BY <1>1 DEF Typed
  <1>3. \A i \in 1..Len(log) : log[i] \in Events /\ Sound(log, i)
    BY <1>1, <1>2 DEF Inv, AllSound, Typed
  <1>4. \A type : Of(type) \subseteq 1..Len(log) /\ \A i : i \in Of(type) <=> Is(log, i, type)
    BY <1>1, OfFacts
  <1> QED BY <1>1, <1>2, <1>3, <1>4

\* The variables keep their types: events point back, and a decision at a request.
THEOREM TypesHold == Spec => []TypeOK
  <1>1. ASSUME Inv PROVE TypeOK
    <2>b. /\ Typed /\ DOMAIN log = 1..Len(log)
          /\ \A i \in 1..Len(log) : log[i] \in Events /\ Sound(log, i)
      BY <1>1, LedgerFacts
    <2>f. \A type, i : i \in Of(type) <=> Is(log, i, type)
      BY <1>1, LedgerFacts
    <2>1. ASSUME NEW i \in DOMAIN log
          PROVE  /\ log[i].type \in EventTypes /\ log[i].state \in States
                 /\ log[i].payload \in Payloads \cup {NoPayload} /\ log[i].cause < i /\ log[i].req < i
                 /\ log[i].type = "APPROVAL_DECIDED" => log[i].req \in Of("APPROVAL_REQUESTED")
      BY <2>b, <2>f DEF Events, Sound
    <2>2. ASSUME NEW p \in Procs
          PROVE  /\ engine[p].state \in States /\ engine[p].seen \in DOMAIN log /\ engine[p].stale \in BOOLEAN
                 /\ call[p].attempt \in 0 .. MaxAttempts /\ call[p].seen \subseteq Of("APPROVAL_REQUESTED")
                 /\ call[p].pc \notin {"idle", "respond", "batch", "emit", "list"} => call[p].ev # 0 \/ call[p].req # 0
      <3>b. call[p] \in CallRecords /\ engine[p] \in Engines /\ engine[p].seen \in 1..Len(log) /\ Fits(log, call[p], engine[p])
        BY <1>1, Basics
      <3>1. call[p].seen \subseteq Of("APPROVAL_REQUESTED")
        BY <2>f, <3>b DEF Fits
      <3>2. CASE call[p].pc \in InSent
        BY <1>1, <2>b, <3>b, <3>1, <3>2, SentFacts DEF CallRecords, Engines
      <3>3. CASE call[p].pc \in InTerminal
        <4>1. call[p].pc # "list" => call[p].req \in 1..Len(log)
          BY <1>1, <3>3, TerminalFacts DEF Is
        <4> QED BY <2>b, <3>b, <3>1, <4>1 DEF CallRecords, Engines
      <3>4. CASE call[p].pc \in {"idle", "respond", "batch", "emit"}
        BY <2>b, <3>b, <3>1, <3>4 DEF CallRecords, Engines
      <3> QED BY <3>b, <3>2, <3>3, <3>4 DEF CallRecords, Pcs
    <2>3. calls \in 0 .. MaxCalls /\ crashes \in 0 .. MaxCrashes
      BY <2>b DEF Typed
    <2> QED BY <2>1, <2>2, <2>3 DEF TypeOK
  <1> QED BY <1>1, Invariance, PTL

\* Nobody passes the judged gate but on an approval of a request with the payload that passed
\* (resolveHumanDecision, fsm-engine.ts:1797).
THEOREM ApprovalsInformed == Spec => []ApprovalsAreInformed
  <1>1. ASSUME Inv PROVE ApprovalsAreInformed
    <2> SUFFICES ASSUME NEW i \in Passes
                 PROVE  LET s == log[log[i].cause] IN
                        /\ s.cause \in Of("APPROVAL_DECIDED") /\ log[s.cause].decision = "approve"
                        /\ log[log[s.cause].req].payload = s.payload
      BY DEF ApprovalsAreInformed
    <2>1. Is(log, i, "STATE_TRANSITION") /\ Sound(log, i) /\ log[i].state = "PASSED"
      BY <1>1, LedgerFacts DEF Passes, Is
    <2>2. Answers(log, log[log[i].cause].cause, log[log[i].cause].payload, "approve")
      BY <2>1 DEF Sound, SoundMove, Is
    <2> QED BY <1>1, <2>2, LedgerFacts DEF Answers
  <1> QED BY <1>1, Invariance, PTL

\* A decision moves the run once, although its terminal and an agent can both send its signal.
THEOREM DecisionsCount == Spec => []DecisionsCountOnce
  <1>1. ASSUME Inv PROVE DecisionsCountOnce
    <2> SUFFICES ASSUME NEW d \in Of("APPROVAL_DECIDED")
                 PROVE  Cardinality({i \in Of("STATE_TRANSITION") : log[log[i].cause].cause = d}) <= 1
      BY DEF DecisionsCountOnce
    <2> DEFINE S == {i \in Of("STATE_TRANSITION") : log[log[i].cause].cause = d}
    <2>b. /\ Len(log) \in Nat /\ \A i \in 1..Len(log) : log[i] \in Events /\ Sound(log, i)
          /\ MovesUnique /\ SignalsUnique
      BY <1>1, LedgerFacts
    <2>f. \A type, i : i \in Of(type) <=> Is(log, i, type)
      BY <1>1, LedgerFacts
    <2>d. Is(log, d, "APPROVAL_DECIDED") /\ d \in Nat \ {0}
      BY <2>f DEF Is
    <2>1. ASSUME NEW i \in S
          PROVE  LET s == log[i].cause IN
                 /\ Is(log, s, "SIGNAL_EMITTED") /\ log[s].cause = d /\ log[s].src \in {"signal", "decision"}
                 /\ log[s].src = "signal" => s = d + 1
                 /\ log[s].src = "decision" => ~Named(log, d)
      <3> DEFINE s == log[i].cause
      <3>1. SoundMove(log, i) /\ log[s].cause = d
        BY <2>b, <2>f DEF Sound, Is
      <3>2. Is(log, s, "SIGNAL_EMITTED") /\ SoundSignal(log, s) /\ s \in Nat
        BY <2>b, <3>1 DEF SoundMove, Sound, Is
      <3>3. log[s].src # "response"
        BY <2>d, <3>1, <3>2 DEF SoundSignal, Is
      <3>4. log[s].src = "signal" => s = d + 1
        <4>1. log[s].src = "signal" => d \in {0, s - 1}
          BY <3>1, <3>2 DEF SoundSignal
        <4> HIDE DEF s
        <4> QED BY <2>d, <3>2, <4>1
      <3> QED BY <3>1, <3>2, <3>3, <3>4 DEF SoundSignal, SoundMove
    <2>2. ASSUME NEW i \in S, NEW j \in S PROVE i = j
      <3> DEFINE s == log[i].cause
                 u == log[j].cause
      <3>1. /\ Is(log, s, "SIGNAL_EMITTED") /\ log[s].cause = d /\ log[s].src \in {"signal", "decision"}
            /\ log[s].src = "signal" => s = d + 1
            /\ log[s].src = "decision" => ~Named(log, d)
        BY <2>1
      <3>2. /\ Is(log, u, "SIGNAL_EMITTED") /\ log[u].cause = d /\ log[u].src \in {"signal", "decision"}
            /\ log[u].src = "signal" => u = d + 1
            /\ log[u].src = "decision" => ~Named(log, d)
        BY <2>1
      <3>3. s = u
        <4> HIDE DEF s, u
        <4>1. \A x : Is(log, x, "SIGNAL_EMITTED") /\ log[x].cause = d /\ log[x].src = "signal" /\ x = d + 1 => Named(log, d)
          BY DEF Named
        <4>2. s \in Of("SIGNAL_EMITTED") /\ u \in Of("SIGNAL_EMITTED")
          BY <2>f, <3>1, <3>2
        <4>3. CASE log[s].src = "signal" /\ log[u].src = "signal"
          BY <3>1, <3>2, <4>3
        <4>4. CASE log[s].src = "decision" /\ log[u].src = "decision"
          BY <2>b, <3>1, <3>2, <4>2, <4>4 DEF SignalsUnique
        <4> QED BY <3>1, <3>2, <4>1, <4>3, <4>4
      <3> QED BY <2>b, <3>3 DEF MovesUnique
    <2>3. S \subseteq 1..Len(log)
      BY <2>f DEF Is
    <2> HIDE DEF S
    <2>4. Cardinality(S) <= 1
      BY <2>b, <2>2, <2>3, AtMostOne
    <2> QED BY <2>4 DEF S
  <1> QED BY <1>1, Invariance, PTL

\* An agent that is told to wait has a request with its payload that nobody had decided before.
THEOREM RefusedWait == Spec => []RefusedGatesWaitForAPerson
  <1>1. ASSUME Inv PROVE RefusedGatesWaitForAPerson
    <2> SUFFICES ASSUME NEW p \in Agents, told[p].answer = "wait for a person"
                 PROVE  \E i \in Of("APPROVAL_REQUESTED") :
                          /\ log[i].payload = log[told[p].ev].payload
                          /\ \A d \in Of("APPROVAL_DECIDED") : log[d].req = i => d > told[p].ev
      BY DEF RefusedGatesWaitForAPerson
    <2>1. Asked(log, told[p].ev)
      BY <1>1 DEF Inv, Fitting, Procs
    <2> QED BY ZenonT(30), <1>1, <2>1, LedgerFacts DEF Asked, Is
  <1> QED BY <1>1, Invariance, PTL

\* A human response sends each signal once and in order, and its receipt means that the approval
\* was processed (human-response.ts).
THEOREM ResponsesWhole == Spec => []ResponsesAreWhole
  <1>1. ASSUME Inv PROVE ResponsesAreWhole
    <2>b. /\ Len(log) \in Nat /\ \A i \in 1..Len(log) : log[i] \in Events /\ Sound(log, i) /\ KeysUnique
      BY <1>1, LedgerFacts
    <2>f. \A type, i : i \in Of(type) <=> Is(log, i, type)
      BY <1>1, LedgerFacts
    <2> DEFINE sent == {i \in Of("SIGNAL_EMITTED") : log[i].src = "response"}
    <2>1. ASSUME NEW i \in sent
          PROVE  \E k \in Keys, n \in 1..2 :
                   /\ log[i].key = <<k, n>> /\ log[i].sig = Batch[n]
                   /\ Is(log, log[i].cause, "DECISION_RECORDED") /\ log[log[i].cause].key = <<k, 0>>
                   /\ n = 2 => Holds(log, i, <<k, 1>>)
      <3>1. SoundSignal(log, i)
        BY <2>b, <2>f DEF Sound, Is
      <3> QED BY <3>1 DEF SoundSignal
    <2>2. \A i \in sent : i \in 1..Len(log)
      BY <2>f DEF Is
    <2>3. Batch[1] = "USER_RESPONSE" /\ Batch[2] = "USER_APPROVED"
      BY DEF Batch
    <2>4. \A k \in Keys, n \in 0..2 : <<k, n>> # Unkeyed
      BY ConstantsAssumption DEF Unkeyed
    <2>5. ASSUME NEW i \in sent, NEW j \in sent, log[i].cause = log[j].cause, log[i].sig = log[j].sig PROVE i = j
      <3>1. PICK k \in Keys, n \in 1..2 :
              log[i].key = <<k, n>> /\ log[i].sig = Batch[n] /\ log[log[i].cause].key = <<k, 0>>
        BY <2>1
      <3>2. PICK h \in Keys, m \in 1..2 :
              log[j].key = <<h, m>> /\ log[j].sig = Batch[m] /\ log[log[j].cause].key = <<h, 0>>
        BY <2>1
      <3>3. k = h /\ n = m
        <4>1. <<k, 0>> = <<h, 0>> /\ Batch[n] = Batch[m]
          BY <2>5, <3>1, <3>2
        <4>2. n \in {1, 2} /\ m \in {1, 2}
          OBVIOUS
        <4>3. Batch[1] # Batch[2]
          BY <2>3
        <4> QED BY <4>1, <4>2, <4>3
      <3>4. log[i].key = log[j].key /\ log[i].key # Unkeyed
        BY <2>4, <3>1, <3>2, <3>3
      <3> QED BY <2>b, <2>2, <3>4 DEF KeysUnique
    <2>6. ASSUME NEW i \in sent, log[i].sig = "USER_APPROVED"
          PROVE  \E j \in sent : j < i /\ log[j].cause = log[i].cause /\ log[j].sig = "USER_RESPONSE"
      <3>1. PICK k \in Keys, n \in 1..2 :
              /\ log[i].key = <<k, n>> /\ log[i].sig = Batch[n]
              /\ Is(log, log[i].cause, "DECISION_RECORDED") /\ log[log[i].cause].key = <<k, 0>>
              /\ n = 2 => Holds(log, i, <<k, 1>>)
        BY <2>1
      <3>2. PICK j \in 1..(i - 1) : log[j].key = <<k, 1>>
        BY <2>3, <2>6, <3>1 DEF Holds
      <3>3. j \in 1..Len(log) /\ j < i
        BY <2>2
      <3>4. Sound(log, j) /\ log[j].key # Unkeyed
        BY <2>b, <2>4, <3>2, <3>3
      <3>5. log[j].type = "SIGNAL_EMITTED" /\ SoundSignal(log, j)
        <4>1. log[j].type = "DECISION_RECORDED" => FALSE
          BY <3>2, <3>4 DEF Sound
        <4> QED BY <3>4, <4>1 DEF Sound
      <3>6. log[j].src = "response"
        BY <3>4, <3>5 DEF SoundSignal
      <3>7. j \in sent
        BY <2>f, <3>3, <3>5, <3>6 DEF Is
      <3>8. PICK h \in Keys, m \in 1..2 :
              /\ log[j].key = <<h, m>> /\ log[j].sig = Batch[m]
              /\ Is(log, log[j].cause, "DECISION_RECORDED") /\ log[log[j].cause].key = <<h, 0>>
        BY <2>1, <3>7
      <3>9. h = k /\ m = 1
        BY <3>2, <3>8
      <3>10. log[j].cause = log[i].cause
        <4> DEFINE x == log[j].cause
                   y == log[i].cause
        <4>1. x \in 1..Len(log) /\ y \in 1..Len(log)
          BY <3>1, <3>8 DEF Is
        <4>2. log[x].key = <<k, 0>> /\ log[y].key = <<k, 0>>
          BY <3>1, <3>8, <3>9
        <4>3. <<k, 0>> # Unkeyed
          BY <2>4
        <4> HIDE DEF x, y
        <4>4. x = y
          BY <2>b, <4>1, <4>2, <4>3 DEF KeysUnique
        <4> QED BY <4>4 DEF x, y
      <3> QED BY <2>3, <3>3, <3>7, <3>8, <3>9, <3>10
    <2>7. OneOfEachSignal
      BY <2>5, <2>6 DEF OneOfEachSignal
    <2>8. ASSUME NEW j \in Of("MCP_CONTINUATION_RECORDED")
          PROVE  \E s \in Of("SIGNAL_EMITTED") :
                   /\ log[s].cause = log[j].cause /\ log[s].sig = "USER_APPROVED" /\ s < j
                   /\ log[s].state = Human => \E t \in Of("STATE_TRANSITION") : log[t].cause = s /\ t < j
      <3>1. j \in 1..Len(log) /\ Whole(log, j, log[j].cause)
        BY <2>b, <2>f DEF Sound, Is
      <3>2. \A s \in 1..(j - 1) : s < j /\ s \in 1..Len(log)
        BY <2>b, <3>1
      <3> QED BY <2>f, <3>1, <3>2 DEF Whole, Is
    <2> QED BY <2>7, <2>8 DEF ResponsesAreWhole, ReceiptsAreEarned
  <1> QED BY <1>1, Invariance, PTL

-----------------------------------------------------------------------------
(* One terminal *)

\* Only the terminal that is about to record a decision records one.
LEMMA DecisionsRecorded ==
    ASSUME Inv, NEW p \in Procs, Step(p)
    PROVE  \/ log' = log
           \/ (\E e \in Events : log' = Append(log, e) /\ e.type # "APPROVAL_DECIDED") /\ call[p].pc # "record"
           \/ RecordDecision(p) /\ call[p].op = "decision"
  <1>b. call[p] \in CallRecords /\ Typed'
    BY Basics, InvNext DEF Next, Inv
  <1>1. ASSUME NEW e, log' = Append(log, e) PROVE e \in Events
    <2>1. log \in Seq(Events) /\ log' \in Seq(Events)
      BY <1>b DEF Inv, Typed
    <2>2. Len(log') = Len(log) + 1 /\ log'[Len(log) + 1] = e /\ Len(log) + 1 \in 1..Len(log')
      BY <1>1, <2>1
    <2> QED BY <2>1, <2>2
  <1>2. ASSUME NEW e, log' = Append(log, e), e.type # "APPROVAL_DECIDED", call[p].pc # "record"
        PROVE  (\E f \in Events : log' = Append(log, f) /\ f.type # "APPROVAL_DECIDED") /\ call[p].pc # "record"
    BY <1>1, <1>2
  <1>3. CASE RecordResponse(p)
    <2> DEFINE e == [Event("DECISION_RECORDED", engine[p].state, "none", NoPayload, 0) EXCEPT !.key = <<call[p].key, 0>>]
    <2>1. e.type = "DECISION_RECORDED" /\ call[p].pc # "record"
      BY <1>3 DEF RecordResponse, Event
    <2>2. log' = log \/ log' = Append(log, e)
      BY <1>3 DEF RecordResponse, Appended
    <2> HIDE DEF e
    <2> QED BY <1>2, <2>1, <2>2
  <1>4. CASE FinishResponse(p)
    <2> DEFINE e == Event("MCP_CONTINUATION_RECORDED", engine[p].state, "none", NoPayload, call[p].cause)
    <2>1. e.type = "MCP_CONTINUATION_RECORDED" /\ call[p].pc # "record"
      BY <1>4 DEF FinishResponse, Event
    <2>2. log' = log \/ log' = Append(log, e)
      BY <1>4 DEF FinishResponse, Appended
    <2> HIDE DEF e
    <2> QED BY <1>2, <2>1, <2>2
  <1>5. CASE Emit(p)
    <2> DEFINE e == [Event("SIGNAL_EMITTED", engine[p].state, call[p].sig, call[p].payload, call[p].cause)
                        EXCEPT !.key = SignalKey(p), !.src = call[p].op]
    <2>1. e.type = "SIGNAL_EMITTED" /\ call[p].pc # "record"
      BY <1>5 DEF Emit, Event
    <2>2. log' = Append(log, e)
      BY <1>5 DEF Emit, Appended
    <2> HIDE DEF e
    <2> QED BY <1>2, <2>1, <2>2
  <1>6. CASE GuardReturns(p)
    <2> DEFINE e == Event("GUARD_EVALUATED", engine[p].state, call[p].sig, NoPayload, call[p].ev)
    <2>1. e.type = "GUARD_EVALUATED" /\ call[p].pc # "record"
      BY <1>6 DEF GuardReturns, Event
    <2>2. log' = Append(log, e)
      BY <1>6 DEF GuardReturns, Appended
    <2> HIDE DEF e
    <2> QED BY <1>2, <2>1, <2>2
  <1>7. CASE Request(p)
    <2> DEFINE e == Event("APPROVAL_REQUESTED", engine[p].state, call[p].sig, call[p].payload, call[p].ev)
    <2>1. e.type = "APPROVAL_REQUESTED" /\ call[p].pc # "record"
      BY <1>7 DEF Request, Event
    <2>2. log' = log \/ log' = Append(log, e)
      BY <1>7 DEF Request, Appended
    <2> HIDE DEF e
    <2> QED BY <1>2, <2>1, <2>2
  <1>8. CASE Refuse(p)
    <2> DEFINE e == Event("SIGNAL_REFUSED", engine[p].state, call[p].sig, NoPayload, call[p].ev)
    <2>1. e.type = "SIGNAL_REFUSED" /\ call[p].pc # "record"
      BY <1>8 DEF Refuse, Event
    <2>2. log' = Append(log, e)
      BY <1>8 DEF Refuse, Appended
    <2> HIDE DEF e
    <2> QED BY <1>2, <2>1, <2>2
  <1>9. CASE Commit(p)
    <2> DEFINE e == Event("STATE_TRANSITION", Target[engine[p].state][call[p].sig], call[p].sig, NoPayload, call[p].ev)
    <2>1. e.type = "STATE_TRANSITION" /\ call[p].pc # "record"
      BY <1>9 DEF Commit, Event
    <2>2. log' = Append(log, e)
      BY <1>9 DEF Commit
    <2> HIDE DEF e
    <2> QED BY <1>2, <2>1, <2>2
  <1>10. CASE RecordDecision(p)
    <2>1. call[p].op = "decision"
      BY <1>10, TerminalFacts DEF RecordDecision, InTerminal
    <2> QED BY <1>10, <2>1
  <1>11. CASE \/ ResponseSaved(p) \/ ResponseConflict(p) \/ NextOfBatch(p) \/ Replay(p) \/ EmitConflict(p)
              \/ Resolve(p) \/ Unhandled(p) \/ GuardConflict(p) \/ Ask(p) \/ EndSession(p) \/ Answer(p)
              \/ Decide(p) \/ DecideStale(p) \/ Reload(p) \/ Again(p)
    <2>1. log' = log
      BY <1>11 DEF ResponseSaved, ResponseConflict, NextOfBatch, Replay, EmitConflict, Resolve, Unhandled,
                   GuardConflict, Ask, EndSession, Answer, Decide, DecideStale, Reload, Again
    <2> QED BY <2>1
  <1> QED BY <1>3, <1>4, <1>5, <1>6, <1>7, <1>8, <1>9, <1>10, <1>11 DEF Step

\* A step of process p leaves the other calls alone.
LEMMA OthersStay ==
    ASSUME Typed, NEW p \in Procs, Step(p)
    PROVE  \A q \in Procs \ {p} : call'[q] = call[q]
  <1>1. call \in [Procs -> CallRecords]
    BY DEF Typed
  <1>2. ASSUME NEW x, Goto(p, x) PROVE \A q \in Procs \ {p} : call'[q] = call[q]
    BY <1>1, <1>2 DEF Goto
  <1>3. ASSUME NEW a, Tell(p, a) PROVE \A q \in Procs \ {p} : call'[q] = call[q]
    BY <1>1, <1>3 DEF Tell
  <1>4. ASSUME NEW a, Processed(p, a) PROVE \A q \in Procs \ {p} : call'[q] = call[q]
    BY <1>2, <1>3, <1>4 DEF Processed
  <1>5. ASSUME Conflict(p) PROVE \A q \in Procs \ {p} : call'[q] = call[q]
    BY <1>2, <1>3, <1>5 DEF Conflict
  <1>6. CASE ResponseSaved(p) \/ ResponseConflict(p) \/ FinishResponse(p) \/ EmitConflict(p) \/ Unhandled(p) \/ GuardConflict(p)
             \/ GuardReturns(p) \/ Request(p) \/ Refuse(p) \/ Commit(p) \/ EndSession(p) \/ Decide(p) \/ DecideStale(p) \/ Reload(p)
    BY <1>2, <1>3, <1>4, <1>5, <1>6 DEF ResponseSaved, ResponseConflict, FinishResponse, EmitConflict, Unhandled, GuardConflict,
        GuardReturns, Request, Refuse, Commit, EndSession, Decide, DecideStale, Reload
  <1>7. CASE RecordResponse(p) \/ NextOfBatch(p) \/ Replay(p) \/ Emit(p) \/ Resolve(p) \/ RecordDecision(p)
    BY <1>1, <1>7 DEF RecordResponse, NextOfBatch, Replay, Emit, Resolve, RecordDecision
  <1>8. CASE Ask(p) \/ Answer(p) \/ Again(p)
    BY <1>1, <1>3, <1>8 DEF Ask, Answer, Again
  <1> QED BY <1>6, <1>7, <1>8 DEF Step

\* Only the check that the request is still pending leads to its decision.
LEMMA OnlyDecided ==
    ASSUME Typed, NEW p \in Procs, Step(p), call'[p].pc = "record"
    PROVE  Decide(p)
  <1>1. call \in [Procs -> CallRecords] /\ call[p] \in CallRecords
    BY DEF Typed
  <1>2. ASSUME NEW x, Goto(p, x) PROVE x = "record"
    BY <1>1, <1>2 DEF Goto, CallRecords
  <1>3. ASSUME NEW a, Tell(p, a) PROVE FALSE
    BY <1>1, <1>3 DEF Tell, NoCall
  <1>4. ASSUME NEW a, Processed(p, a) PROVE FALSE
    BY <1>2, <1>3, <1>4 DEF Processed
  <1>5. ASSUME Conflict(p) PROVE FALSE
    BY <1>2, <1>3, <1>5 DEF Conflict
  <1>6. CASE ResponseSaved(p) \/ ResponseConflict(p) \/ FinishResponse(p) \/ EmitConflict(p) \/ Unhandled(p) \/ GuardConflict(p)
             \/ Refuse(p) \/ Commit(p) \/ EndSession(p)
    BY <1>3, <1>4, <1>5, <1>6 DEF ResponseSaved, ResponseConflict, FinishResponse, EmitConflict, Unhandled, GuardConflict,
        Refuse, Commit, EndSession
  <1>7. CASE GuardReturns(p) \/ Request(p) \/ DecideStale(p) \/ Reload(p)
    BY <1>2, <1>7 DEF GuardReturns, Request, DecideStale, Reload, Verdict
  <1>8. ASSUME NEW c, call' = [call EXCEPT ![p] = c], c.pc # "record" PROVE FALSE
    BY <1>1, <1>8
  <1>9. CASE RecordResponse(p)
    <2> DEFINE y == IF ResponseOf(call[p].key) # 0 THEN ResponseOf(call[p].key) ELSE Len(log')
               c == [call[p] EXCEPT !.pc = "batch", !.next = 1, !.cause = y]
    <2>1. call' = [call EXCEPT ![p] = c]
      BY <1>1, <1>9 DEF RecordResponse
    <2>2. c.pc = "batch"
      BY <1>1 DEF CallRecords
    <2> QED BY <1>8, <2>1, <2>2
  <1>10. CASE NextOfBatch(p)
    <2> DEFINE c == [call[p] EXCEPT !.pc = "emit", !.sig = Batch[call[p].next], !.next = call[p].next + 1]
    <2>1. call' = [call EXCEPT ![p] = c]
      BY <1>1, <1>10 DEF NextOfBatch
    <2>2. c.pc = "emit"
      BY <1>1 DEF CallRecords
    <2> QED BY <1>8, <2>1, <2>2
  <1>11. CASE Replay(p)
    <2> DEFINE c == [call[p] EXCEPT !.pc = "batch", !.replayed = TRUE]
    <2>1. call' = [call EXCEPT ![p] = c]
      BY <1>1, <1>11 DEF Replay
    <2>2. c.pc = "batch"
      BY <1>1 DEF CallRecords
    <2> QED BY <1>8, <2>1, <2>2
  <1>12. CASE Emit(p)
    <2> DEFINE c == [call[p] EXCEPT !.pc = "resolve", !.ev = Len(log')]
    <2>1. call' = [call EXCEPT ![p] = c]
      BY <1>1, <1>12 DEF Emit
    <2>2. c.pc = "resolve"
      BY <1>1 DEF CallRecords
    <2> QED BY <1>8, <2>1, <2>2
  <1>13. CASE Resolve(p)
    <2> DEFINE h == HumanDecision(call[p].sig, call[p].payload, call[p].cause)
               c == [call[p] EXCEPT !.pc = "guard", !.version = Len(log), !.human = h]
    <2>1. call' = [call EXCEPT ![p] = c]
      BY <1>1, <1>13 DEF Resolve
    <2>2. c.pc = "guard"
      BY <1>1 DEF CallRecords
    <2> QED BY <1>8, <2>1, <2>2
  <1>14. CASE RecordDecision(p)
    <2> DEFINE r == log[call[p].req]
               c == [call[p] EXCEPT !.pc = "emit", !.sig = r.sig, !.payload = r.payload, !.cause = Len(log')]
    <2>1. call' = [call EXCEPT ![p] = c]
      BY <1>1, <1>14 DEF RecordDecision
    <2>2. c.pc = "emit"
      BY <1>1 DEF CallRecords
    <2> QED BY <1>8, <2>1, <2>2
  <1>15. CASE Ask(p)
    <2>1. PICK i \in Pending(p) \ call[p].seen :
            call' = [call EXCEPT ![p].pc = "ask", ![p].req = i, ![p].seen = @ \cup {i}, ![p].attempt = 1]
      BY <1>15 DEF Ask
    <2> DEFINE c == [call[p] EXCEPT !.pc = "ask", !.req = i, !.seen = call[p].seen \cup {i}, !.attempt = 1]
    <2>2. call' = [call EXCEPT ![p] = c]
      BY <1>1, <2>1
    <2>3. c.pc = "ask"
      BY <1>1 DEF CallRecords
    <2> QED BY <1>8, <2>2, <2>3
  <1>16. CASE Answer(p)
    <2>1. ASSUME NEW a, call' = [call EXCEPT ![p].pc = "decide", ![p].decision = a] PROVE FALSE
      <3> DEFINE c == [call[p] EXCEPT !.pc = "decide", !.decision = a]
      <3>1. call' = [call EXCEPT ![p] = c]
        BY <1>1, <2>1
      <3>2. c.pc = "decide"
        BY <1>1 DEF CallRecords
      <3> QED BY <1>8, <3>1, <3>2
    <2> QED BY <1>3, <1>16, <2>1 DEF Answer
  <1>17. CASE Again(p)
    <2>1. ASSUME call' = [call EXCEPT ![p].pc = "decide", ![p].attempt = @ + 1] PROVE FALSE
      <3> DEFINE c == [call[p] EXCEPT !.pc = "decide", !.attempt = call[p].attempt + 1]
      <3>1. call' = [call EXCEPT ![p] = c]
        BY <1>1, <2>1
      <3>2. c.pc = "decide"
        BY <1>1 DEF CallRecords
      <3> QED BY <1>8, <3>1, <3>2
    <2> QED BY <1>3, <1>17, <2>1 DEF Again
  <1> QED BY <1>6, <1>7, <1>9, <1>10, <1>11, <1>12, <1>13, <1>14, <1>15, <1>16, <1>17 DEF Step

\* What is decided changes only when a decision is recorded.
LEMMA DecidedStays ==
    ASSUME Inv, Inv', RequestsDecidedOnce,
           log' = log \/ \E e \in Events : log' = Append(log, e) /\ e.type # "APPROVAL_DECIDED"
    PROVE  Decided' = Decided /\ RequestsDecidedOnce'
  <1>1. CASE log' = log
    BY <1>1 DEF Decided, RequestsDecidedOnce, Of
  <1>2. ASSUME NEW e \in Events, log' = Append(log, e), e.type # "APPROVAL_DECIDED"
        PROVE  Decided' = Decided /\ RequestsDecidedOnce'
    <2>1. /\ log \in Seq(Events) /\ Len(log) \in Nat /\ DOMAIN log = 1..Len(log)
          /\ Len(log') = Len(log) + 1 /\ DOMAIN log' = 1..(Len(log) + 1)
          /\ \A i \in 1..Len(log) : log'[i] = log[i]
          /\ log'[Len(log) + 1] = e
      BY <1>2, AppendFacts DEF Inv, Typed
    <2>2. Of("APPROVAL_DECIDED")' = Of("APPROVAL_DECIDED")
      <3>1. ASSUME NEW i PROVE i \in Of("APPROVAL_DECIDED")' <=> i \in Of("APPROVAL_DECIDED")
        <4>1. i \in 1..(Len(log) + 1) <=> i \in 1..Len(log) \/ i = Len(log) + 1
          BY <2>1
        <4>2. Len(log) + 1 \notin 1..Len(log)
          BY <2>1
        <4> QED BY <1>2, <2>1, <4>1, <4>2 DEF Of
      <3> QED BY <3>1
    <2>3. \A i \in Of("APPROVAL_DECIDED") : log'[i] = log[i]
      BY <2>1 DEF Of
    <2> QED BY <2>2, <2>3 DEF Decided, RequestsDecidedOnce
  <1> QED BY <1>1, <1>2

\* With one terminal a request that is about to be decided is not decided.
LEMMA OnceNext ==
    ASSUME NEW t, Terminals = {t}
    PROVE  Inv /\ Once /\ [Next]_vars => Once'
  <1> SUFFICES ASSUME Inv, Once, [Next]_vars PROVE Once'
    OBVIOUS
  <1>i. Inv'
    BY InvNext
  <1>b. Typed /\ t \in Procs /\ call \in [Procs -> CallRecords]
    BY DEF Inv, Typed, Procs
  <1>1. ASSUME log' = log \/ \E e \in Events : log' = Append(log, e) /\ e.type # "APPROVAL_DECIDED",
               call'[t].pc = "record" => call'[t] = call[t] \/ call'[t].req \notin Decided
        PROVE  Once'
    <2>1. Decided' = Decided /\ RequestsDecidedOnce'
      BY <1>1, <1>i, DecidedStays DEF Once
    <2> QED BY <1>1, <2>1 DEF Once
  <1>2. CASE UNCHANGED vars
    BY <1>1, <1>2 DEF vars
  <1>3. ASSUME NEW p \in Procs, NEW c, call' = [call EXCEPT ![p] = c], c.pc # "record", log' = log PROVE Once'
    BY <1>1, <1>3, <1>b
  <1>4. ASSUME NEW p \in Procs, Submit(p) \/ (\E k \in Keys : Respond(p, k)) \/ OpenTerminal(p) \/ Crash(p) PROVE Once'
    <2>1. log' = log
      BY <1>4 DEF Submit, Respond, OpenTerminal, Crash
    <2>2. \E c : call' = [call EXCEPT ![p] = c] /\ c.pc # "record"
      <3>1. CASE Submit(p)
        <4>1. PICK sig \in {"go", "back"}, payload \in Payloads, cause \in {0, Len(log)} :
                call' = [call EXCEPT ![p] = [NoCall EXCEPT !.pc = "emit", !.op = "signal", !.sig = sig,
                                                !.payload = IF sig = "go" THEN payload ELSE NoPayload, !.cause = cause]]
          BY <3>1 DEF Submit
        <4> DEFINE y == IF sig = "go" THEN payload ELSE NoPayload
                   c == [NoCall EXCEPT !.pc = "emit", !.op = "signal", !.sig = sig, !.payload = y, !.cause = cause]
        <4>2. c.pc = "emit"
          BY DEF NoCall
        <4>3. call' = [call EXCEPT ![p] = c]
          BY <4>1
        <4> HIDE DEF c
        <4> QED BY <4>2, <4>3
      <3>2. ASSUME NEW k \in Keys, Respond(p, k) PROVE \E c : call' = [call EXCEPT ![p] = c] /\ c.pc # "record"
        <4> DEFINE c == [NoCall EXCEPT !.pc = "respond", !.op = "response", !.key = k]
        <4>1. call' = [call EXCEPT ![p] = c]
          BY <3>2 DEF Respond
        <4>2. c.pc = "respond"
          BY DEF NoCall
        <4> HIDE DEF c
        <4> QED BY <4>1, <4>2
      <3>3. CASE OpenTerminal(p)
        <4> DEFINE c == [NoCall EXCEPT !.pc = "list", !.op = "decision"]
        <4>1. call' = [call EXCEPT ![p] = c]
          BY <3>3 DEF OpenTerminal
        <4>2. c.pc = "list"
          BY DEF NoCall
        <4> HIDE DEF c
        <4> QED BY <4>1, <4>2
      <3>4. CASE Crash(p)
        BY <3>4, IdleFits DEF Crash
      <3> QED BY <1>4, <3>1, <3>2, <3>3, <3>4
    <2> QED BY <1>3, <2>1, <2>2
  <1>5. ASSUME NEW p \in Procs, Step(p) PROVE Once'
    <2>1. CASE RecordDecision(p) /\ call[p].op = "decision"
      <3> DEFINE n == Len(log) + 1
                 e == [Event("APPROVAL_DECIDED", engine[p].state, log[call[p].req].sig, NoPayload, call[p].req)
                          EXCEPT !.req = call[p].req, !.decision = call[p].decision]
      <3>1. p = t
        BY <2>1 DEF Inv, Fitting, Procs
      <3>2. log' = Append(log, e) /\ call[p].pc = "record"
        BY <2>1 DEF RecordDecision, Appended
      <3>3. call[p].req \notin Decided
        BY <3>1, <3>2 DEF Once
      <3>4. e.req = call[p].req
        BY DEF Event
      <3> HIDE DEF e
      <3>5. /\ log \in Seq(Events) /\ Len(log) \in Nat /\ DOMAIN log = 1..Len(log)
            /\ Len(log') = n /\ DOMAIN log' = 1..n
            /\ \A i \in 1..Len(log) : log'[i] = log[i]
            /\ log'[n] = e
        <4>1. log \in Seq(Events) /\ log' \in Seq(Events)
          BY <1>i DEF Inv, Typed
        <4> QED BY <3>2, <4>1
      <3>6. \A d \in Of("APPROVAL_DECIDED")' : d = n \/ (d \in Of("APPROVAL_DECIDED") /\ log'[d] = log[d])
        BY <3>5 DEF Of
      <3>7. \A d \in Of("APPROVAL_DECIDED") : log[d].req # call[p].req
        BY <3>3 DEF Decided
      <3>8. RequestsDecidedOnce'
        BY <3>4, <3>5, <3>6, <3>7 DEF Once, RequestsDecidedOnce
      <3>9. call'[t].pc # "record"
        <4>1. call'[t].pc = "record" => Decide(t)
          BY <1>5, <1>b, <3>1, OnlyDecided
        <4> QED BY <3>1, <3>2, <4>1 DEF Decide
      <3> QED BY <3>8, <3>9 DEF Once
    <2>2. CASE ~RecordDecision(p)
      <3>1. log' = log \/ \E e \in Events : log' = Append(log, e) /\ e.type # "APPROVAL_DECIDED"
        BY <1>5, <2>2, DecisionsRecorded
      <3>2. call'[t].pc = "record" => call'[t] = call[t] \/ call'[t].req \notin Decided
        <4>1. CASE p # t
          BY <1>5, <1>b, <4>1, OthersStay
        <4>2. CASE p = t
          <5> SUFFICES ASSUME call'[t].pc = "record" PROVE call'[t].req \notin Decided
            OBVIOUS
          <5>1. Decide(t)
            BY <1>5, <1>b, <4>2, OnlyDecided
          <5>2. call[t].req \notin Decided
            BY <5>1 DEF Decide, Pending
          <5>3. call'[t].req = call[t].req
            BY <1>b, <5>1 DEF Decide, Goto, CallRecords
          <5> QED BY <5>2, <5>3
        <4> QED BY <4>1, <4>2
      <3> QED BY <1>1, <3>1, <3>2
    <2> QED BY <1>5, <2>1, <2>2, TerminalFacts DEF RecordDecision, InTerminal
  <1> QED BY <1>2, <1>4, <1>5 DEF Next, Procs

\* With one terminal: a request is decided once, however often the approve command is run, cut
\* off and retried (approve.ts), and the decision moves the run once.
THEOREM RequestsDecided == (\E t : Terminals = {t}) => (Spec => []DecidedOnce)
  <1> SUFFICES ASSUME NEW t, Terminals = {t} PROVE Spec => []DecidedOnce
    OBVIOUS
  <1>1. Init => Once
    <2> SUFFICES ASSUME Init PROVE Once
      OBVIOUS
    <2>1. Inv
      BY InvInit
    <2>2. Of("APPROVAL_DECIDED") = {}
      BY DEF Init, Of, Event
    <2>3. \A p \in Procs : call[p].pc # "record"
      BY IdleFits DEF Init
    <2> QED BY <2>2, <2>3 DEF Once, RequestsDecidedOnce, Procs
  <1>2. Inv /\ Once /\ [Next]_vars => Once'
    BY OnceNext
  <1>3. Spec => []Once
    BY <1>1, <1>2, Invariance, PTL DEF Spec
  <1>4. Spec => []RequestsDecidedOnce
    BY <1>3, PTL DEF Once
  <1> QED BY <1>4, TypesHold, DecisionsCount, PTL DEF DecidedOnce
====
