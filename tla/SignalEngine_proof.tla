---- MODULE SignalEngine_proof ----
(***************************************************************************)
(* Theorems about SignalEngine for any number of processes, keys, signals   *)
(* and any skill: its types, one submission per key, one settlement per     *)
(* submission, the promise of KeyedSubmissions that it implements, what     *)
(* the ledger says of a decision, and, for one process, that an engine and  *)
(* its snapshots are where the history leads.                               *)
(*                                                                          *)
(* The ledger never forgets, so for a decision it is enough that it has its *)
(* reasons when it is appended (Explained) and that a call in flight only   *)
(* knows of guards that it has recorded (Reasons): the levels under the one *)
(* that it has reached failed, and the one that let it move is in the       *)
(* ledger.                                                                  *)
(*                                                                          *)
(* An engine is between what it has read and what it has appended, so       *)
(* Faithful says at each point of a call which part of its context the      *)
(* ledger has accepted: all of it between calls, what was there before      *)
(* while a signal is decided.  Led and Holds are of a prefix of the ledger, *)
(* because the same is true of a snapshot at its sequence.                  *)
(*                                                                          *)
(* All of these are in terms of a ledger that is a parameter, so that a     *)
(* lemma about Append carries them over an event of another engine.         *)
(***************************************************************************)
EXTENDS SignalEngine, SetFacts

-----------------------------------------------------------------------------
(* Appending *)

\* What appending one event to a ledger leaves behind.
LEMMA AppendFacts ==
    ASSUME NEW l \in Seq(Events), NEW e \in Events
    PROVE  /\ Append(l, e) \in Seq(Events)
           /\ Len(Append(l, e)) = Len(l) + 1
           /\ DOMAIN Append(l, e) = 1..(Len(l) + 1)
           /\ DOMAIN l = 1..Len(l)
           /\ \A i \in 1..Len(l) : Append(l, e)[i] = l[i]
           /\ Append(l, e)[Len(l) + 1] = e
  OBVIOUS

\* Events are built from a known type, key, cause, level and two states.
LEMMA EventTyped ==
    ASSUME NEW t \in EventTypes, NEW k \in Keys \cup {NoKey}, NEW c \in Nat,
           NEW l \in {0} \cup Levels, NEW a \in States, NEW b \in States
    PROVE  Event(t, k, c, l, a, b) \in Events
  BY DEF Event, Events

-----------------------------------------------------------------------------
(* Types *)

\* A guard is only awaited on a transition that the skill declares.
GuardIsDeclared == \A p \in Procs : pc[p] \in {"guard", "guarded"} => Edge(p) \in DOMAIN Target

TypeInv == TypeOK /\ GuardIsDeclared

LEMMA TypeInit == Init => TypeInv
  <1> SUFFICES ASSUME Init PROVE TypeInv
    OBVIOUS
  <1> USE ConstantsAssumption DEF Init
  <1>1. NoJob \in Jobs
    BY DEF NoJob, Jobs
  <1>2. TypeOK
    BY <1>1 DEF TypeOK, Pcs
  <1>3. GuardIsDeclared
    BY DEF GuardIsDeclared
  <1> QED BY <1>2, <1>3 DEF TypeInv

\* Recording an event keeps the ledger and the store's bookkeeping typed.
LEMMA AppendTyped ==
    ASSUME TypeOK, NEW p \in Procs, NEW e \in Events, Append1(p, e)
    PROVE  /\ log' \in Seq(Events)
           /\ seqCounter' \in [Procs -> Nat]
           /\ extSeen' \in [Procs -> BOOLEAN]
           /\ log' = Append(log, e)
           /\ DOMAIN log' = 1..(Len(log) + 1)
           /\ Len(log) \in Nat /\ DOMAIN log = 1..Len(log)
           /\ Len(log') = Len(log) + 1
           /\ \A i \in 1..Len(log) : log'[i] = log[i]
           /\ log'[Len(log) + 1] = e
  BY AppendFacts DEF TypeOK, Append1

\* Every recorded event is typed.
LEMMA LedgerTyped ==
    ASSUME TypeOK, NEW i \in DOMAIN log
    PROVE  /\ i \in Nat \ {0} /\ i <= Len(log)
           /\ log[i].type \in EventTypes /\ log[i].key \in Keys \cup {NoKey} /\ log[i].cause \in Nat
           /\ log[i].level \in {0} \cup Levels /\ log[i].from \in States /\ log[i].to \in States
  <1>1. log[i] \in Events
    BY DEF TypeOK
  <1>2. i \in 1..Len(log)
    BY DEF TypeOK
  <1> QED BY <1>1, <1>2 DEF Events, TypeOK

\* The updates of a call in progress keep it typed.
LEMMA JobLevelTyped ==
    ASSUME NEW j \in Jobs, NEW l \in 1..3, NEW v \in Nat
    PROVE  [j EXCEPT !.level = l, !.version = v] \in Jobs
  BY Zenon DEF Jobs

LEMMA JobFailedTyped ==
    ASSUME NEW j \in Jobs, NEW l \in 1..3
    PROVE  [j EXCEPT !.level = l, !.failed = TRUE] \in Jobs
  BY Zenon DEF Jobs

LEMMA JobAnswerTyped ==
    ASSUME NEW j \in Jobs, NEW g \in {"passed", "failed", "fallback"}, NEW t \in States
    PROVE  [j EXCEPT !.guard = g, !.target = t] \in Jobs
  BY Zenon DEF Jobs

LEMMA JobSubTyped ==
    ASSUME NEW j \in Jobs, NEW s \in Nat
    PROVE  [j EXCEPT !.sub = s] \in Jobs
  BY Zenon DEF Jobs

LEMMA TypeStep == TypeInv /\ [Next]_vars => TypeInv'
  <1> SUFFICES ASSUME TypeInv, [Next]_vars PROVE TypeInv'
    OBVIOUS
  <1> USE ConstantsAssumption
  <1>0. NoJob \in Jobs
    BY DEF NoJob, Jobs
  <1>t. TypeOK /\ GuardIsDeclared
    BY DEF TypeInv
  <1>1. CASE UNCHANGED vars
    BY <1>t, <1>1 DEF TypeInv, TypeOK, GuardIsDeclared, Edge, vars
  <1>2. ASSUME NEW p \in Procs, OpenStore(p) PROVE TypeInv'
    BY <1>t, <1>2 DEF TypeInv, TypeOK, GuardIsDeclared, Edge, OpenStore, Goto, Pcs, ledgerVars, bounds
  <1>3. ASSUME NEW p \in Procs, Rehydrate(p) PROVE TypeInv'
    <2>1. state' \in [Procs -> States]
      <3>1. \A i \in StateEvents(log) : log[i].to \in States
        BY <1>t, LedgerTyped DEF StateEvents
      <3> QED BY <1>t, <1>3, <3>1 DEF Rehydrate, TypeOK
    <2> DEFINE later == {i \in StateEvents(log) : i > snapshot.seq}
               causes == {log[i].cause : i \in {j \in later : log[j].type = "STATE_TRANSITION"}}
    <2>2. \A i \in later : log[i].cause \in Nat
      BY <1>t, LedgerTyped DEF StateEvents
    <2>3. causes \subseteq Nat /\ snapshot.ctx \subseteq Nat
      BY <1>t, <2>2 DEF TypeOK
    <2>4. ctx' = [ctx EXCEPT ![p] = snapshot.ctx \cup causes]
      BY <1>3 DEF Rehydrate
    <2> HIDE DEF causes
    <2>5. ctx' \in [Procs -> SUBSET Nat]
      BY <1>t, <2>3, <2>4 DEF TypeOK
    <2> QED
      BY <1>t, <1>3, <2>1, <2>5 DEF TypeInv, TypeOK, GuardIsDeclared, Edge, Rehydrate, Goto, Pcs, ledgerVars, bounds
  <1>4. ASSUME NEW p \in Procs, DecideBoot(p) PROVE TypeInv'
    BY <1>t, <1>4 DEF TypeInv, TypeOK, GuardIsDeclared, Edge, DecideBoot, Goto, Pcs, ledgerVars, bounds
  <1>5. ASSUME NEW p \in Procs, Boot(p) PROVE TypeInv'
    <2>1. Event("SKILL_INITIALIZED", NoKey, 0, 0, InitialState, InitialState) \in Events
      BY EventTyped DEF EventTypes
    <2> QED
      BY <1>t, <1>5, <2>1, AppendTyped DEF TypeInv, TypeOK, GuardIsDeclared, Edge, Boot, Goto, Pcs, bounds
  <1>6. ASSUME NEW p \in Procs, BootSnapshot(p) PROVE TypeInv'
    BY <1>t, <1>6 DEF TypeInv, TypeOK, GuardIsDeclared, Edge, BootSnapshot, SaveSnapshot, Goto, Pcs, engineVars, bounds
  <1>7. ASSUME NEW p \in Procs, NEW k \in Keys \cup {NoKey}, Submit(p, k) PROVE TypeInv'
    <2>1. ASSUME NEW s \in Existing(k), Replay(p, s) PROVE TypeInv'
      <3>1. s \in Nat /\ ReplayVerdict(s) \in Verdicts
        BY <1>t DEF TypeOK, Existing, ReplayVerdict, Verdicts
      <3> QED
        BY SMTT(20), <1>0, <1>t, <1>7, <2>1, <3>1
           DEF TypeInv, TypeOK, GuardIsDeclared, Edge, Submit, Replay, Answer, Goto, Pcs, ledgerVars, engineVars
    <2>2. CASE /\ job' = [job EXCEPT ![p] = [NoJob EXCEPT !.key = k, !.prev = state[p], !.before = ctx[p]]]
               /\ Goto(p, "looked_up")
               /\ UNCHANGED answers
      <3>1. [NoJob EXCEPT !.key = k, !.prev = state[p], !.before = ctx[p]] \in Jobs
        BY <1>0, <1>t DEF TypeOK, Jobs
      <3> HIDE DEF NoJob
      <3> QED
        BY <1>t, <1>7, <2>2, <3>1
           DEF TypeInv, TypeOK, GuardIsDeclared, Edge, Submit, Goto, Pcs, ledgerVars, engineVars
    <2> QED BY <1>7, <2>1, <2>2 DEF Submit
  <1>8. ASSUME NEW p \in Procs, AssertCurrent(p) PROVE TypeInv'
    <2>1. PICK j \in Jobs, where \in {"idle", "checked"} : job' = [job EXCEPT ![p] = j] /\ pc' = [pc EXCEPT ![p] = where]
      <3>1. \/ job' = [job EXCEPT ![p] = NoJob] /\ pc' = [pc EXCEPT ![p] = "idle"]
            \/ job' = job /\ pc' = [pc EXCEPT ![p] = "checked"]
        BY <1>8 DEF AssertCurrent, Goto
      <3>2. job[p] \in Jobs /\ job = [job EXCEPT ![p] = job[p]]
        BY <1>t DEF TypeOK
      <3> QED BY <1>0, <3>1, <3>2
    <2>2. UNCHANGED <<ledgerVars, engineVars, answers, bounds>> /\ where \in Pcs
      BY <1>8 DEF AssertCurrent, Pcs
    <2>3. TypeOK'
      BY <1>t, <2>1, <2>2 DEF TypeOK, ledgerVars, engineVars, bounds
    <2>4. GuardIsDeclared'
      BY <1>t, <2>1 DEF TypeOK, GuardIsDeclared, Edge
    <2> QED BY <2>3, <2>4 DEF TypeInv
  <1>9. ASSUME NEW p \in Procs, EmitSignal(p) PROVE TypeInv'
    <2>1. Event("SIGNAL_EMITTED", job[p].key, 0, 0, job[p].prev, job[p].prev) \in Events
      BY <1>t, EventTyped DEF EventTypes, TypeOK, Jobs
    <2>2. Len(log) + 1 \in Nat /\ job[p] \in Jobs
      BY <1>t DEF TypeOK
    <2>3. [job[p] EXCEPT !.sub = Len(log) + 1] \in Jobs
      BY <2>2, JobSubTyped
    <2>4. job' = [job EXCEPT ![p] = [job[p] EXCEPT !.sub = Len(log) + 1]]
      BY <1>t, <1>9 DEF EmitSignal, TypeOK
    <2>5. job' \in [Procs -> Jobs]
      BY <1>t, <2>3, <2>4 DEF TypeOK
    <2>6. GuardIsDeclared'
      BY <1>t, <1>9 DEF TypeOK, GuardIsDeclared, Edge, EmitSignal, Goto
    <2> QED
      BY <1>t, <1>9, <2>1, <2>2, <2>5, <2>6, AppendTyped DEF TypeInv, TypeOK, EmitSignal, Goto, Pcs, bounds
  <1>10. ASSUME NEW p \in Procs, EmitDuplicate(p) PROVE TypeInv'
    <2>1. PICK s \in Existing(job[p].key) :
             /\ seqCounter' = [seqCounter EXCEPT ![p] = IF s > @ THEN s ELSE @]
             /\ Replay(p, s)
      BY <1>10 DEF EmitDuplicate
    <2>2. s \in Nat /\ ReplayVerdict(s) \in Verdicts
      BY <1>t DEF TypeOK, Existing, ReplayVerdict, Verdicts
    <2> QED
      BY <1>0, <1>t, <1>10, <2>1, <2>2
         DEF TypeInv, TypeOK, GuardIsDeclared, Edge, EmitDuplicate, Replay, Answer, Goto, Pcs, ledgerVars, bounds
  <1>11. ASSUME NEW p \in Procs, StartGuard(p) PROVE TypeInv'
    <2>1. PICK l \in Handles(p) : job' = [job EXCEPT ![p].level = l, ![p].version = Len(log)]
      BY <1>11 DEF StartGuard
    <2>2. l \in Levels /\ <<job[p].prev, l>> \in DOMAIN Target
      BY DEF Handles
    <2>3. job' = [job EXCEPT ![p] = [job[p] EXCEPT !.level = l, !.version = Len(log)]]
      BY <1>t, <2>1 DEF TypeOK
    <2>4. [job[p] EXCEPT !.level = l, !.version = Len(log)] \in Jobs
      <3>1. l \in 1..3 /\ Len(log) \in Nat /\ job[p] \in Jobs
        BY <1>t, <2>2 DEF TypeOK, Levels
      <3> QED BY <3>1, JobLevelTyped
    <2>5. job' \in [Procs -> Jobs] /\ Edge(p)' = <<job[p].prev, l>>
      BY <1>t, <2>3, <2>4 DEF TypeOK, Jobs, Edge
    <2>6. \A q \in Procs \ {p} : job'[q] = job[q] /\ pc'[q] = pc[q]
      BY <1>t, <1>11, <2>3 DEF TypeOK, StartGuard, Goto
    <2>7. GuardIsDeclared'
      BY <1>t, <2>2, <2>5, <2>6 DEF GuardIsDeclared, Edge
    <2> QED
      BY <1>t, <1>11, <2>5, <2>7 DEF TypeInv, TypeOK, StartGuard, Goto, Pcs, ledgerVars, engineVars, bounds
  <1>12. ASSUME NEW p \in Procs, GuardReturns(p) PROVE TypeInv'
    <2>1. PICK a \in GuardAnswers(p) : job' = [job EXCEPT ![p].guard = a[1], ![p].target = a[2]]
      BY <1>12 DEF GuardReturns
    <2>2. Edge(p) \in DOMAIN Target
      BY <1>t, <1>12 DEF GuardIsDeclared, GuardReturns
    <2>3. a[1] \in {"passed", "failed", "fallback"} /\ a[2] \in States
      BY <1>t, <2>2 DEF GuardAnswers, TypeOK, Jobs
    <2>4. job' = [job EXCEPT ![p] = [job[p] EXCEPT !.guard = a[1], !.target = a[2]]]
      BY <1>t, <2>1 DEF TypeOK
    <2>5. [job[p] EXCEPT !.guard = a[1], !.target = a[2]] \in Jobs
      BY <1>t, <2>3, JobAnswerTyped DEF TypeOK
    <2>6. job' \in [Procs -> Jobs]
      BY <1>t, <2>4, <2>5 DEF TypeOK
    <2>7. \A q \in Procs : job'[q].prev = job[q].prev /\ job'[q].level = job[q].level
      BY <1>t, <2>4 DEF TypeOK, Jobs
    <2>8. \A q \in Procs : pc'[q] = IF q = p THEN "guarded" ELSE pc[q]
      BY <1>t, <1>12 DEF TypeOK, GuardReturns, Goto
    <2>9. GuardIsDeclared'
      BY <1>t, <2>2, <2>7, <2>8 DEF GuardIsDeclared, Edge
    <2> QED
      BY <1>t, <1>12, <2>6, <2>9 DEF TypeInv, TypeOK, GuardReturns, Goto, Pcs, ledgerVars, engineVars, bounds
  <1>13. ASSUME NEW p \in Procs, GuardConflict(p) PROVE TypeInv'
    BY <1>0, <1>t, <1>13 DEF TypeInv, TypeOK, GuardIsDeclared, Edge, GuardConflict, Goto, Pcs, ledgerVars, engineVars, bounds
  <1>14. ASSUME NEW p \in Procs, RecordGuard(p) PROVE TypeInv'
    <2> DEFINE e == Event(GuardEvent(job[p].guard), NoKey, job[p].sub, job[p].level, job[p].prev, job[p].prev)
    <2>1. GuardEvent(job[p].guard) \in EventTypes
      BY <1>t DEF TypeOK, Jobs, GuardEvent, EventTypes
    <2>2. job[p].level \in Levels
      BY <1>t, <1>14 DEF GuardIsDeclared, RecordGuard, Edge
    <2>3. e \in Events
      BY <1>t, <2>1, <2>2, EventTyped DEF TypeOK, Jobs
    <2>4. Append1(p, e)
      BY <1>14 DEF RecordGuard
    <2>5. CASE job' = [job EXCEPT ![p].level = @ + 1, ![p].failed = TRUE] /\ Goto(p, "routing")
      <3>0. job[p] \in Jobs /\ job[p].level + 1 \in 1..3
        BY <1>t, <2>2 DEF TypeOK, Levels
      <3>1. [job[p] EXCEPT !.level = @ + 1, !.failed = TRUE] \in Jobs
        BY <3>0, JobFailedTyped
      <3> HIDE DEF e
      <3>2. job' \in [Procs -> Jobs]
        BY <1>t, <2>5, <3>1 DEF TypeOK
      <3>3. GuardIsDeclared'
        BY <1>t, <2>5 DEF TypeOK, GuardIsDeclared, Edge, Goto
      <3> QED
        BY <1>t, <1>14, <2>3, <2>4, <2>5, <3>2, <3>3, AppendTyped DEF TypeInv, TypeOK, RecordGuard, Goto, Pcs, bounds
    <2>6. CASE Goto(p, "accepted") /\ UNCHANGED job
      <3> HIDE DEF e
      <3> QED
        BY <1>t, <1>14, <2>3, <2>4, <2>6, AppendTyped
           DEF TypeInv, TypeOK, GuardIsDeclared, Edge, RecordGuard, Goto, Pcs, bounds
    <2> QED BY <1>14, <2>5, <2>6 DEF RecordGuard
  <1>15. ASSUME NEW p \in Procs, Transition(p) PROVE TypeInv'
    <2>1. Event("STATE_TRANSITION", NoKey, job[p].sub, 0, job[p].prev, job[p].target) \in Events
      BY <1>t, EventTyped DEF EventTypes, TypeOK, Jobs
    <2> QED
      BY <1>t, <1>15, <2>1, AppendTyped DEF TypeInv, TypeOK, GuardIsDeclared, Edge, Transition, Goto, Pcs, Jobs, bounds
  <1>16. ASSUME NEW p \in Procs, TransitionSnapshot(p) PROVE TypeInv'
    BY SMTT(20), <1>0, <1>t, <1>16
       DEF TypeInv, TypeOK, GuardIsDeclared, Edge, TransitionSnapshot, SaveSnapshot, Answer, Verdicts, Goto, Pcs, Jobs, engineVars, bounds
  <1>17. ASSUME NEW p \in Procs, Refuse(p) PROVE TypeInv'
    <2>1. Event("SIGNAL_REFUSED", NoKey, job[p].sub, 0, job[p].prev, job[p].prev) \in Events
      BY <1>t, EventTyped DEF EventTypes, TypeOK, Jobs
    <2>2. ctx' \in [Procs -> SUBSET Nat] /\ answers' \subseteq Nat \X Verdicts
      BY <1>t, <1>17 DEF Refuse, Answer, Verdicts, TypeOK, Jobs
    <2> QED
      BY <1>0, <1>t, <1>17, <2>1, <2>2, AppendTyped DEF TypeInv, TypeOK, GuardIsDeclared, Edge, Refuse, Goto, Pcs, bounds
  <1>18. ASSUME NEW p \in Procs, Unhandled(p) PROVE TypeInv'
    <2>1. ctx' \in [Procs -> SUBSET Nat] /\ answers' \subseteq Nat \X Verdicts
      BY <1>t, <1>18 DEF Unhandled, Answer, Verdicts, TypeOK, Jobs
    <2> QED
      BY <1>0, <1>t, <1>18, <2>1 DEF TypeInv, TypeOK, GuardIsDeclared, Edge, Unhandled, Goto, Pcs, ledgerVars, bounds
  <1>19. ASSUME NEW p \in Procs, DeliverView(p) PROVE TypeInv'
    <2>1. Event("AGENT_TURN_STARTED", NoKey, 0, 0, state[p], state[p]) \in Events
      BY <1>t, EventTyped DEF EventTypes, TypeOK
    <2> QED
      BY <1>t, <1>19, <2>1, AppendTyped DEF TypeInv, TypeOK, GuardIsDeclared, Edge, DeliverView
  <1>20. ASSUME NEW p \in Procs, Crash(p) PROVE TypeInv'
    BY <1>0, <1>t, <1>20 DEF TypeInv, TypeOK, GuardIsDeclared, Edge, Crash, Goto, Pcs, ledgerVars
  <1> QED
    BY <1>1, <1>2, <1>3, <1>4, <1>5, <1>6, <1>7, <1>8, <1>9, <1>10, <1>11, <1>12, <1>13, <1>14, <1>15,
       <1>16, <1>17, <1>18, <1>19, <1>20 DEF Next, Load, Work

LEMMA TypeInvariant == Spec => []TypeInv
  BY TypeInit, TypeStep, PTL DEF Spec

\* Every variable keeps its type, whatever the skill and however many processes.
THEOREM TypeCorrect == Spec => []TypeOK
  BY TypeInvariant, PTL DEF TypeInv

-----------------------------------------------------------------------------
(* Settlement: who owns a submission, and how it is decided *)

InCall == {"routing", "guard", "guarded", "accepted", "moved"}
Undecided == {"routing", "guard", "guarded", "accepted"}
Searching == {"routing", "guard", "guarded"}
Settling == {"STATE_TRANSITION", "SIGNAL_REFUSED"}
GuardTypes == {"GUARD_PASSED", "GUARD_FAILED", "GUARD_FALLBACK"}

\* An event is caused by an earlier one.
CausesPrecede == \A i \in DOMAIN log : log[i].cause < i

\* A call works on a submission that it recorded, and that no other call works on.
CallsOwnTheirSignal == \A p \in Procs : pc[p] \in InCall => job[p].sub \in Submissions

OneOwner ==
    \A p, q \in Procs : pc[p] \in InCall /\ pc[q] \in InCall /\ job[p].sub = job[q].sub => p = q

\* A submission still being decided has not been settled, and its guards so far are
\* those of the levels below the one it has reached.
UndecidedIsOpen ==
    \A p \in Procs : pc[p] \in Undecided =>
        \A i \in DOMAIN log : log[i].type \in Settling => log[i].cause # job[p].sub

GuardedBelow ==
    \A p \in Procs : pc[p] \in Searching =>
        \A i \in DOMAIN log :
            log[i].type \in GuardTypes /\ log[i].cause = job[p].sub => log[i].level < job[p].level

\* A submission is accepted once or refused once, never both.
OneSettlement ==
    \A i, j \in DOMAIN log :
        log[i].type \in Settling /\ log[j].type \in Settling /\ log[i].cause = log[j].cause => i = j

Settlement ==
    /\ CausesPrecede /\ CallsOwnTheirSignal /\ OneOwner
    /\ UndecidedIsOpen /\ GuardedBelow
    /\ OneSettlement /\ OneSubmissionPerKey /\ OneGuardPerLevel

\* A step that lets every call keep its submission or drop it, that records nothing or
\* an event of no submission, and that tells only what is already decided.
Neutral ==
    /\ \/ log' = log
       \/ \E e \in Events :
             /\ log' = Append(log, e)
             /\ e.type \in {"SKILL_INITIALIZED", "AGENT_TURN_STARTED"} /\ e.cause = 0
    /\ \A q \in Procs :
          /\ pc'[q] \in InCall => pc[q] \in InCall /\ job'[q].sub = job[q].sub
          /\ pc'[q] \in Undecided => pc[q] \in Undecided
          /\ pc'[q] \in Searching => pc[q] \in Searching /\ job[q].level <= job'[q].level
          /\ pc'[q] = "moved" => pc[q] = "moved"
    /\ \A a \in answers' \ answers :
          \/ a[2] \in {"replayed", "replayed_refusal"}
          \/ \E q \in Procs : pc[q] = "moved" /\ a = <<job[q].sub, "accepted">>
          \/ \E q \in Procs : pc[q] \in Undecided /\ pc'[q] \notin InCall /\ a = <<job[q].sub, "unhandled">>

LEMMA NeutralStep == TypeOK /\ TypeOK' /\ Settlement /\ Neutral => Settlement'
  <1> SUFFICES ASSUME TypeOK, TypeOK', Settlement, Neutral PROVE Settlement'
    OBVIOUS
  <1> DEFINE Extended ==
        /\ DOMAIN log \subseteq DOMAIN log'
        /\ \A i \in DOMAIN log : log'[i] = log[i]
        /\ \A i \in DOMAIN log' \ DOMAIN log :
              log'[i].type \in {"SKILL_INITIALIZED", "AGENT_TURN_STARTED"} /\ log'[i].cause = 0 /\ i \in Nat \ {0}
  <1>1. Extended
    <2>1. CASE log' = log
      BY <2>1
    <2>2. ASSUME NEW e \in Events, log' = Append(log, e), e.cause = 0,
                 e.type \in {"SKILL_INITIALIZED", "AGENT_TURN_STARTED"}
          PROVE  Extended
      <3>1. log \in Seq(Events)
        BY DEF TypeOK
      <3> QED BY <2>2, <3>1, AppendFacts
    <2> QED BY <2>1, <2>2 DEF Neutral
  <1>2. \A q \in Procs : job[q].level \in Nat /\ job'[q].level \in Nat
    <2>1. \A q \in Procs : job[q] \in Jobs /\ job'[q] \in Jobs
      BY DEF TypeOK
    <2>2. \A j \in Jobs : j.level \in 1..3
      BY DEF Jobs
    <2> QED BY <2>1, <2>2
  <1>3. \A i \in DOMAIN log : log[i].level \in Nat
    BY LedgerTyped DEF Levels
  <1>4. CausesPrecede'
    BY <1>1 DEF Settlement, CausesPrecede
  <1>5. CallsOwnTheirSignal'
    BY <1>1 DEF Settlement, CallsOwnTheirSignal, Neutral, Submissions, Positions
  <1>6. OneOwner'
    BY DEF Settlement, OneOwner, Neutral
  <1>7. UndecidedIsOpen'
    BY <1>1 DEF Settlement, UndecidedIsOpen, Neutral, Settling, Undecided, InCall
  <1>8. GuardedBelow'
    BY <1>1, <1>2, <1>3 DEF Settlement, GuardedBelow, Neutral, GuardTypes, Searching, InCall
  <1>9. OneSettlement'
    BY <1>1 DEF Settlement, OneSettlement, Settling
  <1>10. OneSubmissionPerKey'
    BY <1>1 DEF Settlement, OneSubmissionPerKey, Submissions, Positions
  <1>11. OneGuardPerLevel'
    BY <1>1 DEF Settlement, OneGuardPerLevel
  <1> QED BY <1>4, <1>5, <1>6, <1>7, <1>8, <1>9, <1>10, <1>11 DEF Settlement

\* Recording the signal gives the call a fresh submission under a fresh key.
LEMMA EmitStep ==
    ASSUME TypeOK, TypeOK', Settlement, NEW p \in Procs, EmitSignal(p)
    PROVE  Settlement'
  <1> DEFINE e == Event("SIGNAL_EMITTED", job[p].key, 0, 0, job[p].prev, job[p].prev)
             n == Len(log) + 1
  <1>1. e \in Events /\ Append1(p, e)
    BY EventTyped DEF EventTypes, TypeOK, Jobs, EmitSignal
  <1>2. e.type = "SIGNAL_EMITTED" /\ e.cause = 0 /\ e.key = job[p].key
    BY DEF Event
  <1> HIDE DEF e
  <1>3. /\ Len(log) \in Nat /\ DOMAIN log = 1..Len(log) /\ DOMAIN log' = 1..n
        /\ \A i \in 1..Len(log) : log'[i] = log[i]
        /\ log'[n] = e
    BY <1>1, AppendTyped
  <1>4. \A i \in DOMAIN log : log[i].cause \in Nat /\ log[i].cause < i /\ i <= Len(log)
    BY LedgerTyped DEF Settlement, CausesPrecede
  <1>5. /\ pc'[p] = "routing" /\ job'[p].sub = n
        /\ \A q \in Procs \ {p} : pc'[q] = pc[q] /\ job'[q] = job[q]
    BY DEF EmitSignal, Goto, TypeOK, Jobs
  <1>6. \A q \in Procs \ {p} : pc[q] \in InCall => job[q].sub \in 1..Len(log)
    BY <1>3 DEF Settlement, CallsOwnTheirSignal, Submissions, Positions
  <1>7. CausesPrecede'
    BY <1>2, <1>3, <1>4 DEF CausesPrecede
  <1>8. CallsOwnTheirSignal'
    BY <1>2, <1>3, <1>5 DEF Settlement, CallsOwnTheirSignal, Submissions, Positions
  <1>9. OneOwner'
    BY <1>3, <1>5, <1>6 DEF Settlement, OneOwner
  <1>10. UndecidedIsOpen'
    BY <1>2, <1>3, <1>4, <1>5 DEF Settlement, UndecidedIsOpen, Settling
  <1>11. GuardedBelow'
    BY <1>2, <1>3, <1>4, <1>5 DEF Settlement, GuardedBelow, GuardTypes
  <1>12. OneSettlement'
    BY <1>2, <1>3 DEF Settlement, OneSettlement, Settling
  <1>13. OneSubmissionPerKey'
    <2>1. \A i \in DOMAIN log : job[p].key # NoKey => log[i].key # job[p].key
      BY DEF EmitSignal, Existing
    <2> QED BY <1>2, <1>3, <2>1 DEF Settlement, OneSubmissionPerKey, Submissions, Positions
  <1>14. OneGuardPerLevel'
    BY <1>2, <1>3 DEF Settlement, OneGuardPerLevel
  <1> QED BY <1>7, <1>8, <1>9, <1>10, <1>11, <1>12, <1>13, <1>14 DEF Settlement

\* Recording a guard is the first word of its level on the submission.
LEMMA GuardStep ==
    ASSUME TypeOK, TypeOK', GuardIsDeclared, Settlement, NEW p \in Procs, RecordGuard(p)
    PROVE  Settlement'
  <1> DEFINE e == Event(GuardEvent(job[p].guard), NoKey, job[p].sub, job[p].level, job[p].prev, job[p].prev)
             n == Len(log) + 1
  <1>0. job[p].level \in Levels
    BY ConstantsAssumption DEF GuardIsDeclared, RecordGuard, Edge
  <1>1. GuardEvent(job[p].guard) \in GuardTypes
    BY DEF TypeOK, Jobs, GuardEvent, GuardTypes
  <1>2. e \in Events /\ Append1(p, e)
    BY <1>0, <1>1, EventTyped DEF EventTypes, GuardTypes, TypeOK, Jobs, RecordGuard
  <1>3. e.type \in GuardTypes /\ e.cause = job[p].sub /\ e.level = job[p].level
    BY <1>1 DEF Event
  <1> HIDE DEF e
  <1>4. /\ Len(log) \in Nat /\ DOMAIN log = 1..Len(log) /\ DOMAIN log' = 1..n
        /\ \A i \in 1..Len(log) : log'[i] = log[i]
        /\ log'[n] = e
    BY <1>2, AppendTyped
  <1>5. pc[p] = "guarded" /\ job[p].sub \in 1..Len(log)
    BY <1>4 DEF RecordGuard, Settlement, CallsOwnTheirSignal, Submissions, Positions, InCall
  <1>6. /\ job'[p].sub = job[p].sub
        /\ pc'[p] = "routing" => job'[p].level = job[p].level + 1
        /\ pc'[p] \in {"routing", "accepted"}
        /\ \A q \in Procs \ {p} : pc'[q] = pc[q] /\ job'[q] = job[q]
    BY DEF RecordGuard, Goto, TypeOK, Jobs
  <1>7. \A i \in DOMAIN log : log[i].level \in Nat
    BY LedgerTyped DEF Levels
  <1>8. \A i \in DOMAIN log : log[i].type \in GuardTypes /\ log[i].cause = job[p].sub => log[i].level < job[p].level
    BY <1>5 DEF Settlement, GuardedBelow, Searching
  <1>9. CausesPrecede'
    BY <1>3, <1>4, <1>5 DEF Settlement, CausesPrecede
  <1>10. CallsOwnTheirSignal'
    BY <1>4, <1>5, <1>6 DEF Settlement, CallsOwnTheirSignal, Submissions, Positions, InCall
  <1>11. OneOwner'
    BY <1>5, <1>6 DEF Settlement, OneOwner, InCall
  <1>12. UndecidedIsOpen'
    BY <1>3, <1>4, <1>5, <1>6 DEF Settlement, UndecidedIsOpen, Settling, GuardTypes, Undecided
  <1>13. GuardedBelow'
    <2>1. ASSUME NEW q \in Procs \ {p}, pc'[q] \in Searching, NEW i \in DOMAIN log',
                 log'[i].type \in GuardTypes, log'[i].cause = job'[q].sub
          PROVE  log'[i].level < job'[q].level
      <3>1. job[q].sub # job[p].sub
        BY <1>5, <1>6, <2>1 DEF Settlement, OneOwner, InCall, Searching
      <3> QED BY <1>3, <1>4, <1>6, <2>1, <3>1 DEF Settlement, GuardedBelow
    <2>2. ASSUME pc'[p] \in Searching, NEW i \in DOMAIN log',
                 log'[i].type \in GuardTypes, log'[i].cause = job'[p].sub
          PROVE  log'[i].level < job'[p].level
      <3>1. job'[p].level = job[p].level + 1
        BY <1>6, <2>2 DEF Searching
      <3>2. CASE i = n
        BY <1>0, <1>3, <1>4, <3>1, <3>2 DEF Levels
      <3>3. CASE i \in DOMAIN log
        BY <1>0, <1>4, <1>6, <1>7, <1>8, <2>2, <3>1, <3>3 DEF Levels
      <3> QED BY <1>4, <3>2, <3>3
    <2> QED BY <2>1, <2>2 DEF GuardedBelow
  <1>14. OneSettlement'
    BY <1>3, <1>4 DEF Settlement, OneSettlement, Settling, GuardTypes
  <1>15. OneSubmissionPerKey'
    BY <1>3, <1>4 DEF Settlement, OneSubmissionPerKey, Submissions, Positions, GuardTypes
  <1>16. OneGuardPerLevel'
    <2>1. \A i \in DOMAIN log :
            log[i].type \in GuardTypes /\ log[i].cause = e.cause => log[i].level # e.level
      BY <1>0, <1>3, <1>7, <1>8 DEF Levels
    <2> QED BY <1>4, <2>1 DEF Settlement, OneGuardPerLevel, GuardTypes
  <1> QED BY <1>9, <1>10, <1>11, <1>12, <1>13, <1>14, <1>15, <1>16 DEF Settlement

\* A transition or a refusal settles a submission that was open, and closes it.
Settles(p, e) ==
    /\ pc[p] \in Undecided
    /\ Append1(p, e)
    /\ e.type \in Settling /\ e.cause = job[p].sub
    /\ pc'[p] \notin Undecided
    /\ pc'[p] \in InCall => job'[p].sub = job[p].sub
    /\ \A q \in Procs \ {p} : pc'[q] = pc[q] /\ job'[q] = job[q]

LEMMA SettleStep ==
    ASSUME TypeOK, TypeOK', Settlement, NEW p \in Procs, NEW e \in Events, Settles(p, e)
    PROVE  Settlement'
  <1> DEFINE n == Len(log) + 1
  <1>1. /\ Len(log) \in Nat /\ DOMAIN log = 1..Len(log) /\ DOMAIN log' = 1..n
        /\ \A i \in 1..Len(log) : log'[i] = log[i]
        /\ log'[n] = e
    BY AppendTyped DEF Settles
  <1>2. e.type \in Settling /\ e.cause = job[p].sub
    BY DEF Settles
  <1>3. pc[p] \in InCall /\ job[p].sub \in 1..Len(log)
    BY <1>1 DEF Settles, Undecided, InCall, Settlement, CallsOwnTheirSignal, Submissions, Positions
  <1>4. \A i \in DOMAIN log : log[i].type \in Settling => log[i].cause # job[p].sub
    BY DEF Settles, Settlement, UndecidedIsOpen
  <1>5. \A q \in Procs \ {p} : pc[q] \in InCall => job[q].sub # job[p].sub
    BY <1>3 DEF Settlement, OneOwner
  <1>6. CausesPrecede'
    BY <1>1, <1>2, <1>3 DEF Settlement, CausesPrecede
  <1>7. CallsOwnTheirSignal'
    BY <1>1, <1>3 DEF Settles, Settlement, CallsOwnTheirSignal, Submissions, Positions
  <1>8. OneOwner'
    BY <1>3 DEF Settles, Settlement, OneOwner
  <1>9. UndecidedIsOpen'
    BY <1>1, <1>2, <1>5 DEF Settles, Settlement, UndecidedIsOpen, Undecided, InCall
  <1>10. GuardedBelow'
    BY <1>1, <1>2 DEF Settles, Settlement, GuardedBelow, Undecided, Searching, Settling, GuardTypes
  <1>11. OneSettlement'
    BY <1>1, <1>2, <1>4 DEF Settlement, OneSettlement
  <1>12. OneSubmissionPerKey'
    BY <1>1, <1>2 DEF Settlement, OneSubmissionPerKey, Submissions, Positions, Settling
  <1>13. OneGuardPerLevel'
    BY <1>1, <1>2 DEF Settlement, OneGuardPerLevel, Settling
  <1> QED BY <1>6, <1>7, <1>8, <1>9, <1>10, <1>11, <1>12, <1>13 DEF Settlement

\* Every step is neutral, records a signal, records a guard, or settles a submission.
StepKinds ==
    \/ Neutral
    \/ \E p \in Procs :
        \/ EmitSignal(p)
        \/ RecordGuard(p)
        \/ Transition(p) /\ \E e \in Events : e.type = "STATE_TRANSITION" /\ Settles(p, e)
        \/ Refuse(p) /\ \E e \in Events : e.type = "SIGNAL_REFUSED" /\ Settles(p, e)

LEMMA StepIsOfAKind == TypeInv /\ TypeInv' /\ [Next]_vars => StepKinds
  <1> SUFFICES ASSUME TypeInv, TypeInv', [Next]_vars PROVE StepKinds
    OBVIOUS
  <1>t. TypeOK /\ TypeOK'
    BY DEF TypeInv
  <1> USE DEF InCall, Undecided, Searching
  <1>0. \A q \in Procs : job[q] \in Jobs /\ job[q].level \in Nat
    <2>1. \A j \in Jobs : j.level \in 1..3
      BY DEF Jobs
    <2>2. \A q \in Procs : job[q] \in Jobs
      BY <1>t DEF TypeOK
    <2> QED BY <2>1, <2>2
  <1>1. CASE UNCHANGED vars
    BY <1>0, <1>1 DEF StepKinds, Neutral, vars
  <1>2. ASSUME NEW p \in Procs, Load(p) PROVE StepKinds
    <2>1. CASE OpenStore(p)
      BY <1>0, <1>t, <2>1 DEF StepKinds, Neutral, OpenStore, Goto, TypeOK, ledgerVars, bounds
    <2>2. CASE Rehydrate(p)
      BY <1>0, <1>t, <2>2 DEF StepKinds, Neutral, Rehydrate, Goto, TypeOK, ledgerVars, bounds
    <2>3. CASE DecideBoot(p)
      BY <1>0, <1>t, <2>3 DEF StepKinds, Neutral, DecideBoot, Goto, TypeOK, ledgerVars, bounds
    <2>4. CASE Boot(p)
      <3> DEFINE e == Event("SKILL_INITIALIZED", NoKey, 0, 0, InitialState, InitialState)
      <3>1. e \in Events /\ log' = Append(log, e)
        BY <2>4, EventTyped, ConstantsAssumption DEF EventTypes, Boot, Append1
      <3>2. e.type = "SKILL_INITIALIZED" /\ e.cause = 0
        BY DEF Event
      <3> QED
        BY <1>0, <1>t, <2>4, <3>1, <3>2 DEF StepKinds, Neutral, Boot, Goto, TypeOK, bounds
    <2>5. CASE BootSnapshot(p)
      BY <1>0, <1>t, <2>5 DEF StepKinds, Neutral, BootSnapshot, Goto, TypeOK, engineVars, bounds
    <2> QED BY <1>2, <2>1, <2>2, <2>3, <2>4, <2>5 DEF Load
  <1>3. ASSUME NEW p \in Procs, NEW k \in Keys \cup {NoKey}, Submit(p, k) PROVE StepKinds
    <2>1. \A a \in answers' \ answers : a[2] \in {"replayed", "replayed_refusal"}
      BY <1>3 DEF Submit, Replay, Answer, ReplayVerdict
    <2>2. \A q \in Procs : pc'[q] \in InCall => q # p
      BY <1>t, <1>3 DEF Submit, Replay, Goto, TypeOK
    <2>3. \A q \in Procs \ {p} : pc'[q] = pc[q] /\ job'[q] = job[q]
      BY <1>t, <1>3 DEF Submit, Replay, Goto, TypeOK
    <2> QED
      BY <1>0, <1>3, <2>1, <2>2, <2>3 DEF StepKinds, Neutral, Submit, ledgerVars
  <1>4. ASSUME NEW p \in Procs, Work(p) PROVE StepKinds
    <2>1. CASE AssertCurrent(p)
      BY <1>0, <1>t, <2>1 DEF StepKinds, Neutral, AssertCurrent, Goto, TypeOK, ledgerVars, bounds
    <2>2. CASE EmitSignal(p) \/ RecordGuard(p)
      BY <2>2 DEF StepKinds
    <2>3. CASE EmitDuplicate(p)
      <3>1. \A a \in answers' \ answers : a[2] \in {"replayed", "replayed_refusal"}
        BY <2>3 DEF EmitDuplicate, Replay, Answer, ReplayVerdict
      <3>2. pc'[p] = "idle" /\ \A q \in Procs \ {p} : pc'[q] = pc[q] /\ job'[q] = job[q]
        BY <1>t, <2>3 DEF EmitDuplicate, Replay, Goto, TypeOK
      <3> QED
        BY <1>0, <2>3, <3>1, <3>2 DEF StepKinds, Neutral, EmitDuplicate, ledgerVars
    <2>4. CASE StartGuard(p)
      <3>1. PICK l \in Handles(p) : job' = [job EXCEPT ![p].level = l, ![p].version = Len(log)]
        BY <2>4 DEF StartGuard
      <3>2. job[p].level <= l
        BY DEF Handles
      <3>3. job' = [job EXCEPT ![p] = [job[p] EXCEPT !.level = l, !.version = Len(log)]]
        BY <1>t, <3>1 DEF TypeOK
      <3>4. \A q \in Procs \ {p} : job'[q] = job[q]
        BY <1>t, <3>3 DEF TypeOK
      <3>5. job'[p].sub = job[p].sub /\ job'[p].level = l
        BY <1>0, <1>t, <3>3 DEF TypeOK, Jobs
      <3> QED
        BY <1>0, <1>t, <2>4, <3>2, <3>4, <3>5 DEF StepKinds, Neutral, StartGuard, Goto, TypeOK, ledgerVars, bounds
    <2>5. CASE GuardReturns(p)
      <3>1. PICK a \in GuardAnswers(p) : job' = [job EXCEPT ![p].guard = a[1], ![p].target = a[2]]
        BY <2>5 DEF GuardReturns
      <3>2. job' = [job EXCEPT ![p] = [job[p] EXCEPT !.guard = a[1], !.target = a[2]]]
        BY <1>t, <3>1 DEF TypeOK
      <3>3. \A q \in Procs \ {p} : job'[q] = job[q]
        BY <1>t, <3>2 DEF TypeOK
      <3>4. job'[p].sub = job[p].sub /\ job'[p].level = job[p].level
        BY <1>0, <1>t, <3>2 DEF TypeOK, Jobs
      <3> QED
        BY <1>0, <1>t, <2>5, <3>3, <3>4 DEF StepKinds, Neutral, GuardReturns, Goto, TypeOK, ledgerVars, bounds
    <2>6. CASE GuardConflict(p)
      BY <1>0, <1>t, <2>6 DEF StepKinds, Neutral, GuardConflict, Goto, TypeOK, ledgerVars, bounds
    <2>7. CASE Transition(p)
      <3> DEFINE e == Event("STATE_TRANSITION", NoKey, job[p].sub, 0, job[p].prev, job[p].target)
      <3>1. e \in Events /\ e.type = "STATE_TRANSITION" /\ e.cause = job[p].sub
        BY <1>t, EventTyped DEF EventTypes, TypeOK, Jobs, Event
      <3>2. Append1(p, e)
        BY <2>7 DEF Transition
      <3> HIDE DEF e
      <3>3. Settles(p, e)
        BY <1>t, <2>7, <3>1, <3>2 DEF Settles, Settling, Transition, Goto, TypeOK
      <3> QED BY <2>7, <3>1, <3>3 DEF StepKinds
    <2>8. CASE TransitionSnapshot(p)
      BY <1>0, <1>t, <2>8 DEF StepKinds, Neutral, TransitionSnapshot, Answer, Goto, TypeOK, engineVars, bounds
    <2>9. CASE Refuse(p)
      <3> DEFINE e == Event("SIGNAL_REFUSED", NoKey, job[p].sub, 0, job[p].prev, job[p].prev)
      <3>1. e \in Events /\ e.type = "SIGNAL_REFUSED" /\ e.cause = job[p].sub
        BY <1>t, EventTyped DEF EventTypes, TypeOK, Jobs, Event
      <3>2. Append1(p, e)
        BY <2>9 DEF Refuse
      <3> HIDE DEF e
      <3>3. Settles(p, e)
        BY <1>t, <2>9, <3>1, <3>2 DEF Settles, Settling, Refuse, Goto, TypeOK
      <3> QED BY <2>9, <3>1, <3>3 DEF StepKinds
    <2>10. CASE Unhandled(p)
      BY <1>0, <1>t, <2>10 DEF StepKinds, Neutral, Unhandled, Answer, Goto, TypeOK, ledgerVars, bounds
    <2> QED BY <1>4, <2>1, <2>2, <2>3, <2>4, <2>5, <2>6, <2>7, <2>8, <2>9, <2>10 DEF Work
  <1>5. ASSUME NEW p \in Procs, DeliverView(p) PROVE StepKinds
    <2> DEFINE e == Event("AGENT_TURN_STARTED", NoKey, 0, 0, state[p], state[p])
    <2>1. e \in Events /\ log' = Append(log, e)
      BY <1>t, <1>5, EventTyped DEF EventTypes, DeliverView, Append1, TypeOK
    <2>2. e.type = "AGENT_TURN_STARTED" /\ e.cause = 0
      BY DEF Event
    <2> QED
      BY <1>0, <1>5, <2>1, <2>2 DEF StepKinds, Neutral, DeliverView
  <1>6. ASSUME NEW p \in Procs, Crash(p) PROVE StepKinds
    BY <1>0, <1>t, <1>6 DEF StepKinds, Neutral, Crash, Goto, TypeOK, ledgerVars
  <1> QED BY <1>1, <1>2, <1>3, <1>4, <1>5, <1>6 DEF Next

LEMMA SettlementInit == Init => Settlement
  BY DEF Init, Settlement, CausesPrecede, CallsOwnTheirSignal, OneOwner, UndecidedIsOpen, GuardedBelow,
         OneSettlement, OneSubmissionPerKey, OneGuardPerLevel, Submissions, Positions, InCall, Undecided, Searching

LEMMA SettlementStep == TypeInv /\ TypeInv' /\ Settlement /\ [Next]_vars => Settlement'
  <1> SUFFICES ASSUME TypeInv, TypeInv', Settlement, [Next]_vars PROVE Settlement'
    OBVIOUS
  <1>1. TypeOK /\ TypeOK' /\ GuardIsDeclared
    BY DEF TypeInv
  <1>2. CASE Neutral
    BY <1>1, <1>2, NeutralStep
  <1>3. ASSUME NEW p \in Procs, EmitSignal(p) PROVE Settlement'
    BY <1>1, <1>3, EmitStep
  <1>4. ASSUME NEW p \in Procs, RecordGuard(p) PROVE Settlement'
    BY <1>1, <1>4, GuardStep
  <1>5. ASSUME NEW p \in Procs, NEW e \in Events, Settles(p, e) PROVE Settlement'
    BY <1>1, <1>5, SettleStep
  <1> QED BY <1>2, <1>3, <1>4, <1>5, StepIsOfAKind DEF StepKinds

LEMMA SettlementInvariant == Spec => []Settlement
  BY TypeInit, TypeStep, TypeInvariant, SettlementInit, SettlementStep, PTL DEF Spec

\* A key is one submission, however many processes race and retry under it: the
\* transaction of EventStore.append looks the key up again before it inserts.
THEOREM KeysAreUnique == Spec => []OneSubmissionPerKey
  <1>1. Settlement => OneSubmissionPerKey
    BY DEF Settlement
  <1> QED BY <1>1, SettlementInvariant, PTL

\* No submission moves a run twice: a retry never evaluates, and the call that owns a
\* submission stops deciding with its first STATE_TRANSITION or SIGNAL_REFUSED.
THEOREM SubmissionsMoveOnce == Spec => []OneTransitionPerSubmission
  <1>1. Settlement => OneTransitionPerSubmission
    BY DEF Settlement, OneSettlement, OneTransitionPerSubmission, Positions, Settling
  <1> QED BY <1>1, SettlementInvariant, PTL

\* No level of a submission is guarded twice, by bubbling or by a retry.
THEOREM GuardsRunOnce == Spec => []OneGuardPerLevel
  <1>1. Settlement => OneGuardPerLevel
    BY DEF Settlement
  <1> QED BY <1>1, SettlementInvariant, PTL

\* Whoever submits, retries, races and crashes: a keyed submission is recorded once, guarded
\* once at each level and moves the run once (processSignal of every process over the run).
THEOREM OnceEach == Spec => []SubmissionsHappenOnce
<1>1. OneSubmissionPerKey /\ OneTransitionPerSubmission /\ OneGuardPerLevel => SubmissionsHappenOnce
  BY DEF SubmissionsHappenOnce
<1> QED
  BY KeysAreUnique, SubmissionsMoveOnce, GuardsRunOnce, <1>1, PTL

-----------------------------------------------------------------------------
(* Answers *)

Moved(s) == \E i \in DOMAIN log : log[i].type = "STATE_TRANSITION" /\ log[i].cause = s

\* A call that has moved the run finds its transition in the ledger; a submission
\* reported as not accepted is nobody's any more.
AnswersHold ==
    /\ \A p \in Procs : pc[p] = "moved" => Moved(job[p].sub)
    /\ \A a \in answers :
          /\ a[2] = "accepted" => Moved(a[1])
          /\ a[2] \in {"refused", "unhandled"} =>
                /\ a[1] \in DOMAIN log /\ ~Moved(a[1])
                /\ \A q \in Procs : pc[q] \in InCall => job[q].sub # a[1]

\* An appended event that is no transition leaves who has moved the run as it was.
LEMMA MovedKept ==
    ASSUME TypeOK, NEW e \in Events, log' = Append(log, e)
    PROVE  /\ DOMAIN log \subseteq DOMAIN log'
           /\ \A s : Moved(s)' <=> Moved(s) \/ (e.type = "STATE_TRANSITION" /\ e.cause = s)
  <1>1. log \in Seq(Events)
    BY DEF TypeOK
  <1>2. /\ DOMAIN log = 1..Len(log) /\ DOMAIN log' = 1..(Len(log) + 1) /\ Len(log) \in Nat
        /\ \A i \in 1..Len(log) : log'[i] = log[i]
        /\ log'[Len(log) + 1] = e
    BY <1>1, AppendFacts
  <1>3. ASSUME NEW s PROVE Moved(s)' <=> Moved(s) \/ (e.type = "STATE_TRANSITION" /\ e.cause = s)
    BY <1>2 DEF Moved
  <1> QED BY <1>2, <1>3

LEMMA AnswersStep ==
    ASSUME TypeInv, TypeInv', Settlement, Settlement', AnswersHold, [Next]_vars
    PROVE  AnswersHold'
  <1>t. TypeOK /\ TypeOK'
    BY DEF TypeInv
  <1>s. \A q \in Procs : pc[q] \in InCall => job[q].sub \in DOMAIN log
    BY DEF Settlement, CallsOwnTheirSignal, Submissions, Positions
  <1>1. CASE Neutral
    <2>1. /\ DOMAIN log \subseteq DOMAIN log'
          /\ \A s : Moved(s)' <=> Moved(s)
      <3>1. CASE log' = log
        BY <3>1 DEF Moved
      <3>2. ASSUME NEW e \in Events, log' = Append(log, e),
                   e.type \in {"SKILL_INITIALIZED", "AGENT_TURN_STARTED"}
            PROVE  /\ DOMAIN log \subseteq DOMAIN log'
                   /\ \A s : Moved(s)' <=> Moved(s)
        BY <1>t, <3>2, MovedKept
      <3> QED BY <1>1, <3>1, <3>2 DEF Neutral
    <2>2. \A p \in Procs : pc'[p] = "moved" => Moved(job[p].sub)'
      BY <1>1, <2>1 DEF Neutral, AnswersHold, InCall
    <2>3. ASSUME NEW a \in answers', a[2] = "accepted" PROVE Moved(a[1])'
      BY <1>1, <2>1, <2>3 DEF Neutral, AnswersHold
    <2>4. ASSUME NEW a \in answers', a[2] \in {"refused", "unhandled"}
          PROVE  /\ a[1] \in DOMAIN log' /\ ~Moved(a[1])'
                 /\ \A q \in Procs : pc'[q] \in InCall => job'[q].sub # a[1]
      <3>1. CASE a \in answers
        BY <1>1, <2>1, <2>4, <3>1 DEF Neutral, AnswersHold
      <3>2. CASE a \notin answers
        <4>1. PICK p \in Procs : pc[p] \in Undecided /\ pc'[p] \notin InCall /\ a = <<job[p].sub, "unhandled">>
          BY <1>1, <2>4, <3>2 DEF Neutral
        <4>2. a[1] = job[p].sub /\ pc[p] \in InCall
          BY <4>1 DEF Undecided, InCall
        <4>3. ~Moved(a[1])
          BY <4>1, <4>2 DEF Settlement, UndecidedIsOpen, Moved, Settling
        <4>4. \A q \in Procs : pc'[q] \in InCall => job'[q].sub # a[1]
          BY <1>1, <4>1, <4>2 DEF Neutral, Settlement, OneOwner
        <4> QED BY <1>s, <2>1, <4>2, <4>3, <4>4
      <3> QED BY <3>1, <3>2
    <2> QED BY <2>2, <2>3, <2>4 DEF AnswersHold
  <1>2. ASSUME NEW p \in Procs, EmitSignal(p) \/ RecordGuard(p) PROVE AnswersHold'
    <2>1. PICK e \in Events : log' = Append(log, e) /\ e.type # "STATE_TRANSITION"
      <3>1. CASE EmitSignal(p)
        <4>1. Event("SIGNAL_EMITTED", job[p].key, 0, 0, job[p].prev, job[p].prev) \in Events
          BY <1>t, EventTyped DEF EventTypes, TypeOK, Jobs
        <4> QED BY <3>1, <4>1 DEF EmitSignal, Append1, Event
      <3>2. CASE RecordGuard(p)
        <4>1. GuardEvent(job[p].guard) \in GuardTypes
          BY <1>t DEF TypeOK, Jobs, GuardEvent, GuardTypes
        <4>2. job[p].level \in Levels
          BY <3>2, ConstantsAssumption DEF TypeInv, GuardIsDeclared, RecordGuard, Edge
        <4>3. Event(GuardEvent(job[p].guard), NoKey, job[p].sub, job[p].level, job[p].prev, job[p].prev) \in Events
          BY <1>t, <4>1, <4>2, EventTyped DEF EventTypes, GuardTypes, TypeOK, Jobs
        <4> QED BY <3>2, <4>1, <4>3 DEF RecordGuard, Append1, Event, GuardTypes
      <3> QED BY <1>2, <3>1, <3>2
    <2>2. DOMAIN log \subseteq DOMAIN log' /\ \A s : Moved(s)' <=> Moved(s)
      BY <1>t, <2>1, MovedKept
    <2>3. answers' = answers /\ pc'[p] # "moved" /\ \A q \in Procs \ {p} : pc'[q] = pc[q] /\ job'[q] = job[q]
      BY <1>t, <1>2 DEF EmitSignal, RecordGuard, Goto, TypeOK
    <2>4. \/ pc[p] \in InCall /\ job'[p].sub = job[p].sub
          \/ job'[p].sub \notin DOMAIN log
      BY SMTT(20), <1>t, <1>2 DEF EmitSignal, RecordGuard, InCall, TypeOK, Jobs
    <2> QED BY <2>2, <2>3, <2>4 DEF AnswersHold
  <1>3. ASSUME NEW p \in Procs, NEW e \in Events, Settles(p, e),
               \/ e.type = "STATE_TRANSITION" /\ Transition(p)
               \/ e.type = "SIGNAL_REFUSED" /\ Refuse(p)
        PROVE  AnswersHold'
    <2>1. log' = Append(log, e) /\ e.cause = job[p].sub /\ pc[p] \in InCall
      BY <1>3 DEF Settles, Append1, Undecided, InCall
    <2>2. /\ DOMAIN log \subseteq DOMAIN log'
          /\ \A s : Moved(s)' <=> Moved(s) \/ (e.type = "STATE_TRANSITION" /\ job[p].sub = s)
      BY <1>t, <2>1, MovedKept
    <2>3. \A q \in Procs \ {p} : pc'[q] = pc[q] /\ job'[q] = job[q]
      BY <1>3 DEF Settles
    <2>4. CASE e.type = "STATE_TRANSITION" /\ Transition(p)
      <3>1. answers' = answers /\ job' = job
        BY <2>4 DEF Transition
      <3> QED BY <2>1, <2>2, <2>3, <2>4, <3>1 DEF AnswersHold, InCall
    <2>5. CASE e.type = "SIGNAL_REFUSED" /\ Refuse(p)
      <3>1. answers' = answers \cup {<<job[p].sub, "refused">>} /\ pc'[p] = "idle"
        BY <1>t, <2>5 DEF Refuse, Answer, Goto, TypeOK
      <3>2. ~Moved(job[p].sub)
        BY <1>3 DEF Settles, Settlement, UndecidedIsOpen, Moved, Settling
      <3>3. \A q \in Procs \ {p} : pc[q] \in InCall => job[q].sub # job[p].sub
        BY <2>1 DEF Settlement, OneOwner
      <3> QED BY <1>s, <2>1, <2>2, <2>3, <2>5, <3>1, <3>2, <3>3 DEF AnswersHold, InCall
    <2> QED BY <1>3, <2>4, <2>5
  <1> QED BY <1>1, <1>2, <1>3, StepIsOfAKind DEF StepKinds

\* What the submitter of a signal was told stays true: accepted means that the
\* transition is recorded, refused or unhandled that there never will be one.
THEOREM AnswersAreFinal == Spec => []OwnAnswersStand
  <1>1. Init => AnswersHold
    BY DEF Init, AnswersHold
  <1>2. TypeInv /\ TypeInv' /\ Settlement /\ Settlement' /\ AnswersHold /\ [Next]_vars => AnswersHold'
    BY AnswersStep
  <1>3. AnswersHold => OwnAnswersStand
    BY DEF AnswersHold, OwnAnswersStand, Moved, CausedBy
  <1> QED BY <1>1, <1>2, <1>3, TypeInvariant, SettlementInvariant, PTL DEF Spec

-----------------------------------------------------------------------------
(* The run implements its promise *)

SubmittedOf(l) == {[id |-> i, key |-> l[i].key] : i \in {j \in DOMAIN l : l[j].type = "SIGNAL_EMITTED"}}
SettledOf(l, type) == {l[i].cause : i \in {j \in DOMAIN l : l[j].type = type}}

LEMMA MappedState ==
    /\ {[id |-> i, key |-> log[i].key] : i \in Submissions} = SubmittedOf(log)
    /\ AcceptedSubs(log) = SettledOf(log, "STATE_TRANSITION")
    /\ RefusedSubs(log) = SettledOf(log, "SIGNAL_REFUSED")
    /\ {[id |-> i, key |-> log'[i].key] : i \in Submissions'} = SubmittedOf(log')
    /\ AcceptedSubs(log') = SettledOf(log', "STATE_TRANSITION")
    /\ RefusedSubs(log') = SettledOf(log', "SIGNAL_REFUSED")
  BY DEF Submissions, Positions, SubmittedOf, SettledOf, AcceptedSubs, RefusedSubs

\* What an appended event adds to the mapped state.
LEMMA MappedAppend ==
    ASSUME TypeOK, NEW e \in Events, log' = Append(log, e)
    PROVE  /\ e.type # "SIGNAL_EMITTED" => SubmittedOf(log') = SubmittedOf(log)
           /\ e.type = "SIGNAL_EMITTED" =>
                 SubmittedOf(log') = SubmittedOf(log) \cup {[id |-> Len(log) + 1, key |-> e.key]}
           /\ \A t \in EventTypes \ {e.type} : SettledOf(log', t) = SettledOf(log, t)
           /\ SettledOf(log', e.type) = SettledOf(log, e.type) \cup {e.cause}
  <1>1. log \in Seq(Events)
    BY DEF TypeOK
  <1>2. /\ DOMAIN log = 1..Len(log) /\ DOMAIN log' = 1..(Len(log) + 1) /\ Len(log) \in Nat
        /\ \A i \in 1..Len(log) : log'[i] = log[i]
        /\ log'[Len(log) + 1] = e
    BY <1>1, AppendFacts
  <1>3. DOMAIN log' = DOMAIN log \cup {Len(log) + 1}
    BY <1>2
  <1>4. \A i \in DOMAIN log : log'[i] = log[i]
    BY <1>2
  <1>5. e.type # "SIGNAL_EMITTED" => SubmittedOf(log') = SubmittedOf(log)
    BY <1>2, <1>3, <1>4 DEF SubmittedOf
  <1>6. e.type = "SIGNAL_EMITTED" =>
            SubmittedOf(log') = SubmittedOf(log) \cup {[id |-> Len(log) + 1, key |-> e.key]}
    BY <1>2, <1>3, <1>4 DEF SubmittedOf
  <1>7. \A t \in EventTypes \ {e.type} : SettledOf(log', t) = SettledOf(log, t)
    BY <1>2, <1>3, <1>4 DEF SettledOf
  <1>8. SettledOf(log', e.type) = SettledOf(log, e.type) \cup {e.cause}
    BY <1>2, <1>3, <1>4 DEF SettledOf
  <1> QED BY <1>5, <1>6, <1>7, <1>8

LEMMA PromiseInit == Init => Promise!Init
  BY DEF Init, Promise!Init, Submissions, Positions, AcceptedSubs, RefusedSubs

\* An event that is none of the three leaves the promise where it was.
LEMMA PromiseStutters ==
    ASSUME TypeOK,
           \/ log' = log
           \/ \E e \in Events : /\ log' = Append(log, e)
                               /\ e.type \notin {"SIGNAL_EMITTED", "STATE_TRANSITION", "SIGNAL_REFUSED"}
    PROVE  UNCHANGED Promise!vars
  <1>1. log \in Seq(Events)
    BY DEF TypeOK
  <1>2. /\ SubmittedOf(log') = SubmittedOf(log)
        /\ \A t \in {"STATE_TRANSITION", "SIGNAL_REFUSED"} : SettledOf(log', t) = SettledOf(log, t)
    <2>1. CASE log' = log
      BY <2>1
    <2>2. ASSUME NEW e \in Events, log' = Append(log, e),
                 e.type \notin {"SIGNAL_EMITTED", "STATE_TRANSITION", "SIGNAL_REFUSED"}
          PROVE  /\ SubmittedOf(log') = SubmittedOf(log)
                 /\ \A t \in {"STATE_TRANSITION", "SIGNAL_REFUSED"} : SettledOf(log', t) = SettledOf(log, t)
      BY <2>2, MappedAppend DEF EventTypes
    <2> QED BY <2>1, <2>2
  <1> QED BY <1>2, MappedState DEF Promise!vars

LEMMA PromiseSubmits ==
    ASSUME TypeOK, NEW p \in Procs, EmitSignal(p)
    PROVE  Promise!Submit
  <1> DEFINE e == Event("SIGNAL_EMITTED", job[p].key, 0, 0, job[p].prev, job[p].prev)
             s == [id |-> Len(log) + 1, key |-> job[p].key]
  <1>1. e \in Events /\ log' = Append(log, e)
    BY EventTyped DEF EventTypes, TypeOK, Jobs, EmitSignal, Append1
  <1>2. e.type = "SIGNAL_EMITTED" /\ e.key = job[p].key
    BY DEF Event
  <1> HIDE DEF e
  <1>3. log \in Seq(Events) /\ DOMAIN log = 1..Len(log) /\ Len(log) \in Nat
    BY DEF TypeOK
  <1>4. SubmittedOf(log') = SubmittedOf(log) \cup {s}
    BY <1>1, <1>2, MappedAppend
  <1>5. /\ SettledOf(log', "STATE_TRANSITION") = SettledOf(log, "STATE_TRANSITION")
        /\ SettledOf(log', "SIGNAL_REFUSED") = SettledOf(log, "SIGNAL_REFUSED")
    BY <1>1, <1>2, MappedAppend DEF EventTypes
  <1>6. \A t \in SubmittedOf(log) : t.id # s.id
    BY <1>3 DEF SubmittedOf
  <1>7. s.key = NoKey \/ \A t \in SubmittedOf(log) : t.key # s.key
    BY DEF EmitSignal, Existing, SubmittedOf
  <1> HIDE DEF s
  <1> QED BY <1>4, <1>5, <1>6, <1>7, MappedState DEF Promise!Submit, Promise!Ids

\* The submission that a transition or a refusal settles is submitted and unsettled.
LEMMA PromiseSettles ==
    ASSUME TypeOK, Settlement, NEW p \in Procs, NEW e \in Events, Settles(p, e)
    PROVE  Promise!Accept \/ Promise!Refuse
  <1> DEFINE s == job[p].sub
  <1>1. log \in Seq(Events) /\ log' = Append(log, e) /\ e.type \in Settling /\ e.cause = s
    BY DEF TypeOK, Settles, Append1
  <1>2. s \in Submissions
    BY DEF Settles, Settlement, CallsOwnTheirSignal, Undecided, InCall
  <1>3. [id |-> s, key |-> log[s].key] \in SubmittedOf(log)
    BY <1>2 DEF SubmittedOf, Submissions, Positions
  <1>4. s \in {t.id : t \in SubmittedOf(log)}
    BY <1>3
  <1>5. s \notin SettledOf(log, "STATE_TRANSITION") /\ s \notin SettledOf(log, "SIGNAL_REFUSED")
    BY DEF Settles, Settlement, UndecidedIsOpen, SettledOf, Settling
  <1>6. SubmittedOf(log') = SubmittedOf(log)
    BY <1>1, MappedAppend DEF Settling
  <1>7. CASE e.type = "STATE_TRANSITION"
    <2>1. /\ SettledOf(log', "STATE_TRANSITION") = SettledOf(log, "STATE_TRANSITION") \cup {s}
          /\ SettledOf(log', "SIGNAL_REFUSED") = SettledOf(log, "SIGNAL_REFUSED")
      BY <1>1, <1>7, MappedAppend DEF EventTypes
    <2> HIDE DEF s
    <2>2. Promise!Accept
      BY <1>4, <1>5, <1>6, <2>1, MappedState DEF Promise!Accept, Promise!Unsettled, Promise!Ids
    <2> QED BY <2>2
  <1>8. CASE e.type = "SIGNAL_REFUSED"
    <2>1. /\ SettledOf(log', "SIGNAL_REFUSED") = SettledOf(log, "SIGNAL_REFUSED") \cup {s}
          /\ SettledOf(log', "STATE_TRANSITION") = SettledOf(log, "STATE_TRANSITION")
      BY <1>1, <1>8, MappedAppend DEF EventTypes
    <2> HIDE DEF s
    <2>2. Promise!Refuse
      BY <1>4, <1>5, <1>6, <2>1, MappedState DEF Promise!Refuse, Promise!Unsettled, Promise!Ids
    <2> QED BY <2>2
  <1> QED BY <1>1, <1>7, <1>8 DEF Settling

LEMMA PromiseStep ==
    ASSUME TypeInv, TypeInv', Settlement, [Next]_vars
    PROVE  [Promise!Next]_(Promise!vars)
  <1>t. TypeOK
    BY DEF TypeInv
  <1>1. CASE Neutral
    <2>1. UNCHANGED Promise!vars
      BY <1>t, <1>1, PromiseStutters DEF Neutral
    <2> QED BY <2>1
  <1>2. ASSUME NEW p \in Procs, EmitSignal(p) PROVE Promise!Next
    BY <1>t, <1>2, PromiseSubmits DEF Promise!Next
  <1>3. ASSUME NEW p \in Procs, RecordGuard(p) PROVE UNCHANGED Promise!vars
    <2>1. GuardEvent(job[p].guard) \in GuardTypes
      BY <1>t DEF TypeOK, Jobs, GuardEvent, GuardTypes
    <2>2. job[p].level \in Levels
      BY <1>3, ConstantsAssumption DEF TypeInv, GuardIsDeclared, RecordGuard, Edge
    <2> DEFINE e == Event(GuardEvent(job[p].guard), NoKey, job[p].sub, job[p].level, job[p].prev, job[p].prev)
    <2>3. e \in Events
      BY <1>t, <2>1, <2>2, EventTyped DEF EventTypes, GuardTypes, TypeOK, Jobs
    <2>4. log' = Append(log, e) /\ e.type \in GuardTypes
      BY <1>3, <2>1 DEF RecordGuard, Append1, Event
    <2> HIDE DEF e
    <2> QED BY <1>t, <2>3, <2>4, PromiseStutters DEF GuardTypes
  <1>4. ASSUME NEW p \in Procs, NEW e \in Events, Settles(p, e) PROVE Promise!Next
    BY <1>t, <1>4, PromiseSettles DEF Promise!Next
  <1> QED BY <1>1, <1>2, <1>3, <1>4, StepIsOfAKind DEF StepKinds

\* The event-sourced engine, with its races, crashes and retries, implements the
\* promise: one submission per key, each settled at most once, accepted or refused.
THEOREM PromiseIsKept == Spec => PromiseKept
  <1>1. TypeInv /\ TypeInv' /\ Settlement /\ [Next]_vars => [Promise!Next]_(Promise!vars)
    BY PromiseStep
  <1> QED BY <1>1, PromiseInit, TypeInvariant, SettlementInvariant, PTL DEF Spec, PromiseKept, Promise!Spec

-----------------------------------------------------------------------------
(* Decisions *)

Accepting == {"GUARD_PASSED", "GUARD_FALLBACK"}

\* The guard of level l failed on submission s, before position n of the ledger.
FailedIn(ledger, n, s, l) ==
    \E g \in 1..(n - 1) : ledger[g].type = "GUARD_FAILED" /\ ledger[g].cause = s /\ ledger[g].level = l

\* Every level below this one that declares the signal has failed.
FailedBelow(ledger, n, s, level) ==
    \A l \in Levels : l < level /\ <<ledger[s].from, l>> \in DOMAIN Target => FailedIn(ledger, n, s, l)

\* The guard at g lets submission s move the run to this target.
LetsMove(ledger, n, s, g, target) ==
    /\ g \in (s + 1)..(n - 1) /\ ledger[g].cause = s /\ ledger[g].type \in Accepting /\ ledger[g].level \in Levels
    /\ ledger[g].type = "GUARD_PASSED" => target = Target[<<ledger[s].from, ledger[g].level>>]
    /\ FailedBelow(ledger, n, s, ledger[g].level)

\* The decision at position i has its reasons before it.
ExplainedIn(ledger, i) ==
    ledger[i].type \in Settling =>
        /\ ledger[i].cause \in 1..(i - 1)
        /\ ledger[i].type = "STATE_TRANSITION" => \E g \in 1..(i - 1) : LetsMove(ledger, i, ledger[i].cause, g, ledger[i].to)
        /\ ledger[i].type = "SIGNAL_REFUSED" => FailedBelow(ledger, i, ledger[i].cause, 3)

Explained == \A i \in DOMAIN log : ExplainedIn(log, i)

\* What a call has recorded so far: the levels below the one that it has reached failed, and a
\* guard that let it move is in the ledger.
ReasonsOf(p) ==
    LET s == job[p].sub IN
    /\ pc[p] \in {"looked_up", "checked"} => job[p].level = 1
    /\ pc[p] \in InCall => s \in DOMAIN log /\ log[s].from = job[p].prev
    /\ pc[p] \in Searching => FailedBelow(log, Len(log) + 1, s, job[p].level)
    /\ pc[p] = "guarded" /\ job[p].guard = "passed" => job[p].target = Target[Edge(p)]
    /\ pc[p] = "accepted" => \E g \in DOMAIN log : LetsMove(log, Len(log) + 1, s, g, job[p].target)

Reasons == \A p \in Procs : ReasonsOf(p)

\* Appending takes no reason away.
LEMMA ReasonsStay ==
    ASSUME NEW l \in Seq(Events), NEW e \in Events, NEW n \in 1..(Len(l) + 1), NEW s \in 1..Len(l)
    PROVE  /\ \A k : FailedIn(l, n, s, k) => FailedIn(Append(l, e), n, s, k) /\ FailedIn(Append(l, e), n + 1, s, k)
           /\ \A k : FailedBelow(l, n, s, k) => FailedBelow(Append(l, e), n, s, k) /\ FailedBelow(Append(l, e), n + 1, s, k)
           /\ \A g, t : LetsMove(l, n, s, g, t) => LetsMove(Append(l, e), n, s, g, t) /\ LetsMove(Append(l, e), n + 1, s, g, t)
  <1>1. /\ Len(l) \in Nat /\ \A i \in 1..Len(l) : Append(l, e)[i] = l[i]
    BY AppendFacts
  <1>2. \A k : FailedIn(l, n, s, k) => FailedIn(Append(l, e), n, s, k) /\ FailedIn(Append(l, e), n + 1, s, k)
    BY <1>1 DEF FailedIn
  <1>3. \A k : FailedBelow(l, n, s, k) => FailedBelow(Append(l, e), n, s, k) /\ FailedBelow(Append(l, e), n + 1, s, k)
    BY <1>1, <1>2 DEF FailedBelow
  <1>4. \A g, t : LetsMove(l, n, s, g, t) => LetsMove(Append(l, e), n, s, g, t) /\ LetsMove(Append(l, e), n + 1, s, g, t)
    BY <1>1, <1>3 DEF LetsMove
  <1> QED BY <1>2, <1>3, <1>4

\* An event that is explained when it is appended leaves everything explained.
LEMMA ExplainedStays ==
    ASSUME TypeOK, Explained, NEW e \in Events, log' = Append(log, e), ExplainedIn(Append(log, e), Len(log) + 1)
    PROVE  Explained'
  <1>1. /\ log \in Seq(Events) /\ Len(log) \in Nat /\ DOMAIN log = 1..Len(log) /\ DOMAIN log' = 1..(Len(log) + 1)
        /\ \A i \in 1..Len(log) : log'[i] = log[i]
    BY AppendFacts DEF TypeOK
  <1>2. ASSUME NEW i \in DOMAIN log PROVE ExplainedIn(log', i)
    <2> DEFINE l == Append(log, e)
    <2>1. ExplainedIn(log, i) /\ l[i] = log[i] /\ i \in 1..Len(log)
      BY <1>1 DEF Explained
    <2>2. SUFFICES ASSUME log[i].type \in Settling PROVE ExplainedIn(l, i)
      BY <2>1 DEF ExplainedIn
    <2>3. log[i].cause \in 1..(i - 1) /\ log[i].cause \in 1..Len(log)
      BY <1>1, <2>1, <2>2 DEF ExplainedIn
    <2>4. /\ \A k : FailedBelow(log, i, log[i].cause, k) => FailedBelow(l, i, log[i].cause, k)
          /\ \A g, t : LetsMove(log, i, log[i].cause, g, t) => LetsMove(l, i, log[i].cause, g, t)
      BY <1>1, <2>3, ReasonsStay
    <2> HIDE DEF l
    <2> QED BY <2>1, <2>2, <2>3, <2>4 DEF ExplainedIn
  <1> QED BY <1>1, <1>2 DEF Explained

\* A call keeps its reasons while others append.
LEMMA OthersKeepReasons ==
    ASSUME TypeOK, NEW q \in Procs, ReasonsOf(q), job'[q] = job[q], pc'[q] = pc[q],
           log' = log \/ \E e \in Events : log' = Append(log, e)
    PROVE  ReasonsOf(q)'
  <1>1. CASE log' = log
    BY <1>1 DEF ReasonsOf, Edge
  <1>2. ASSUME NEW e \in Events, log' = Append(log, e) PROVE ReasonsOf(q)'
    <2>1. /\ log \in Seq(Events) /\ Len(log) \in Nat /\ DOMAIN log = 1..Len(log) /\ DOMAIN log' = 1..(Len(log) + 1)
          /\ \A i \in 1..Len(log) : log'[i] = log[i]
          /\ Len(log') = Len(log) + 1
      BY <1>2, AppendFacts DEF TypeOK
    <2>2. Searching \subseteq InCall /\ "accepted" \in InCall /\ "guarded" \in InCall
      BY DEF Searching, InCall
    <2>3. CASE pc[q] \notin InCall
      BY <2>2, <2>3 DEF ReasonsOf
    <2>4. CASE pc[q] \in InCall
      <3> DEFINE s == job[q].sub
                 n == Len(log) + 1
      <3>1. s \in 1..Len(log) /\ log[s].from = job[q].prev /\ n \in 1..(Len(log) + 1)
        BY <2>1, <2>4 DEF ReasonsOf
      <3>2. /\ \A k : FailedBelow(log, n, s, k) => FailedBelow(log', n + 1, s, k)
            /\ \A g, t : LetsMove(log, n, s, g, t) => LetsMove(log', n + 1, s, g, t)
        BY <1>2, <2>1, <3>1, ReasonsStay
      <3> QED BY <2>1, <3>1, <3>2 DEF ReasonsOf, Edge
    <2> QED BY <2>3, <2>4
  <1> QED BY <1>1, <1>2

\* The step of one process, when the others see at most an event that is no decision.
LEMMA ReasonsMove ==
    ASSUME TypeOK, Explained, Reasons, NEW p \in Procs, ReasonsOf(p)',
           \A q \in Procs \ {p} : pc'[q] = pc[q] /\ job'[q] = job[q],
           log' = log \/ \E e \in Events : log' = Append(log, e) /\ ExplainedIn(Append(log, e), Len(log) + 1)
    PROVE  Explained' /\ Reasons'
  <1>1. Explained'
    BY ExplainedStays DEF Explained
  <1>2. \A q \in Procs \ {p} : ReasonsOf(q)'
    BY OthersKeepReasons DEF Reasons
  <1> QED BY <1>1, <1>2 DEF Reasons

\* A call that is over, or that has just begun, needs no reasons.
LEMMA ReasonsDrop ==
    ASSUME NEW p, pc'[p] \notin InCall, pc'[p] \in {"looked_up", "checked"} => job'[p].level = 1
    PROVE  ReasonsOf(p)'
  BY DEF ReasonsOf, InCall, Searching

\* A process that loads the run, boots it or dies decides nothing.
LEMMA LoadReasons ==
    ASSUME TypeInv, Explained, Reasons, NEW p \in Procs, Load(p) \/ Crash(p)
    PROVE  Explained' /\ Reasons'
  <1>t. TypeOK
    BY DEF TypeInv
  <1> USE DEF TypeOK, Goto
  <1>1. pc'[p] \in {"down", "opened", "booting", "booted", "idle"}
    BY <1>t DEF Load, OpenStore, Rehydrate, DecideBoot, Boot, BootSnapshot, Crash
  <1>2. \A q \in Procs \ {p} : pc'[q] = pc[q] /\ job'[q] = job[q]
    BY <1>t DEF Load, OpenStore, Rehydrate, DecideBoot, Boot, BootSnapshot, Crash
  <1>3. log' = log \/ \E e \in Events : log' = Append(log, e) /\ ExplainedIn(Append(log, e), Len(log) + 1)
    <2>1. CASE Boot(p)
      <3> DEFINE e == Event("SKILL_INITIALIZED", NoKey, 0, 0, InitialState, InitialState)
      <3>1. e \in Events /\ log' = Append(log, e) /\ e.type = "SKILL_INITIALIZED"
        BY <2>1, EventTyped, ConstantsAssumption DEF EventTypes, Boot, Append1, Event
      <3> HIDE DEF e
      <3>2. ExplainedIn(Append(log, e), Len(log) + 1)
        BY <1>t, <3>1, AppendFacts DEF ExplainedIn, Settling
      <3> QED BY <3>1, <3>2
    <2>2. CASE ~Boot(p)
      BY <2>2 DEF Load, OpenStore, Rehydrate, DecideBoot, BootSnapshot, Crash, ledgerVars
    <2> QED BY <2>1, <2>2
  <1>4. ReasonsOf(p)'
    BY <1>1, ReasonsDrop DEF InCall
  <1> QED BY <1>t, <1>2, <1>3, <1>4, ReasonsMove

\* DeliverView: a turn is no decision.
LEMMA ViewReasons ==
    ASSUME TypeInv, Explained, Reasons, NEW p \in Procs, DeliverView(p)
    PROVE  Explained' /\ Reasons'
  <1>t. TypeOK
    BY DEF TypeInv
  <1> DEFINE e == Event("AGENT_TURN_STARTED", NoKey, 0, 0, state[p], state[p])
  <1>1. e \in Events /\ log' = Append(log, e) /\ e.type = "AGENT_TURN_STARTED" /\ pc' = pc /\ job' = job
    BY <1>t, EventTyped DEF EventTypes, DeliverView, Append1, Event, TypeOK
  <1> HIDE DEF e
  <1>2. ExplainedIn(Append(log, e), Len(log) + 1)
    BY <1>t, <1>1, AppendFacts DEF ExplainedIn, Settling, TypeOK
  <1>3. ReasonsOf(p)'
    BY <1>t, <1>1, OthersKeepReasons DEF Reasons
  <1> QED BY <1>t, <1>1, <1>2, <1>3, ReasonsMove

\* Steps of a call that neither record nor decide.
LEMMA QuietReasons ==
    ASSUME TypeInv, Explained, Reasons, NEW p \in Procs,
           \/ \E k \in Keys \cup {NoKey} : Submit(p, k)
           \/ AssertCurrent(p) \/ EmitDuplicate(p) \/ GuardConflict(p) \/ TransitionSnapshot(p) \/ Unhandled(p)
    PROVE  Explained' /\ Reasons'
  <1>t. TypeOK
    BY DEF TypeInv
  <1>1. log' = log
    BY DEF Submit, AssertCurrent, EmitDuplicate, GuardConflict, TransitionSnapshot, Unhandled, ledgerVars
  <1>2. \A q \in Procs \ {p} : pc'[q] = pc[q] /\ job'[q] = job[q]
    BY <1>t DEF Submit, AssertCurrent, EmitDuplicate, GuardConflict, TransitionSnapshot, Unhandled, Replay, Goto, TypeOK
  <1>3. pc'[p] \notin InCall
    BY <1>t DEF Submit, AssertCurrent, EmitDuplicate, GuardConflict, TransitionSnapshot, Unhandled, Replay, Goto,
                InCall, TypeOK
  <1>4. pc'[p] \in {"looked_up", "checked"} => job'[p].level = 1
    <2>1. ASSUME NEW k \in Keys \cup {NoKey}, Submit(p, k), pc'[p] \in {"looked_up", "checked"}
          PROVE  job'[p].level = 1
      <3>1. job' = [job EXCEPT ![p] = [NoJob EXCEPT !.key = k, !.prev = state[p], !.before = ctx[p]]]
        BY <1>t, <2>1 DEF Submit, Replay, Goto, TypeOK
      <3>2. [NoJob EXCEPT !.key = k, !.prev = state[p], !.before = ctx[p]].level = 1
        BY DEF NoJob
      <3> HIDE DEF NoJob
      <3> QED BY <1>t, <3>1, <3>2 DEF TypeOK
    <2>2. ASSUME AssertCurrent(p), pc'[p] \in {"looked_up", "checked"}
          PROVE  job'[p].level = 1
      <3>1. pc[p] = "looked_up" /\ job' = job
        BY <1>t, <2>2 DEF AssertCurrent, Goto, TypeOK
      <3> QED BY <3>1 DEF Reasons, ReasonsOf
    <2>3. EmitDuplicate(p) \/ GuardConflict(p) \/ TransitionSnapshot(p) \/ Unhandled(p) => pc'[p] = "idle"
      BY <1>t DEF EmitDuplicate, GuardConflict, TransitionSnapshot, Unhandled, Replay, Goto, TypeOK
    <2> QED BY <2>1, <2>2, <2>3
  <1>5. ReasonsOf(p)'
    BY <1>3, <1>4, ReasonsDrop
  <1> QED BY <1>t, <1>1, <1>2, <1>5, ReasonsMove

\* EmitSignal: the search starts at the lowest level.
LEMMA EmitReasons ==
    ASSUME TypeInv, Explained, Reasons, NEW p \in Procs, EmitSignal(p)
    PROVE  Explained' /\ Reasons'
  <1>t. TypeOK /\ job[p] \in Jobs
    BY DEF TypeInv, TypeOK
  <1> DEFINE e == Event("SIGNAL_EMITTED", job[p].key, 0, 0, job[p].prev, job[p].prev)
             n == Len(log) + 1
  <1>1. e \in Events /\ Append1(p, e) /\ log' = Append(log, e)
    BY <1>t, EventTyped DEF EventTypes, TypeOK, Jobs, EmitSignal, Append1
  <1>2. e.type = "SIGNAL_EMITTED" /\ e.from = job[p].prev
    BY DEF Event
  <1> HIDE DEF e
  <1>3. /\ Len(log) \in Nat /\ DOMAIN log' = 1..n /\ log'[n] = e
    BY <1>t, <1>1, AppendTyped
  <1>4. ExplainedIn(Append(log, e), n)
    BY <1>1, <1>2, <1>3 DEF ExplainedIn, Settling
  <1>5. job' = [job EXCEPT ![p] = [job[p] EXCEPT !.sub = n]] /\ n \in Nat /\ pc[p] = "checked"
    BY <1>t, <1>3 DEF EmitSignal, TypeOK
  <1>6. [job[p] EXCEPT !.sub = n].sub = n /\ [job[p] EXCEPT !.sub = n].prev = job[p].prev /\ [job[p] EXCEPT !.sub = n].level = job[p].level
    BY <1>t, <1>3 DEF Jobs
  <1>7. job'[p].sub = n /\ job'[p].prev = job[p].prev /\ job'[p].level = 1
    BY <1>t, <1>5, <1>6 DEF TypeOK, Reasons, ReasonsOf
  <1>8. pc'[p] = "routing" /\ \A q \in Procs \ {p} : pc'[q] = pc[q] /\ job'[q] = job[q]
    BY <1>t, <1>5 DEF EmitSignal, Goto, TypeOK
  <1>9. ReasonsOf(p)'
    BY <1>2, <1>3, <1>7, <1>8 DEF ReasonsOf, FailedBelow, Levels
  <1> QED BY <1>t, <1>1, <1>4, <1>8, <1>9, ReasonsMove

\* StartGuard: the levels that were passed over declare nothing.
LEMMA StartReasons ==
    ASSUME TypeInv, Explained, Reasons, NEW p \in Procs, StartGuard(p)
    PROVE  Explained' /\ Reasons'
  <1>t. TypeOK /\ job[p] \in Jobs
    BY DEF TypeInv, TypeOK
  <1>1. PICK l \in Handles(p) : (\A m \in Handles(p) : l <= m) /\ job' = [job EXCEPT ![p].level = l, ![p].version = Len(log)]
    BY DEF StartGuard
  <1>2. job' = [job EXCEPT ![p] = [job[p] EXCEPT !.level = l, !.version = Len(log)]]
    BY <1>t, <1>1 DEF TypeOK
  <1>3. job'[p].sub = job[p].sub /\ job'[p].level = l /\ job'[p].prev = job[p].prev
    BY <1>t, <1>2 DEF TypeOK, Jobs
  <1>4. pc[p] = "routing" /\ pc'[p] = "guard" /\ log' = log /\ \A q \in Procs \ {p} : pc'[q] = pc[q] /\ job'[q] = job[q]
    BY <1>t, <1>2 DEF StartGuard, Goto, TypeOK, ledgerVars
  <1>5. job[p].level \in 1..3 /\ l \in Levels
    BY <1>t DEF Jobs, Handles
  <1>6. log[job[p].sub].from = job[p].prev /\ job[p].sub \in DOMAIN log /\ FailedBelow(log, Len(log) + 1, job[p].sub, job[p].level)
    BY <1>4 DEF Reasons, ReasonsOf, InCall, Searching
  <1>7. FailedBelow(log, Len(log) + 1, job[p].sub, l)
    BY <1>1, <1>5, <1>6 DEF FailedBelow, Handles, Levels
  <1>8. ReasonsOf(p)'
    BY <1>3, <1>4, <1>6, <1>7 DEF ReasonsOf
  <1> QED BY <1>t, <1>4, <1>8, ReasonsMove

\* GuardReturns: a guard that passed leads where the skill says.
LEMMA ReturnReasons ==
    ASSUME TypeInv, Explained, Reasons, NEW p \in Procs, GuardReturns(p)
    PROVE  Explained' /\ Reasons'
  <1>t. TypeOK /\ job[p] \in Jobs
    BY DEF TypeInv, TypeOK
  <1>1. PICK a \in GuardAnswers(p) : job' = [job EXCEPT ![p].guard = a[1], ![p].target = a[2]]
    BY DEF GuardReturns
  <1>2. job' = [job EXCEPT ![p] = [job[p] EXCEPT !.guard = a[1], !.target = a[2]]]
    BY <1>t, <1>1 DEF TypeOK
  <1>3. /\ job'[p].sub = job[p].sub /\ job'[p].level = job[p].level /\ job'[p].prev = job[p].prev
        /\ job'[p].guard = a[1] /\ job'[p].target = a[2]
    BY <1>t, <1>2 DEF TypeOK, Jobs
  <1>4. pc[p] = "guard" /\ pc'[p] = "guarded" /\ log' = log /\ \A q \in Procs \ {p} : pc'[q] = pc[q] /\ job'[q] = job[q]
    BY <1>t, <1>2 DEF GuardReturns, Goto, TypeOK, ledgerVars
  <1>5. a[1] = "passed" => a[2] = Target[Edge(p)]
    BY DEF GuardAnswers
  <1>6. ReasonsOf(p)'
    BY <1>3, <1>4, <1>5 DEF Reasons, ReasonsOf, InCall, Searching, Edge
  <1> QED BY <1>t, <1>4, <1>6, ReasonsMove

\* RecordGuard: what is recorded is the reason for what follows.
LEMMA GuardReasons ==
    ASSUME TypeInv, Explained, Reasons, NEW p \in Procs, RecordGuard(p)
    PROVE  Explained' /\ Reasons'
  <1>t. TypeOK /\ job[p] \in Jobs
    BY DEF TypeInv, TypeOK
  <1> DEFINE e == Event(GuardEvent(job[p].guard), NoKey, job[p].sub, job[p].level, job[p].prev, job[p].prev)
             n == Len(log) + 1
             s == job[p].sub
  <1>0. job[p].level \in Levels /\ pc[p] = "guarded"
    BY ConstantsAssumption DEF TypeInv, GuardIsDeclared, RecordGuard, Edge
  <1>1. GuardEvent(job[p].guard) \in GuardTypes
    BY <1>t DEF Jobs, GuardEvent, GuardTypes
  <1>2. e \in Events /\ Append1(p, e) /\ log' = Append(log, e)
    BY <1>t, <1>0, <1>1, EventTyped DEF EventTypes, GuardTypes, TypeOK, Jobs, RecordGuard, Append1
  <1>3. e.type = GuardEvent(job[p].guard) /\ e.cause = s /\ e.level = job[p].level
    BY DEF Event
  <1> HIDE DEF e
  <1>4. /\ log \in Seq(Events) /\ Len(log) \in Nat /\ DOMAIN log = 1..Len(log) /\ DOMAIN log' = 1..n /\ Len(log') = n
        /\ \A i \in 1..Len(log) : log'[i] = log[i]
        /\ log'[n] = e
    BY <1>t, <1>2, AppendTyped DEF TypeOK
  <1>5. ExplainedIn(Append(log, e), n)
    BY <1>1, <1>2, <1>3, <1>4 DEF ExplainedIn, Settling, GuardTypes
  <1>6. s \in 1..Len(log) /\ log[s].from = job[p].prev /\ FailedBelow(log, n, s, job[p].level)
    BY <1>0, <1>4 DEF Reasons, ReasonsOf, InCall, Searching
  <1>7. \A k : FailedBelow(log, n, s, k) => FailedBelow(log', n + 1, s, k)
    BY <1>2, <1>4, <1>6, ReasonsStay
  <1>8. \A q \in Procs \ {p} : pc'[q] = pc[q] /\ job'[q] = job[q]
    BY <1>t DEF RecordGuard, Goto, TypeOK
  <1>9. ReasonsOf(p)'
    <2>1. CASE job[p].guard = "failed"
      <3>1. job' = [job EXCEPT ![p].level = @ + 1, ![p].failed = TRUE] /\ pc'[p] = "routing"
        BY <1>t, <2>1 DEF RecordGuard, Goto, TypeOK
      <3>2. job'[p].sub = s /\ job'[p].level = job[p].level + 1 /\ job'[p].prev = job[p].prev
        BY <1>t, <3>1 DEF TypeOK, Jobs
      <3>3. FailedIn(log', n + 1, s, job[p].level)
        BY <1>3, <1>4, <2>1 DEF FailedIn, GuardEvent
      <3>4. FailedBelow(log', n + 1, s, job[p].level + 1)
        BY <1>0, <1>6, <1>7, <3>3 DEF FailedBelow, Levels
      <3> QED BY <1>4, <1>6, <3>1, <3>2, <3>4 DEF ReasonsOf
    <2>2. CASE job[p].guard # "failed"
      <3>1. job' = job /\ pc'[p] = "accepted"
        BY <1>t, <2>2 DEF RecordGuard, Goto, TypeOK
      <3>2. e.type \in Accepting /\ (e.type = "GUARD_PASSED" => job[p].guard = "passed")
        BY <1>t, <1>3, <2>2 DEF Accepting, GuardEvent, Jobs
      <3>3. job[p].guard = "passed" => job[p].target = Target[<<job[p].prev, job[p].level>>]
        BY <1>0 DEF Reasons, ReasonsOf, Edge
      <3>4. n \in (s + 1)..((n + 1) - 1) /\ log'[n] = e /\ log'[s] = log[s]
        BY <1>4, <1>6
      <3>5. FailedBelow(log', n + 1, s, job[p].level)
        BY <1>6, <1>7
      <3>6. e.type = "GUARD_PASSED" => job[p].target = Target[<<log'[s].from, e.level>>]
        BY <1>3, <1>6, <3>2, <3>3, <3>4
      <3>7. LetsMove(log', n + 1, s, n, job[p].target)
        BY <1>0, <1>3, <3>2, <3>4, <3>5, <3>6 DEF LetsMove
      <3> QED BY <1>4, <1>6, <3>1, <3>7 DEF ReasonsOf, Searching
    <2> QED BY <2>1, <2>2
  <1> QED BY <1>t, <1>2, <1>5, <1>8, <1>9, ReasonsMove

\* Transition and Refuse: the decision has its reasons in the ledger.
LEMMA SettleReasons ==
    ASSUME TypeInv, Explained, Reasons, NEW p \in Procs, Transition(p) \/ Refuse(p)
    PROVE  Explained' /\ Reasons'
  <1>t. TypeOK /\ job[p] \in Jobs
    BY DEF TypeInv, TypeOK
  <1> DEFINE s == job[p].sub
             n == Len(log) + 1
  <1>0. \A q \in Procs \ {p} : pc'[q] = pc[q] /\ job'[q] = job[q]
    BY <1>t DEF Transition, Refuse, Goto, TypeOK
  <1>a. s \in DOMAIN log /\ log[s].from = job[p].prev
    BY DEF Transition, Refuse, Reasons, ReasonsOf, InCall
  <1>1. CASE Transition(p)
    <2> DEFINE e == Event("STATE_TRANSITION", NoKey, job[p].sub, 0, job[p].prev, job[p].target)
    <2>1. /\ e \in Events /\ Append1(p, e) /\ log' = Append(log, e)
          /\ e.type = "STATE_TRANSITION" /\ e.cause = s /\ e.to = job[p].target
      BY <1>t, <1>1, EventTyped DEF EventTypes, TypeOK, Jobs, Transition, Append1, Event
    <2> HIDE DEF e
    <2>2. /\ log \in Seq(Events) /\ Len(log) \in Nat /\ DOMAIN log = 1..Len(log) /\ DOMAIN log' = 1..n
          /\ \A i \in 1..Len(log) : log'[i] = log[i]
          /\ log'[n] = e
      BY <1>t, <2>1, AppendTyped DEF TypeOK
    <2>3. PICK g \in DOMAIN log : LetsMove(log, n, s, g, job[p].target)
      BY <1>1 DEF Transition, Reasons, ReasonsOf
    <2>4. LetsMove(log', n, s, g, job[p].target)
      BY <1>a, <2>1, <2>2, <2>3, ReasonsStay
    <2>5. ExplainedIn(log', n)
      BY <1>a, <2>1, <2>2, <2>4 DEF ExplainedIn
    <2>6. pc'[p] = "moved" /\ job' = job
      BY <1>t, <1>1 DEF Transition, Goto, TypeOK
    <2>7. ReasonsOf(p)'
      BY <1>a, <2>2, <2>6 DEF ReasonsOf, Searching
    <2> QED BY <1>t, <1>0, <2>1, <2>5, <2>7, ReasonsMove
  <1>2. CASE Refuse(p)
    <2> DEFINE e == Event("SIGNAL_REFUSED", NoKey, job[p].sub, 0, job[p].prev, job[p].prev)
    <2>1. /\ e \in Events /\ Append1(p, e) /\ log' = Append(log, e)
          /\ e.type = "SIGNAL_REFUSED" /\ e.cause = s
      BY <1>t, <1>2, EventTyped DEF EventTypes, TypeOK, Jobs, Refuse, Append1, Event
    <2> HIDE DEF e
    <2>2. /\ log \in Seq(Events) /\ Len(log) \in Nat /\ DOMAIN log = 1..Len(log)
          /\ log'[n] = e
      BY <1>t, <2>1, AppendTyped DEF TypeOK
    <2>3. FailedBelow(log, n, s, job[p].level) /\ Handles(p) = {} /\ job[p].level \in 1..3
      BY <1>t, <1>2 DEF Refuse, Reasons, ReasonsOf, Searching, Jobs
    <2>4. FailedBelow(log, n, s, 3)
      BY <1>a, <2>3 DEF FailedBelow, Handles, Levels
    <2>5. FailedBelow(log', n, s, 3)
      BY <1>a, <2>1, <2>2, <2>4, ReasonsStay
    <2>6. ExplainedIn(log', n)
      BY <1>a, <2>1, <2>2, <2>5 DEF ExplainedIn
    <2>7. pc'[p] = "idle"
      BY <1>t, <1>2 DEF Refuse, Goto, TypeOK
    <2>8. ReasonsOf(p)'
      BY <2>7, ReasonsDrop DEF InCall
    <2> QED BY <1>t, <1>0, <2>1, <2>6, <2>8, ReasonsMove
  <1> QED BY <1>1, <1>2

\* An empty ledger has nothing to explain.
LEMMA ReasonsInit == Init => Explained /\ Reasons
  BY DEF Init, Explained, Reasons, ReasonsOf, InCall, Searching

\* Every step of every process keeps the reasons.
LEMMA ReasonsStep == TypeInv /\ Explained /\ Reasons /\ [Next]_vars => Explained' /\ Reasons'
  <1> SUFFICES ASSUME TypeInv, Explained, Reasons, [Next]_vars PROVE Explained' /\ Reasons'
    OBVIOUS
  <1>1. CASE UNCHANGED vars
    <2>1. TypeOK /\ log' = log /\ pc' = pc /\ job' = job
      BY <1>1 DEF vars, TypeInv
    <2> QED BY <2>1, OthersKeepReasons DEF Explained, Reasons
  <1>2. ASSUME NEW p \in Procs, NEW k \in Keys \cup {NoKey}, Submit(p, k) PROVE Explained' /\ Reasons'
    BY <1>2, QuietReasons
  <1>3. ASSUME NEW p \in Procs, Load(p) \/ Work(p) \/ DeliverView(p) \/ Crash(p) PROVE Explained' /\ Reasons'
    BY <1>3, LoadReasons, ViewReasons, QuietReasons, EmitReasons, StartReasons, ReturnReasons, GuardReasons,
       SettleReasons DEF Work
  <1> QED BY <1>1, <1>2, <1>3 DEF Next

\* Every transition and every refusal has its guards in the ledger before it: a level that moved
\* the run comes after the failed guards of all levels below it (processSignal of FSMEngine).
THEOREM DecisionsExplained == Spec => []DecisionsAreExplained
  <1>1. TypeInv /\ Explained => DecisionsAreExplained
    <2> SUFFICES ASSUME TypeInv, Explained, NEW i \in DOMAIN log
                 PROVE  LET s == log[i].cause
                            FailedAt(l) == \E g \in 1..(i - 1) : log[g].type = "GUARD_FAILED" /\ log[g].cause = s /\ log[g].level = l
                        IN /\ log[i].type = "STATE_TRANSITION" =>
                                 \E g \in (s + 1)..(i - 1) :
                                     /\ log[g].cause = s /\ log[g].type \in {"GUARD_PASSED", "GUARD_FALLBACK"}
                                     /\ log[g].type = "GUARD_PASSED" => log[i].to = Target[<<log[s].from, log[g].level>>]
                                     /\ \A l \in Declares(s) : l < log[g].level => FailedAt(l)
                           /\ log[i].type = "SIGNAL_REFUSED" => \A l \in Declares(s) : FailedAt(l)
      BY DEF DecisionsAreExplained
    <2>1. ExplainedIn(log, i)
      BY DEF Explained
    <2> QED BY <2>1 DEF ExplainedIn, LetsMove, FailedBelow, FailedIn, Declares, Levels, Settling, Accepting
  <1> QED BY <1>1, TypeInvariant, ReasonsInit, ReasonsStep, PTL DEF Spec
-----------------------------------------------------------------------------
(* One process: an engine and the snapshots are where the history leads *)

OneProcess == \A p, q \in Procs : p = q

\* The first n events of a ledger lead to this state.
Led(l, n, s) ==
    \/ s = InitialState /\ \A i \in StateEvents(l) : i > n
    \/ \E i \in StateEvents(l) : i <= n /\ l[i].to = s /\ \A j \in StateEvents(l) : j <= n => j <= i

\* A context with what the first n events accepted, and with nothing that is refused.
Holds(l, n, c) ==
    /\ c \subseteq 1..Len(l)
    /\ \A i \in DOMAIN l : i <= n /\ l[i].type = "STATE_TRANSITION" => l[i].cause \in c
    /\ \A i \in DOMAIN l : l[i].type = "SIGNAL_REFUSED" => l[i].cause \notin c

SnapshotFits(l, sn) == sn.seq <= Len(l) /\ Led(l, sn.seq, sn.state) /\ Holds(l, sn.seq, sn.ctx)

\* The fields of a signal are in the context while it is decided, and what was there before is
\* kept; no snapshot has them before they are decided.
EngineFits(at, l, sn, s, c, j) ==
    /\ at = "booting" => l = <<>> /\ s = InitialState /\ c = {}
    /\ at \notin {"down", "opened", "booting"} => Led(l, Len(l), s)
    /\ at \in {"booted", "idle", "looked_up", "checked", "moved"} => Holds(l, Len(l), c)
    /\ at \in {"looked_up", "checked"} => j.before = c
    /\ at \in Undecided =>
        /\ Holds(l, Len(l), j.before)
        /\ c = j.before \cup {j.sub}
        /\ j.sub \in 1..Len(l) /\ j.sub \notin j.before \cup sn.ctx

Faithful ==
    /\ SnapshotFits(log, snapshot)
    /\ \A p \in Procs : EngineFits(pc[p], log, snapshot, state[p], ctx[p], job[p])

\* What an append leaves and what it changes of the state a history leads to.
LEMMA LedStays ==
    ASSUME NEW l \in Seq(Events), NEW e \in Events, NEW n \in 0..Len(l), NEW s, Led(l, n, s)
    PROVE  /\ Led(Append(l, e), n, s)
           /\ n = Len(l) /\ e.type \notin {"SKILL_INITIALIZED", "STATE_TRANSITION"} => Led(Append(l, e), Len(l) + 1, s)
  <1> DEFINE a == Append(l, e)
             m == Len(l) + 1
  <1>1. /\ Len(l) \in Nat /\ DOMAIN l = 1..Len(l) /\ DOMAIN a = 1..m
        /\ a[m] = e /\ \A i \in 1..Len(l) : a[i] = l[i]
    BY AppendFacts
  <1> HIDE DEF a
  <1>2. /\ StateEvents(l) \subseteq StateEvents(a)
        /\ StateEvents(a) \subseteq StateEvents(l) \cup {m}
        /\ \A i \in StateEvents(l) : i \in 1..Len(l) /\ a[i].to = l[i].to
        /\ e.type \notin {"SKILL_INITIALIZED", "STATE_TRANSITION"} => StateEvents(a) = StateEvents(l)
    BY <1>1 DEF StateEvents
  <1>3. Led(a, n, s)
    BY <1>1, <1>2 DEF Led
  <1>4. ASSUME n = Len(l), e.type \notin {"SKILL_INITIALIZED", "STATE_TRANSITION"} PROVE Led(a, m, s)
    BY <1>1, <1>2, <1>4 DEF Led
  <1> QED BY <1>3, <1>4 DEF a

\* An event that sets the state leads to it.
LEMMA LedMoves ==
    ASSUME NEW l \in Seq(Events), NEW e \in Events, e.type \in {"SKILL_INITIALIZED", "STATE_TRANSITION"}
    PROVE  Led(Append(l, e), Len(l) + 1, e.to)
  <1> DEFINE a == Append(l, e)
             m == Len(l) + 1
  <1>1. Len(l) \in Nat /\ DOMAIN a = 1..m /\ a[m] = e
    BY AppendFacts
  <1> HIDE DEF a
  <1>2. m \in StateEvents(a) /\ StateEvents(a) \subseteq 1..m
    BY <1>1 DEF StateEvents
  <1> QED BY <1>1, <1>2 DEF Led, a

\* The state a whole history leads to is the committed one.
LEMMA LedCommitted ==
    ASSUME NEW l \in Seq(Events), NEW s, Led(l, Len(l), s)
    PROVE  CommittedState(l) = s
  <1>1. Len(l) \in Nat /\ StateEvents(l) \subseteq 1..Len(l) /\ StateEvents(l) \subseteq 0..Len(l)
    BY DEF StateEvents
  <1>2. CASE StateEvents(l) = {}
    BY <1>2 DEF Led, CommittedState
  <1>3. CASE StateEvents(l) # {}
    <2>1. PICK i \in StateEvents(l) : l[i].to = s /\ \A j \in StateEvents(l) : j <= Len(l) => j <= i
      BY <1>1, <1>3 DEF Led
    <2>2. \A j \in StateEvents(l) : j <= i
      BY <1>1, <2>1
    <2>3. Max(StateEvents(l)) = i
      BY <1>1, <2>2, MaxUnique
    <2> QED BY <1>3, <2>1, <2>3 DEF CommittedState
  <1> QED BY <1>2, <1>3

\* So is the state that its beginning leads to, of the beginning.
LEMMA LedPrefix ==
    ASSUME NEW l \in Seq(Events), NEW n \in 1..Len(l), NEW s, Led(l, n, s)
    PROVE  CommittedState(SubSeq(l, 1, n)) = s
  <1> DEFINE b == SubSeq(l, 1, n)
  <1>1. b \in Seq(Events) /\ Len(b) = n /\ DOMAIN b = 1..n /\ n \in Nat /\ DOMAIN l = 1..Len(l)
        /\ \A i \in 1..n : b[i] = l[i]
    OBVIOUS
  <1> HIDE DEF b
  <1>2. StateEvents(b) = {i \in StateEvents(l) : i <= n}
    BY <1>1 DEF StateEvents
  <1>3. \A i \in StateEvents(b) : b[i].to = l[i].to
    BY <1>1 DEF StateEvents
  <1>4. Led(b, Len(b), s)
    BY <1>1, <1>2, <1>3 DEF Led
  <1> QED BY <1>1, <1>4, LedCommitted DEF b

\* A context still holds what it has to when the event is of no submission it must have or lack.
LEMMA HoldsStays ==
    ASSUME NEW l \in Seq(Events), NEW e \in Events, NEW n \in 0..Len(l), NEW c, Holds(l, n, c),
           e.type = "SIGNAL_REFUSED" => e.cause \notin c
    PROVE  /\ Holds(Append(l, e), n, c)
           /\ n = Len(l) /\ (e.type = "STATE_TRANSITION" => e.cause \in c) => Holds(Append(l, e), Len(l) + 1, c)
  <1> DEFINE a == Append(l, e)
             m == Len(l) + 1
  <1>1. /\ Len(l) \in Nat /\ DOMAIN l = 1..Len(l) /\ DOMAIN a = 1..m /\ Len(a) = m
        /\ a[m] = e /\ \A i \in 1..Len(l) : a[i] = l[i]
    BY AppendFacts
  <1> HIDE DEF a
  <1>2. Holds(a, n, c)
    BY <1>1 DEF Holds
  <1>3. ASSUME n = Len(l), e.type = "STATE_TRANSITION" => e.cause \in c PROVE Holds(a, m, c)
    BY <1>1, <1>3 DEF Holds
  <1> QED BY <1>2, <1>3 DEF a

\* With one more submission that is not refused.
LEMMA HoldsMore ==
    ASSUME NEW l \in Seq(Events), NEW n, NEW c, NEW s \in 1..Len(l), Holds(l, n, c),
           \A i \in DOMAIN l : l[i].type = "SIGNAL_REFUSED" => l[i].cause # s
    PROVE  Holds(l, n, c \cup {s})
  BY DEF Holds

\* With one process, a step that leaves its engine and the snapshot fitting leaves everything so.
LEMMA AloneFits ==
    ASSUME OneProcess, NEW p \in Procs, SnapshotFits(log', snapshot'),
           EngineFits(pc'[p], log', snapshot', state'[p], ctx'[p], job'[p])
    PROVE  Faithful'
  <1>1. \A q \in Procs : q = p
    BY DEF OneProcess
  <1> QED BY <1>1 DEF Faithful

\* Steps without an append that keep state and context, or that begin or drop them.
LEMMA QuietFits ==
    ASSUME TypeInv, Settlement, OneProcess, Faithful, NEW p \in Procs,
           \/ OpenStore(p) \/ DecideBoot(p) \/ Crash(p) \/ AssertCurrent(p) \/ EmitDuplicate(p)
           \/ StartGuard(p) \/ GuardReturns(p) \/ GuardConflict(p) \/ Unhandled(p)
           \/ \E k \in Keys \cup {NoKey} : Submit(p, k)
    PROVE  Faithful'
  <1>t. TypeOK /\ job[p] \in Jobs
    BY DEF TypeInv, TypeOK
  <1>l. log' = log /\ snapshot' = snapshot
    BY DEF OpenStore, DecideBoot, Crash, AssertCurrent, EmitDuplicate, StartGuard, GuardReturns, GuardConflict,
           Unhandled, Submit, ledgerVars
  <1>f. /\ SnapshotFits(log, snapshot) /\ SnapshotFits(log', snapshot')
        /\ EngineFits(pc[p], log, snapshot, state[p], ctx[p], job[p])
    BY <1>l DEF Faithful
  <1> DEFINE Goal == EngineFits(pc'[p], log', snapshot', state'[p], ctx'[p], job'[p])
  <1> SUFFICES Goal
    BY <1>f, AloneFits
  <1>1. CASE OpenStore(p) \/ Crash(p)
    <2>1. pc'[p] \in {"down", "opened"}
      BY <1>t, <1>1 DEF OpenStore, Crash, Goto, TypeOK
    <2> QED BY <2>1 DEF EngineFits, Undecided
  <1>2. CASE DecideBoot(p)
    <2>1. pc'[p] = "booting" /\ log' = <<>> /\ state'[p] = InitialState /\ ctx'[p] = {}
      BY <1>t, <1>l, <1>2 DEF DecideBoot, Goto, TypeOK
    <2> QED BY <2>1 DEF EngineFits, Undecided
  <1>3. CASE AssertCurrent(p)
    <2>1. /\ pc[p] = "looked_up" /\ state'[p] = state[p] /\ ctx'[p] = ctx[p]
          /\ pc'[p] = "idle" \/ (pc'[p] = "checked" /\ job'[p] = job[p])
      BY <1>t, <1>3 DEF AssertCurrent, Goto, TypeOK, engineVars
    <2> QED BY <1>f, <1>l, <2>1 DEF EngineFits, Undecided
  <1>4. CASE EmitDuplicate(p)
    <2>1. pc[p] = "checked" /\ state'[p] = state[p] /\ ctx'[p] = ctx[p] /\ pc'[p] = "idle"
      BY <1>t, <1>4 DEF EmitDuplicate, Replay, Goto, TypeOK
    <2> QED BY <1>f, <1>l, <2>1 DEF EngineFits, Undecided
  <1>5. CASE StartGuard(p)
    <2>1. PICK n : job' = [job EXCEPT ![p] = [job[p] EXCEPT !.level = n, !.version = Len(log)]]
      BY <1>t, <1>5 DEF StartGuard, TypeOK
    <2>2. job'[p].before = job[p].before /\ job'[p].sub = job[p].sub
      BY <1>t, <2>1 DEF TypeOK, Jobs
    <2>3. pc[p] = "routing" /\ pc'[p] = "guard" /\ state'[p] = state[p] /\ ctx'[p] = ctx[p]
      BY <1>t, <1>5 DEF StartGuard, Goto, TypeOK, engineVars
    <2> QED BY <1>f, <1>l, <2>2, <2>3 DEF EngineFits, Undecided
  <1>6. CASE GuardReturns(p)
    <2>1. PICK a : job' = [job EXCEPT ![p] = [job[p] EXCEPT !.guard = a[1], !.target = a[2]]]
      BY <1>t, <1>6 DEF GuardReturns, TypeOK
    <2>2. job'[p].before = job[p].before /\ job'[p].sub = job[p].sub
      BY <1>t, <2>1 DEF TypeOK, Jobs
    <2>3. pc[p] = "guard" /\ pc'[p] = "guarded" /\ state'[p] = state[p] /\ ctx'[p] = ctx[p]
      BY <1>t, <1>6 DEF GuardReturns, Goto, TypeOK, engineVars
    <2> QED BY <1>f, <1>l, <2>2, <2>3 DEF EngineFits, Undecided
  <1>7. CASE Unhandled(p)
    <2>1. pc[p] = "routing" /\ pc'[p] = "idle" /\ state'[p] = state[p] /\ ctx'[p] = job[p].before
      BY <1>t, <1>7 DEF Unhandled, Goto, TypeOK
    <2> QED BY <1>f, <1>l, <2>1 DEF EngineFits, Undecided
  <1>8. ASSUME NEW k \in Keys \cup {NoKey}, Submit(p, k) PROVE Goal
    <2>1. pc[p] = "idle" /\ state'[p] = state[p] /\ ctx'[p] = ctx[p] /\ pc'[p] \in {"idle", "looked_up"}
      BY <1>t, <1>8 DEF Submit, Replay, Goto, TypeOK, engineVars
    <2>2. pc'[p] = "looked_up" => job'[p].before = ctx[p]
      <3>1. ASSUME pc'[p] = "looked_up"
            PROVE  job' = [job EXCEPT ![p] = [NoJob EXCEPT !.key = k, !.prev = state[p], !.before = ctx[p]]]
        BY <1>t, <1>8, <3>1 DEF Submit, Replay, Goto, TypeOK
      <3>2. [NoJob EXCEPT !.key = k, !.prev = state[p], !.before = ctx[p]].before = ctx[p]
        BY DEF NoJob
      <3> QED BY <1>t, <3>1, <3>2 DEF TypeOK
    <2> QED BY <1>f, <1>l, <2>1, <2>2 DEF EngineFits, Undecided
  <1>9. CASE GuardConflict(p)
    <2>1. pc[p] = "guard" /\ pc'[p] = "idle" /\ state'[p] = state[p] /\ ctx'[p] = ctx[p]
      BY <1>t, <1>9 DEF GuardConflict, Goto, TypeOK, engineVars
    <2>2. /\ log \in Seq(Events) /\ Led(log, Len(log), state[p])
          /\ Holds(log, Len(log), job[p].before) /\ ctx[p] = job[p].before \cup {job[p].sub} /\ job[p].sub \in 1..Len(log)
      BY <1>f, <1>t, <2>1 DEF EngineFits, Undecided, TypeOK
    <2>3. \A i \in DOMAIN log : log[i].type = "SIGNAL_REFUSED" => log[i].cause # job[p].sub
      BY <2>1 DEF Settlement, UndecidedIsOpen, Undecided, Settling
    <2>4. Holds(log, Len(log), ctx[p])
      BY <2>2, <2>3, HoldsMore
    <2> QED BY <1>l, <2>1, <2>2, <2>4 DEF EngineFits, Undecided
  <1> QED BY <1>1, <1>2, <1>3, <1>4, <1>5, <1>6, <1>7, <1>8, <1>9

\* Opening a run: the snapshot, and the events after it.
LEMMA RehydrateFits ==
    ASSUME TypeInv, Settlement, Explained, OneProcess, Faithful, NEW p \in Procs, Rehydrate(p)
    PROVE  Faithful'
  <1> DEFINE n == Len(log)
             later == {i \in StateEvents(log) : i > snapshot.seq}
             causes == {log[i].cause : i \in {j \in later : log[j].type = "STATE_TRANSITION"}}
  <1>1. /\ log' = log /\ snapshot' = snapshot /\ pc'[p] = "idle"
        /\ ctx'[p] = snapshot.ctx \cup causes
        /\ \/ later = {} /\ state'[p] = snapshot.state
           \/ \E last \in later : (\A i \in later : i <= last) /\ state'[p] = log[last].to
    BY DEF TypeInv, TypeOK, Rehydrate, Goto, ledgerVars
  <1>2. /\ n \in Nat /\ DOMAIN log = 1..n /\ snapshot.seq \in Nat /\ snapshot.seq <= n
        /\ Led(log, snapshot.seq, snapshot.state) /\ Holds(log, snapshot.seq, snapshot.ctx)
    BY DEF TypeInv, TypeOK, Faithful, SnapshotFits
  <1>3. StateEvents(log) \subseteq 1..n
    BY <1>2 DEF StateEvents
  <1>4. Led(log, n, state'[p])
    <2>1. CASE later = {} /\ state'[p] = snapshot.state
      BY <1>2, <1>3, <2>1 DEF Led
    <2>2. ASSUME NEW last \in later, \A i \in later : i <= last, state'[p] = log[last].to
          PROVE  Led(log, n, state'[p])
      <3>1. \A i \in StateEvents(log) : i <= last
        BY <1>2, <1>3, <2>2
      <3> QED BY <1>2, <1>3, <2>2, <3>1 DEF Led
    <2> QED BY <1>1, <2>1, <2>2
  <1>5. Holds(log, n, ctx'[p])
    <2>1. \A i \in DOMAIN log : log[i].type = "STATE_TRANSITION" => log[i].cause \in 1..n
      BY <1>2 DEF Explained, ExplainedIn, Settling
    <2>2. causes \subseteq 1..n
      BY <2>1 DEF StateEvents
    <2>3. \A i \in DOMAIN log : log[i].type = "STATE_TRANSITION" => i <= snapshot.seq \/ log[i].cause \in causes
      BY <1>2 DEF StateEvents
    <2>4. \A i \in DOMAIN log : log[i].type = "SIGNAL_REFUSED" => log[i].cause \notin causes
      BY DEF StateEvents, Settlement, OneSettlement, Settling
    <2> HIDE DEF causes
    <2> QED BY <1>1, <1>2, <2>2, <2>3, <2>4 DEF Holds
  <1>6. SnapshotFits(log', snapshot') /\ EngineFits(pc'[p], log', snapshot', state'[p], ctx'[p], job'[p])
    BY <1>1, <1>4, <1>5 DEF Faithful, EngineFits, Undecided
  <1> QED BY <1>6, AloneFits

\* Saving a snapshot: it is what the engine has.
LEMMA SaveFits ==
    ASSUME TypeInv, OneProcess, Faithful, NEW p \in Procs, BootSnapshot(p) \/ TransitionSnapshot(p)
    PROVE  Faithful'
  <1>1. /\ pc[p] \in {"booted", "moved"} /\ pc'[p] = "idle" /\ log' = log
        /\ state'[p] = state[p] /\ ctx'[p] = ctx[p]
        /\ snapshot'.seq = Len(log) /\ snapshot'.state = state[p] /\ snapshot'.ctx = ctx[p]
    BY DEF TypeInv, TypeOK, BootSnapshot, TransitionSnapshot, SaveSnapshot, Goto, engineVars
  <1>2. Led(log, Len(log), state[p]) /\ Holds(log, Len(log), ctx[p])
    <2>1. EngineFits(pc[p], log, snapshot, state[p], ctx[p], job[p])
      BY DEF Faithful
    <2> QED BY <1>1, <2>1 DEF EngineFits
  <1>3. Len(log) <= Len(log)
    BY DEF TypeInv, TypeOK
  <1>4. SnapshotFits(log', snapshot') /\ EngineFits(pc'[p], log', snapshot', state'[p], ctx'[p], job'[p])
    BY <1>1, <1>2, <1>3 DEF SnapshotFits, EngineFits, Undecided
  <1> QED BY <1>4, AloneFits

\* The snapshot fits an event that refuses nothing it has.
LEMMA SnapshotStays ==
    ASSUME TypeOK, Faithful, NEW e \in Events, log' = Append(log, e), snapshot' = snapshot,
           e.type = "SIGNAL_REFUSED" => e.cause \notin snapshot.ctx
    PROVE  SnapshotFits(log', snapshot')
  <1>1. log \in Seq(Events) /\ Len(log) \in Nat /\ snapshot.seq \in Nat
    BY DEF TypeOK
  <1>2. SnapshotFits(log, snapshot)
    BY DEF Faithful
  <1>3. snapshot.seq \in 0..Len(log) /\ Led(log, snapshot.seq, snapshot.state) /\ Holds(log, snapshot.seq, snapshot.ctx)
    BY <1>1, <1>2 DEF SnapshotFits
  <1>4. Led(log', snapshot.seq, snapshot.state) /\ Holds(log', snapshot.seq, snapshot.ctx) /\ Len(log') = Len(log) + 1
    BY <1>1, <1>3, LedStays, HoldsStays, AppendFacts
  <1> QED BY <1>1, <1>3, <1>4 DEF SnapshotFits

\* So does an engine, if the event moves nothing.
LEMMA EngineStays ==
    ASSUME NEW at \in Pcs, NEW l \in Seq(Events), NEW sn, NEW s, NEW c, NEW j, NEW e \in Events,
           EngineFits(at, l, sn, s, c, j), at # "booting",
           e.type \notin {"SKILL_INITIALIZED", "STATE_TRANSITION", "SIGNAL_REFUSED"}
    PROVE  EngineFits(at, Append(l, e), sn, s, c, j)
  <1>1. Len(l) \in Nat /\ Len(l) \in 0..Len(l) /\ Len(Append(l, e)) = Len(l) + 1
    BY AppendFacts
  <1>2. \A x : Led(l, Len(l), x) => Led(Append(l, e), Len(l) + 1, x)
    BY <1>1, LedStays
  <1>3. \A x : Holds(l, Len(l), x) => Holds(Append(l, e), Len(l) + 1, x)
    BY <1>1, HoldsStays
  <1>4. at \notin {"down", "opened", "booting"} => Led(Append(l, e), Len(l) + 1, s)
    BY <1>2 DEF EngineFits
  <1>5. at \in {"booted", "idle", "looked_up", "checked", "moved"} => Holds(Append(l, e), Len(l) + 1, c)
    BY <1>3 DEF EngineFits
  <1>6. at \in Undecided => Holds(Append(l, e), Len(l) + 1, j.before)
    BY <1>3 DEF EngineFits
  <1>7. j.sub \in 1..Len(l) => j.sub \in 1..(Len(l) + 1)
    BY <1>1
  <1> QED BY <1>1, <1>4, <1>5, <1>6, <1>7 DEF EngineFits

\* Recording the signal: its fields join the context.
LEMMA EmitFits ==
    ASSUME TypeInv, OneProcess, Faithful, NEW p \in Procs, EmitSignal(p)
    PROVE  Faithful'
  <1>t. TypeOK /\ job[p] \in Jobs
    BY DEF TypeInv, TypeOK
  <1> DEFINE e == Event("SIGNAL_EMITTED", job[p].key, 0, 0, job[p].prev, job[p].prev)
             n == Len(log)
  <1>1. e \in Events /\ log' = Append(log, e) /\ e.type = "SIGNAL_EMITTED"
    BY <1>t, EventTyped DEF EventTypes, TypeOK, Jobs, EmitSignal, Append1, Event
  <1> HIDE DEF e
  <1>2. log \in Seq(Events) /\ n \in Nat /\ n \in 0..n /\ Len(log') = n + 1
    BY <1>t, <1>1, AppendFacts DEF TypeOK
  <1>3. /\ snapshot' = snapshot /\ pc[p] = "checked" /\ pc'[p] = "routing" /\ state'[p] = state[p]
        /\ ctx'[p] = ctx[p] \cup {n + 1}
        /\ job' = [job EXCEPT ![p] = [job[p] EXCEPT !.sub = n + 1]]
    BY <1>t DEF EmitSignal, Goto, TypeOK
  <1>4. job'[p].sub = n + 1 /\ job'[p].before = job[p].before
    BY <1>t, <1>3 DEF TypeOK, Jobs
  <1>5. Led(log, n, state[p]) /\ Holds(log, n, ctx[p]) /\ job[p].before = ctx[p] /\ snapshot.ctx \subseteq 1..n
    BY <1>3 DEF Faithful, EngineFits, SnapshotFits, Holds
  <1>6. Led(log', n + 1, state[p]) /\ Holds(log', n + 1, ctx[p])
    BY <1>1, <1>2, <1>5, LedStays, HoldsStays
  <1>7. SnapshotFits(log', snapshot')
    BY <1>t, <1>1, <1>3, SnapshotStays
  <1>8. n + 1 \notin ctx[p] /\ n + 1 \notin snapshot.ctx
    BY <1>2, <1>5 DEF Holds
  <1>9. EngineFits(pc'[p], log', snapshot', state'[p], ctx'[p], job'[p])
    BY <1>2, <1>3, <1>4, <1>5, <1>6, <1>8 DEF EngineFits, Undecided
  <1> QED BY <1>7, <1>9, AloneFits

\* Recording a guard or a view.
LEMMA RecordFits ==
    ASSUME TypeInv, OneProcess, Faithful, NEW p \in Procs, RecordGuard(p) \/ DeliverView(p)
    PROVE  Faithful'
  <1>t. TypeOK /\ job[p] \in Jobs
    BY DEF TypeInv, TypeOK
  <1>1. \E e \in Events :
            /\ log' = Append(log, e)
            /\ e.type \notin {"SKILL_INITIALIZED", "STATE_TRANSITION", "SIGNAL_REFUSED"}
    <2>1. CASE RecordGuard(p)
      <3> DEFINE e == Event(GuardEvent(job[p].guard), NoKey, job[p].sub, job[p].level, job[p].prev, job[p].prev)
      <3>1. job[p].level \in Levels
        BY <2>1, ConstantsAssumption DEF TypeInv, GuardIsDeclared, RecordGuard, Edge
      <3>2. GuardEvent(job[p].guard) \in GuardTypes
        BY <1>t DEF Jobs, GuardEvent, GuardTypes
      <3>3. e \in Events /\ e.type \in GuardTypes /\ log' = Append(log, e)
        BY <1>t, <2>1, <3>1, <3>2, EventTyped DEF EventTypes, GuardTypes, Jobs, RecordGuard, Append1, Event
      <3> QED BY <3>3 DEF GuardTypes
    <2>2. CASE DeliverView(p)
      <3> DEFINE e == Event("AGENT_TURN_STARTED", NoKey, 0, 0, state[p], state[p])
      <3>1. e \in Events /\ e.type = "AGENT_TURN_STARTED" /\ log' = Append(log, e)
        BY <1>t, <2>2, EventTyped DEF EventTypes, TypeOK, DeliverView, Append1, Event
      <3> QED BY <3>1
    <2> QED BY <2>1, <2>2
  <1>2. PICK e \in Events :
            /\ log' = Append(log, e)
            /\ e.type \notin {"SKILL_INITIALIZED", "STATE_TRANSITION", "SIGNAL_REFUSED"}
    BY <1>1
  <1>3. snapshot' = snapshot /\ state'[p] = state[p] /\ ctx'[p] = ctx[p]
    BY DEF RecordGuard, DeliverView
  <1>4. SnapshotFits(log', snapshot')
    BY <1>t, <1>2, <1>3, SnapshotStays
  <1>5. /\ pc[p] \in Pcs /\ pc[p] # "booting" /\ log \in Seq(Events)
        /\ EngineFits(pc[p], log, snapshot, state[p], ctx[p], job[p])
    BY <1>t DEF TypeOK, RecordGuard, DeliverView, Faithful
  <1>6. EngineFits(pc[p], log', snapshot, state[p], ctx[p], job[p])
    BY <1>2, <1>5, EngineStays
  <1>7. /\ job'[p].before = job[p].before /\ job'[p].sub = job[p].sub
        /\ pc'[p] = pc[p] \/ (pc[p] = "guarded" /\ pc'[p] \in {"routing", "accepted"})
    <2>1. CASE DeliverView(p)
      BY <2>1 DEF DeliverView
    <2>2. CASE RecordGuard(p)
      <3>1. pc[p] = "guarded" /\ pc'[p] \in {"routing", "accepted"}
        BY <1>t, <2>2 DEF RecordGuard, Goto, TypeOK
      <3>2. \/ job' = job
            \/ job' = [job EXCEPT ![p] = [job[p] EXCEPT !.level = @ + 1, !.failed = TRUE]]
        BY <1>t, <2>2 DEF RecordGuard, TypeOK
      <3>3. ASSUME NEW n PROVE /\ [job[p] EXCEPT !.level = n, !.failed = TRUE].before = job[p].before
                               /\ [job[p] EXCEPT !.level = n, !.failed = TRUE].sub = job[p].sub
        BY <1>t, Zenon DEF Jobs
      <3>4. job'[p].before = job[p].before /\ job'[p].sub = job[p].sub
        BY ZenonT(30), <1>t, <3>2, <3>3 DEF TypeOK
      <3> QED BY <3>1, <3>4
    <2> QED BY <2>1, <2>2
  <1>8. EngineFits(pc'[p], log', snapshot', state'[p], ctx'[p], job'[p])
    BY <1>3, <1>6, <1>7 DEF EngineFits, Undecided
  <1> QED BY <1>4, <1>8, AloneFits

\* The first event of a run.
LEMMA BootFits ==
    ASSUME TypeInv, OneProcess, Faithful, NEW p \in Procs, Boot(p)
    PROVE  Faithful'
  <1>t. TypeOK
    BY DEF TypeInv
  <1> DEFINE e == Event("SKILL_INITIALIZED", NoKey, 0, 0, InitialState, InitialState)
  <1>1. e \in Events /\ log' = Append(log, e) /\ e.type = "SKILL_INITIALIZED" /\ e.to = InitialState
    BY ConstantsAssumption, EventTyped DEF EventTypes, Boot, Append1, Event
  <1> HIDE DEF e
  <1>2. log \in Seq(Events) /\ Len(log) \in Nat /\ Len(log) \in 0..Len(log) /\ Len(log') = Len(log) + 1
    BY <1>t, <1>1, AppendFacts DEF TypeOK
  <1>3. pc[p] = "booting" /\ pc'[p] = "booted" /\ state'[p] = state[p] /\ ctx'[p] = ctx[p] /\ snapshot' = snapshot
    BY <1>t DEF Boot, Goto, TypeOK
  <1>4. log = <<>> /\ state[p] = InitialState /\ ctx[p] = {}
    BY <1>3 DEF Faithful, EngineFits
  <1>5. Holds(log, Len(log), {})
    BY <1>4 DEF Holds
  <1>6. Led(log', Len(log) + 1, InitialState) /\ Holds(log', Len(log) + 1, {})
    BY <1>1, <1>2, <1>5, LedMoves, HoldsStays
  <1>7. SnapshotFits(log', snapshot')
    BY <1>t, <1>1, <1>3, SnapshotStays
  <1>8. EngineFits(pc'[p], log', snapshot', state'[p], ctx'[p], job'[p])
    BY <1>2, <1>3, <1>4, <1>6 DEF EngineFits, Undecided
  <1> QED BY <1>7, <1>8, AloneFits

\* The transition: the fields of the signal stay.
LEMMA MoveFits ==
    ASSUME TypeInv, Settlement, OneProcess, Faithful, NEW p \in Procs, Transition(p)
    PROVE  Faithful'
  <1>t. TypeOK /\ job[p] \in Jobs
    BY DEF TypeInv, TypeOK
  <1> DEFINE e == Event("STATE_TRANSITION", NoKey, job[p].sub, 0, job[p].prev, job[p].target)
             n == Len(log)
  <1>1. e \in Events /\ log' = Append(log, e) /\ e.type = "STATE_TRANSITION" /\ e.cause = job[p].sub /\ e.to = job[p].target
    BY <1>t, EventTyped DEF EventTypes, TypeOK, Jobs, Transition, Append1, Event
  <1> HIDE DEF e
  <1>2. log \in Seq(Events) /\ n \in Nat /\ n \in 0..n /\ Len(log') = n + 1
    BY <1>t, <1>1, AppendFacts DEF TypeOK
  <1>3. /\ snapshot' = snapshot /\ pc[p] = "accepted" /\ pc'[p] = "moved"
        /\ state'[p] = job[p].target /\ ctx'[p] = ctx[p]
    BY <1>t DEF Transition, Goto, TypeOK
  <1>4. Holds(log, n, job[p].before) /\ ctx[p] = job[p].before \cup {job[p].sub} /\ job[p].sub \in 1..n
    BY <1>3 DEF Faithful, EngineFits, Undecided
  <1>5. \A i \in DOMAIN log : log[i].type = "SIGNAL_REFUSED" => log[i].cause # job[p].sub
    BY <1>3 DEF Settlement, UndecidedIsOpen, Undecided, Settling
  <1>6. Holds(log, n, ctx[p])
    BY <1>2, <1>4, <1>5, HoldsMore
  <1>7. Led(log', n + 1, job[p].target) /\ Holds(log', n + 1, ctx[p])
    BY <1>1, <1>2, <1>4, <1>6, LedMoves, HoldsStays
  <1>8. SnapshotFits(log', snapshot')
    BY <1>t, <1>1, <1>3, SnapshotStays
  <1>9. EngineFits(pc'[p], log', snapshot', state'[p], ctx'[p], job'[p])
    BY <1>2, <1>3, <1>7 DEF EngineFits, Undecided
  <1> QED BY <1>8, <1>9, AloneFits

\* The refusal: the context is what it was before the signal.
LEMMA RefuseFits ==
    ASSUME TypeInv, OneProcess, Faithful, NEW p \in Procs, Refuse(p)
    PROVE  Faithful'
  <1>t. TypeOK /\ job[p] \in Jobs
    BY DEF TypeInv, TypeOK
  <1> DEFINE e == Event("SIGNAL_REFUSED", NoKey, job[p].sub, 0, job[p].prev, job[p].prev)
             n == Len(log)
  <1>1. e \in Events /\ log' = Append(log, e) /\ e.type = "SIGNAL_REFUSED" /\ e.cause = job[p].sub
    BY <1>t, EventTyped DEF EventTypes, TypeOK, Jobs, Refuse, Append1, Event
  <1> HIDE DEF e
  <1>2. log \in Seq(Events) /\ n \in Nat /\ n \in 0..n /\ Len(log') = n + 1
    BY <1>t, <1>1, AppendFacts DEF TypeOK
  <1>3. /\ snapshot' = snapshot /\ pc[p] = "routing" /\ pc'[p] = "idle"
        /\ state'[p] = state[p] /\ ctx'[p] = job[p].before
    BY <1>t DEF Refuse, Goto, TypeOK
  <1>4. /\ Led(log, n, state[p]) /\ Holds(log, n, job[p].before)
        /\ job[p].sub \notin job[p].before /\ job[p].sub \notin snapshot.ctx
    BY <1>3 DEF Faithful, EngineFits, Undecided
  <1>5. Led(log', n + 1, state[p]) /\ Holds(log', n + 1, job[p].before)
    BY <1>1, <1>2, <1>4, LedStays, HoldsStays
  <1>6. SnapshotFits(log', snapshot')
    BY <1>t, <1>1, <1>3, <1>4, SnapshotStays
  <1>7. EngineFits(pc'[p], log', snapshot', state'[p], ctx'[p], job'[p])
    BY <1>2, <1>3, <1>5 DEF EngineFits, Undecided
  <1> QED BY <1>6, <1>7, AloneFits

\* At the start nothing is recorded and no engine is open.
LEMMA FaithfulInit == Init => Faithful
  BY DEF Init, Faithful, SnapshotFits, EngineFits, Led, Holds, StateEvents, Undecided

\* Every step of the one process keeps its engine and the snapshot fitting.
LEMMA FaithfulStep ==
    TypeInv /\ Settlement /\ Explained /\ OneProcess /\ Faithful /\ [Next]_vars => Faithful'
  <1> SUFFICES ASSUME TypeInv, Settlement, Explained, OneProcess, Faithful, [Next]_vars PROVE Faithful'
    OBVIOUS
  <1>1. CASE UNCHANGED vars
    BY <1>1 DEF vars, Faithful
  <1>2. ASSUME NEW p \in Procs, NEW k \in Keys \cup {NoKey}, Submit(p, k) PROVE Faithful'
    BY <1>2, QuietFits
  <1>3. ASSUME NEW p \in Procs, Load(p) \/ Work(p) \/ DeliverView(p) \/ Crash(p) PROVE Faithful'
    BY <1>3, QuietFits, RehydrateFits, SaveFits, EmitFits, RecordFits, BootFits, MoveFits, RefuseFits DEF Load, Work
  <1> QED BY <1>1, <1>2, <1>3 DEF Next

LEMMA FaithfulInvariant == OneProcess => (Spec => []Faithful)
  <1> SUFFICES ASSUME OneProcess PROVE Spec => []Faithful
    OBVIOUS
  <1>1. TypeInv /\ Settlement /\ Explained /\ Faithful /\ [Next]_vars => Faithful'
    BY FaithfulStep
  <1> QED
    BY <1>1, TypeInvariant, SettlementInvariant, ReasonsInit, ReasonsStep, FaithfulInit, PTL DEF Spec

\* With one process, an engine between calls holds the state that the history leads to and the
\* fields of what it accepted and of nothing it refused, through crashes, restarts from a snapshot
\* and calls that ended in a conflict (the constructor and processSignal of FSMEngine).
THEOREM EngineHolds == OneProcess => (Spec => []EngineHoldsHistory)
  <1>1. ASSUME TypeInv, Faithful PROVE EngineHoldsHistory
    <2> SUFFICES ASSUME NEW p \in Procs, pc[p] = "idle"
                 PROVE  /\ state[p] = CommittedState(log)
                        /\ AcceptedSubs(log) \subseteq ctx[p] /\ ctx[p] \cap RefusedSubs(log) = {}
      BY DEF EngineHoldsHistory, EngineHoldsCommittedState, EngineHoldsAcceptedContext
    <2>1. log \in Seq(Events) /\ Len(log) \in Nat /\ DOMAIN log = 1..Len(log)
      BY <1>1 DEF TypeInv, TypeOK
    <2>2. Led(log, Len(log), state[p]) /\ Holds(log, Len(log), ctx[p])
      BY <1>1 DEF Faithful, EngineFits
    <2>3. state[p] = CommittedState(log)
      BY <2>1, <2>2, LedCommitted
    <2>4. AcceptedSubs(log) \subseteq ctx[p] /\ ctx[p] \cap RefusedSubs(log) = {}
      BY <2>1, <2>2 DEF Holds, AcceptedSubs, RefusedSubs
    <2> QED BY <2>3, <2>4
  <1> QED BY <1>1, FaithfulInvariant, TypeInvariant, PTL

\* With one process, a snapshot at n holds the state that the first n events lead to.
THEOREM SnapshotsAreHistory == OneProcess => (Spec => []SnapshotIsPointInTime)
  <1>1. ASSUME TypeInv, Faithful PROVE SnapshotIsPointInTime
    <2> SUFFICES ASSUME snapshot.seq > 0
                 PROVE  snapshot.state = CommittedState(SubSeq(log, 1, snapshot.seq))
      BY DEF SnapshotIsPointInTime
    <2>1. log \in Seq(Events) /\ Len(log) \in Nat /\ snapshot.seq \in Nat
      BY <1>1 DEF TypeInv, TypeOK
    <2>2. snapshot.seq \in 1..Len(log) /\ Led(log, snapshot.seq, snapshot.state)
      BY <1>1, <2>1 DEF Faithful, SnapshotFits
    <2> QED BY <2>1, <2>2, LedPrefix
  <1> QED BY <1>1, FaithfulInvariant, TypeInvariant, PTL
====
