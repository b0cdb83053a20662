---- MODULE Judgments ----
(***************************************************************************)
(* The judgment cascade: several judgments of one process, each asking a    *)
(* primary adapter and then a fallback, over the circuit breakers and the   *)
(* credential rejections they share.                                        *)
(*                                                                          *)
(* Every await is a place where another judgment, or the clock, may go on.  *)
(* Time is counted from the events the code measures it from, and a count   *)
(* stops where no test can tell a later time from it.  The adapters are the *)
(* two that the engine registers itself.  The model adapter may never       *)
(* answer; the script adapter answers, perhaps late.                        *)
(*                                                                          *)
(* A judgment with a person's decision, or whose input fails its preflight, *)
(* asks no adapter and is left out.                                         *)
(***************************************************************************)
EXTENDS Integers, FiniteSetsExt

CONSTANTS
    Judges,             \* judgments that may run at the same time
    Definitions,        \* how each of them may be declared, see Definition
    Total,              \* total_timeout_ms of a bounded judgment
    Limit,              \* timeout_ms, the time of one attempt
    ResetAfter,         \* time after which an open circuit lets a call through
    Threshold           \* failures that open a circuit

Adapters == {"jev", "script"}

\* selfReports: the criterion is natural language; granted: the workspace has a self-report grant.
Definition ==
    [bounded : BOOLEAN, hint : Adapters \cup {"none"}, fallback : Adapters, attempts : 1..2,
     selfReports : BOOLEAN, granted : BOOLEAN]

ASSUME ConstantsAssumption ==
    /\ Definitions \in [Judges -> (SUBSET Definition) \ {{}}]
    /\ Total \in Nat \ {0} /\ Limit \in Nat \ {0} /\ ResetAfter \in Nat /\ Threshold \in Nat \ {0}

VARIABLES
    jev,        \* "absent": no key set; "broken": a key and no SDK; "ready"
    breaker,    \* circuit breaker of each adapter
    rejected,   \* adapters whose last answer rejected the credentials
    judge       \* each judgment's execution, and its result once done

vars == <<jev, breaker, rejected, judge>>

Closed == [state |-> "CLOSED", failures |-> 0, age |-> 0]

Fresh(d) ==
    [pc |-> "primary", def |-> d, age |-> 0,
     primary |-> d.hint, reason |-> "hint",
     asked |-> "none", stage |-> "primary", budget |-> 0, callAge |-> 0, invoked |-> [a \in Adapters |-> 0],
     answer |-> "none", answeredAt |-> 0, failure |-> "none", outage |-> FALSE,
     band |-> "none", target |-> FALSE, kind |-> "none", by |-> "none"]

-----------------------------------------------------------------------------
(* Circuit breakers *)

Resets(a) == breaker[a].state = "OPEN" /\ breaker[a].age > ResetAfter
CanExecute(a) == breaker[a].state # "OPEN" \/ Resets(a)

\* canExecute lets an open circuit that has rested try again.
Probed(a) == IF Resets(a) THEN [breaker EXCEPT ![a].state = "HALF_OPEN", ![a].age = 0] ELSE breaker

RecordSuccess(a) == [breaker EXCEPT ![a] = Closed]

RecordFailure(a) ==
    LET failures == Min({Threshold, breaker[a].failures + 1})
    IN [breaker EXCEPT ![a] = [state |-> IF failures = Threshold THEN "OPEN" ELSE @.state,
                               failures |-> failures, age |-> 0]]

-----------------------------------------------------------------------------
(* One execution *)

Remaining(j) == Total - judge[j].age
Expired(j) == judge[j].def.bounded /\ Remaining(j) = 0

Budget(j) == IF judge[j].def.bounded THEN Min({Limit, Remaining(j)}) ELSE Limit

\* Mutant: an answer counts however late it is.
Late_Never(j) == FALSE

\* The check for an adapter that kept the timer from firing.
Late(j) == judge[j].def.bounded /\ judge[j].callAge >= judge[j].budget

\* An unbounded judgment skips nothing.
SkipReason(j, a) ==
    IF ~judge[j].def.bounded THEN "none"
    ELSE IF Expired(j) THEN "total_deadline"
    ELSE IF judge[j].invoked[a] >= judge[j].def.attempts THEN "adapter_attempt_limit"
    ELSE IF ~CanExecute(a) THEN "circuit_open" ELSE "none"

\* The circuit is looked at last.
SkipProbes(j, a) == judge[j].def.bounded /\ SkipReason(j, a) \in {"none", "circuit_open"}

Asking(j, a, stage) ==
    [judge[j] EXCEPT !.pc = "asked", !.stage = stage, !.asked = a, !.budget = Budget(j), !.callAge = 0,
                     !.invoked[a] = @ + 1]

Failed(r, failure) == [r EXCEPT !.pc = "settle", !.failure = failure]

\* A result; what only the cascade needs is gone.
End(r, band, target, kind, by) ==
    [r EXCEPT !.pc = "done", !.band = band, !.target = target, !.kind = kind, !.by = by, !.invoked = [a \in Adapters |-> 0],
              !.asked = "none", !.stage = "primary", !.budget = 0, !.callAge = 0,
              !.answer = "none", !.failure = "none", !.outage = FALSE]

Unevaluable(r, kind) == End(r, "unevaluable", FALSE, kind, "none")

SelfReported(r) == r.asked = "script" /\ r.def.selfReports

\* applyDecision: a verdict below the threshold names a target to go to, which may be the one to escalate to.
Decided(r) ==
    End(r, r.answer, r.answer # "accept", "none",
        IF SelfReported(r) THEN "self_reported" ELSE IF r.asked = "script" THEN "expression" ELSE "model")

\* Mutant: a grant is enough.
Concluded_Granted(r) == IF SelfReported(r) /\ ~r.def.granted THEN Unevaluable(r, "no_model") ELSE Decided(r)

\* A verdict counts unless it is self-reported while a model is out, or without a grant.
Concluded(r) ==
    IF SelfReported(r) /\ r.outage THEN Unevaluable(r, r.kind)
    ELSE IF SelfReported(r) /\ ~r.def.granted THEN Unevaluable(r, "no_model")
    ELSE Decided(r)

-----------------------------------------------------------------------------
Init ==
    /\ jev \in {"absent", "broken", "ready"}
    /\ breaker = [a \in Adapters |-> Closed]
    /\ rejected = {}
    /\ judge = [j \in Judges |-> [Fresh(CHOOSE d \in Definitions[j] : TRUE) EXCEPT !.pc = "done"]]

\* evaluate up to its first await: a hint names the primary, otherwise jev is asked for unless its circuit is open.
Start(j, d) ==
    /\ judge[j].pc = "done"
    /\ judge' = [judge EXCEPT ![j] =
            IF d.hint # "none" THEN Fresh(d)
            ELSE IF CanExecute("jev") THEN [Fresh(d) EXCEPT !.pc = "available"]
            ELSE [Fresh(d) EXCEPT !.primary = "script", !.reason = "circuit_open"]]
    /\ breaker' = IF d.hint = "none" THEN Probed("jev") ELSE breaker
    /\ UNCHANGED <<jev, rejected>>

\* isAvailable answers, or the deadline ends the judgment first.
Available(j) ==
    /\ judge[j].pc = "available"
    /\ judge' = [judge EXCEPT ![j] =
            IF Expired(j) THEN Unevaluable(@, "outage")
            ELSE [@ EXCEPT !.pc = "primary",
                           !.primary = IF jev = "ready" THEN "jev" ELSE "script",
                           !.reason = IF jev = "ready" THEN "available" ELSE "unavailable"]]
    /\ UNCHANGED <<jev, breaker, rejected>>

\* evaluatePrimary: the primary has failed when its circuit is open or nothing is left of the deadline.
AskPrimary(j) ==
    LET a == judge[j].primary
        skipped == SkipReason(j, a) # "none"
    IN
    /\ judge[j].pc = "primary"
    /\ breaker' = Probed(a)
    /\ judge' = [judge EXCEPT ![j] =
            IF ~CanExecute(a) \/ skipped THEN Failed(@, "outage") ELSE Asking(j, a, "primary")]
    /\ rejected' = IF CanExecute(a) /\ skipped THEN rejected \ {a} ELSE rejected
    /\ UNCHANGED jev

\* fallbackFailure: only an unbounded judgment without a configured model goes to the fallback target.
FallbackFailed(j, r, failure) ==
    LET a == r.def.fallback
        kind == IF failure \in {"authoring", "credentials"} THEN failure
                ELSE IF failure = "circuit_open" /\ a \in rejected THEN "credentials" ELSE r.kind
    IN
    /\ judge' = [judge EXCEPT ![j] =
            IF r.def.bounded THEN Unevaluable(r, kind)
            ELSE IF r.outage THEN Unevaluable(r, r.kind) ELSE End(r, "reject", TRUE, "none", "none")]
    /\ rejected' = IF ~r.def.bounded \/ kind = "authoring" THEN rejected
                   ELSE IF kind = "credentials" THEN rejected \cup {a} ELSE rejected \ {a}

\* The model that is configured and cannot answer, once the deadline has passed only a primary that failed.
Outage(j) ==
    /\ judge[j].reason \in {"circuit_open", "unavailable"} \/ (judge[j].failure # "none" /\ judge[j].primary = "jev")
    /\ IF Expired(j) THEN judge[j].primary = "jev" ELSE jev # "absent"

\* An earlier rejection is reported while the circuit is open.
FailureKind(j) ==
    IF judge[j].failure = "authoring" THEN "authoring"
    ELSE IF judge[j].failure = "credentials" \/ (Outage(j) /\ "jev" \in rejected) THEN "credentials" ELSE "outage"

\* detectOutage, then the conclusion or the fallback.
Settle(j) ==
    LET r == [judge[j] EXCEPT !.outage = Outage(j), !.kind = FailureKind(j)]
        a == r.def.fallback
    IN
    /\ judge[j].pc = "settle"
    /\ IF r.failure = "none"
       THEN judge' = [judge EXCEPT ![j] = Concluded(r)] /\ UNCHANGED <<breaker, rejected>>
       ELSE /\ breaker' = IF SkipProbes(j, a) THEN Probed(a) ELSE breaker
            /\ IF SkipReason(j, a) # "none" THEN FallbackFailed(j, r, SkipReason(j, a))
               ELSE judge' = [judge EXCEPT ![j] = [Asking(j, a, "fallback") EXCEPT !.outage = r.outage, !.kind = r.kind]]
                    /\ UNCHANGED rejected
    /\ UNCHANGED jev

\* Only the primary of an unbounded judgment counts for its circuit.
Manages(j) == judge[j].stage = "primary" \/ judge[j].def.bounded

\* An adapter's verdict that came in time.
Succeeds(j, answer) ==
    LET a == judge[j].asked
        r == [judge[j] EXCEPT !.answer = answer, !.answeredAt = judge[j].age]
    IN
    /\ judge' = [judge EXCEPT ![j] = IF r.stage = "primary" THEN [r EXCEPT !.pc = "settle"] ELSE Concluded(r)]
    /\ breaker' = IF Manages(j) THEN RecordSuccess(a) ELSE breaker
    /\ rejected' = IF Manages(j) THEN rejected \ {a} ELSE rejected

\* An error or a timeout; a bounded judgment ends on an error of its primary that no other adapter mends.
Fails(j, failure) ==
    LET a == judge[j].asked IN
    /\ breaker' = IF Manages(j) /\ failure # "authoring" THEN RecordFailure(a) ELSE breaker
    /\ IF judge[j].stage = "fallback" THEN FallbackFailed(j, judge[j], failure)
       ELSE /\ judge' = [judge EXCEPT ![j] =
                    IF @.def.bounded /\ failure # "outage" THEN Unevaluable(@, failure) ELSE Failed(@, failure)]
            /\ rejected' = CASE failure = "credentials" -> rejected \cup {a}
                             [] failure = "outage"      -> rejected \ {a}
                             [] OTHER                   -> rejected

\* What the model says or throws: without a working SDK, or without a key, it only throws.
JevAnswers ==
    CASE jev = "ready"  -> {"accept", "reject", "credentials", "authoring", "outage"}
      [] jev = "broken" -> {"outage"}
      [] OTHER          -> {"authoring", "outage"}
Errors == {"credentials", "authoring", "outage"}

JevAnswer(j) ==
    /\ judge[j].pc = "asked" /\ judge[j].asked = "jev"
    /\ \E answer \in JevAnswers :
        IF answer \in Errors THEN Fails(j, answer) ELSE IF Late(j) THEN Fails(j, "outage") ELSE Succeeds(j, answer)
    /\ UNCHANGED jev

\* The script adapter always gives a verdict, and holds the timers up until it has.
ScriptAnswer(j) ==
    /\ judge[j].pc = "asked" /\ judge[j].asked = "script"
    /\ \E answer \in {"accept", "reject"} : IF Late(j) THEN Fails(j, "outage") ELSE Succeeds(j, answer)
    /\ UNCHANGED jev

\* Mutant: only bounded judgments have a timer.
Timer_Bounded(j) ==
    /\ judge[j].pc = "asked" /\ judge[j].asked = "jev" /\ judge[j].def.bounded
    /\ judge[j].callAge >= judge[j].budget
    /\ Fails(j, "outage")
    /\ UNCHANGED jev

\* The execution's timer, or without a total the adapter's own.  The adapter is abandoned.
Timer(j) ==
    /\ judge[j].pc = "asked" /\ judge[j].asked = "jev" /\ judge[j].callAge >= judge[j].budget
    /\ Fails(j, "outage")
    /\ UNCHANGED jev

Older(n, cap) == Min({n + 1, cap})

\* Time passes for every judgment under way and every open circuit.
Tick ==
    /\ judge' = [j \in Judges |->
            IF judge[j].pc = "done" THEN judge[j]
            ELSE [judge[j] EXCEPT !.age = IF judge[j].def.bounded THEN Older(@, Total) ELSE @,
                                  !.callAge = IF judge[j].pc = "asked" THEN Older(@, Limit) ELSE @]]
    /\ breaker' = [a \in Adapters |->
            [breaker[a] EXCEPT !.age = IF breaker[a].state = "OPEN" THEN Older(@, ResetAfter + 1) ELSE @]]
    /\ <<judge, breaker>>' # <<judge, breaker>>
    /\ UNCHANGED <<jev, rejected>>

Step(j) == Available(j) \/ AskPrimary(j) \/ Settle(j) \/ ScriptAnswer(j)

Next ==
    \/ \E j \in Judges : Step(j) \/ JevAnswer(j) \/ Timer(j) \/ \E d \in Definitions[j] : Start(j, d)
    \/ Tick

\* The event loop runs what is due and the clock goes on; the model need not answer.
Fairness ==
    /\ WF_vars(Tick)
    /\ \A j \in Judges : WF_vars(Step(j)) /\ WF_vars(Timer(j))

Spec == Init /\ [][Next]_vars /\ Fairness

-----------------------------------------------------------------------------
(* Properties *)

\* An adapter that is asked has time to answer.
TypeOK ==
    /\ \A j \in Judges : judge[j].pc = "asked" => judge[j].budget > 0
    /\ jev \in {"absent", "broken", "ready"}
    /\ breaker \in [Adapters -> [state : {"CLOSED", "OPEN", "HALF_OPEN"}, failures : 0..Threshold, age : 0..ResetAfter + 1]]
    /\ rejected \subseteq Adapters
    /\ judge \in [Judges ->
        [pc : {"available", "primary", "asked", "settle", "done"}, def : Definition, age : 0..Total,
         primary : Adapters \cup {"none"}, reason : {"hint", "available", "unavailable", "circuit_open"},
         asked : Adapters \cup {"none"}, stage : {"primary", "fallback"}, budget : 0..Limit, callAge : 0..Limit,
         invoked : [Adapters -> 0..2], answer : {"none", "accept", "reject"}, answeredAt : 0..Total,
         failure : Errors \cup {"none"}, outage : BOOLEAN,
         band : {"none", "accept", "reject", "unevaluable"}, target : BOOLEAN,
         kind : Errors \cup {"none", "no_model"}, by : {"none", "model", "expression", "self_reported"}]]

\* A model was chosen or would have been, and could not answer.
ModelWasOut(r) == jev # "absent" /\ (r.reason \in {"circuit_open", "unavailable"} \/ r.primary = "jev")

\* The agent's own report decides a judgment only where an operator granted it, and never while a
\* configured model is out, whatever other judgments do to the circuit meanwhile.  A bounded
\* judgment that the script adapter decides on its last moment is the exception: the question
\* whether the model is configured then times out (detectOutage).
SelfReportsAreCovered ==
    \A j \in Judges : judge[j].by = "self_reported" =>
        /\ judge[j].def.granted
        /\ ModelWasOut(judge[j]) => Expired(j) /\ judge[j].primary = "script"

\* A run is sent to a target only by a verdict; when nobody judged it stays where it is.  Only an
\* unbounded judgment that names a fallback adapter is different, when no model is configured, or
\* when its hint asks the script adapter first, whose open circuit is no outage to the cascade.
OnlyVerdictsRoute ==
    \A j \in Judges : judge[j].target /\ judge[j].by = "none" =>
        ~judge[j].def.bounded /\ (jev = "absent" \/ judge[j].def.hint = "script")

\* What decides a bounded judgment was said before its deadline, although an adapter may hold up the timers or answer after they fired (wait).
DecidedInTime ==
    \A j \in Judges : judge[j].def.bounded /\ judge[j].by # "none" =>
        judge[j].answeredAt < Total

\* A bounded judgment asks no adapter more often than its policy allows, also when primary and
\* fallback are the same adapter (skipReason).
AttemptsAreLimited ==
    \A j \in Judges : judge[j].def.bounded => \A a \in Adapters : judge[j].invoked[a] <= judge[j].def.attempts

\* Every judgment ends, although the model need not answer.
EveryJudgmentEnds == \A j \in Judges : judge[j].pc # "done" ~> judge[j].pc = "done"

\* What moves a run is a verdict somebody was entitled to give.
VerdictsAreEarned == TypeOK /\ SelfReportsAreCovered /\ OnlyVerdictsRoute

\* A bounded judgment keeps to its deadline and to its number of attempts.
BoundsAreKept == DecidedInTime /\ AttemptsAreLimited
====
