---- MODULE AgentsAndMirror_proof ----
(***************************************************************************)
(* Proofs about what a run takes from its agents, what it shows them and    *)
(* the copy that is kept of it: the invariants of Judgments for every       *)
(* number of judgments, every way to declare them and all times and limits; *)
(* of DeltaViews for every set of agents, keys, states, hooks, submissions  *)
(* and earlier ledgers, and any number of calls and faults; and of          *)
(* JsonlMirror for a store that one process uses, with segments and chunks  *)
(* of any length and any number of events, changes and faults.  The three   *)
(* share no state; they share the lemmas about sequences and sets.          *)
(*                                                                          *)
(* Judgments: what moves a run is a verdict somebody was entitled to give.  *)
(* Judgments share circuit breakers and credential rejections, and no       *)
(* property may rest on them: Good speaks of one judgment and of jev, which *)
(* no step changes, and nothing else.  The cascade decides from the circuit *)
(* as it is when it looks, but what it then writes into its own record is   *)
(* enough.                                                                  *)
(*                                                                          *)
(* Out says that a configured model was to decide and cannot.  A judgment   *)
(* that asks its fallback knows it (outage, in Asked), because it has taken *)
(* its primary for failed before the deadline; one that settles on its      *)
(* primary's answer may not, when the deadline has passed meanwhile: the    *)
(* exception that Entitled keeps and SelfReportsAreCovered states.          *)
(*                                                                          *)
(* An attempt lasts no longer than the deadline leaves it, and its time and *)
(* that of its judgment go on together, so an answer within the attempt is  *)
(* one before the deadline (Asked, InTimeBeforeDeadline).                   *)
(*                                                                          *)
(* DeltaViews: what an agent holds is the run at its last view.  A delta is *)
(* read over what its agent held at the anchor, so the invariant is about   *)
(* every position that some view may be anchored at: the agent's, its       *)
(* session's, that of a submission and that of a view on its way.           *)
(* HoldsSince says of one what survives any writing of others: the agent    *)
(* holds what the anchored state showed where nothing was written since.    *)
(* DeltaIsExact says that the delta's keys are those written since,         *)
(* HiddenWasShown that the rest of what a state shows was shown at the      *)
(* anchor.  An engine is the run, or the run and the fields its guard sees  *)
(* (EngineIsRun), unless it leaked them.                                    *)
(*                                                                          *)
(* JsonlMirror: a certificate that would be accepted hides no row of the    *)
(* ledger it names (CertificateHolds), whatever became of the files since.  *)
(* What makes that inductive is what the process in the section answers     *)
(* for: its boundary covers every row (AtBoundary), and every row is in a   *)
(* segment it extends, beyond such a segment, or among the lines it has     *)
(* still to write (Covered, Section), for a certificate takes the digests   *)
(* of completed chunks over from the segment it extends (DigestIs).         *)
(*                                                                          *)
(* That a repaired mirror is complete needs more: the lock is never lost to *)
(* anybody (Locking), and what an open verified, and an append found of the *)
(* same lengths in a mirror nothing was done to, is still there (Kept).     *)
(* Saved says where an event is while the ledger is being replaced, and     *)
(* Neat that the segments are in the order of the ledger, with room at      *)
(* their end only for what is missing.                                      *)
(***************************************************************************)
EXTENDS Judgments, DeltaViews, JsonlMirror, SetFacts, SequenceTheorems

-----------------------------------------------------------------------------
(* The invariant *)

\* The states of jev, the circuit breakers and the records of a judgment, as TypeOK has them.
Jevs == {"absent", "broken", "ready"}
Breakers == [state : {"CLOSED", "OPEN", "HALF_OPEN"}, failures : 0..Threshold, age : 0..ResetAfter + 1]
Kinds == Errors \cup {"none", "no_model"}
Bands == {"none", "accept", "reject", "unevaluable"}
Deciders == {"none", "model", "expression", "self_reported"}

Judgment ==
    [pc : {"available", "primary", "asked", "settle", "done"}, def : Definition, age : 0..Total,
     primary : Adapters \cup {"none"}, reason : {"hint", "available", "unavailable", "circuit_open"},
     asked : Adapters \cup {"none"}, stage : {"primary", "fallback"}, budget : 0..Limit, callAge : 0..Limit,
     invoked : [Adapters -> 0..2], answer : {"none", "accept", "reject"}, answeredAt : 0..Total,
     failure : Errors \cup {"none"}, outage : BOOLEAN,
     band : Bands, target : BOOLEAN, kind : Kinds, by : Deciders]

\* What the variables range over.
Typed ==
    /\ jev \in Jevs /\ breaker \in [Adapters -> Breakers] /\ rejected \subseteq Adapters
    /\ judge \in [Judges -> Judgment]

\* With jev in state m, judgment r was to be decided by a model that is configured and out.
Out(r, m) == m # "absent" /\ (r.reason \in {"circuit_open", "unavailable"} \/ r.primary = "jev")

\* Which adapter is asked first, and why.
Chosen(r) ==
    /\ r.primary \in Adapters
    /\ r.reason = "hint" => r.primary = r.def.hint
    /\ r.reason = "available" => r.primary = "jev"

\* An adapter is asked: it has time, and an answer in time comes before the deadline.
Asked(r, m) ==
    /\ r.asked \in Adapters /\ r.budget > 0
    /\ r.def.bounded /\ r.callAge < r.budget => r.age + r.budget <= Total + r.callAge
    /\ r.stage = "primary" => r.asked = r.primary /\ r.failure = "none" /\ \A a \in Adapters : r.invoked[a] <= 1
    /\ r.stage = "fallback" => (Out(r, m) => r.outage)

\* The primary has answered or failed.
Settling(r) ==
    /\ \A a \in Adapters : r.invoked[a] <= 1
    /\ r.failure = "none" => /\ r.asked = r.primary /\ r.answer # "none"
                             /\ r.def.bounded => r.answeredAt < Total

\* What the result of a judgment rests on.
Entitled(r, m) ==
    /\ r.by = "self_reported" =>
        r.def.granted /\ (Out(r, m) => r.def.bounded /\ r.age = Total /\ r.primary = "script")
    /\ r.target /\ r.by = "none" => ~r.def.bounded /\ (m = "absent" \/ r.def.hint = "script")
    /\ r.def.bounded /\ r.by # "none" => r.answeredAt < Total

\* A judgment whose record is consistent, at the point it has reached.
Good(r, m) ==
    /\ r.pc \in {"primary", "asked", "settle"} => Chosen(r)
    /\ r.pc \in {"available", "primary"} => r.invoked = [a \in Adapters |-> 0] /\ r.failure = "none"
    /\ r.pc = "asked" => Asked(r, m)
    /\ r.pc = "settle" => Settling(r)
    /\ r.pc # "done" => r.by = "none" /\ ~r.target
    /\ r.def.bounded => \A a \in Adapters : r.invoked[a] <= r.def.attempts
    /\ Entitled(r, m)

\* The inductive invariant: every judgment is good, whatever the others do.
Inv == Typed /\ \A j \in Judges : Good(judge[j], jev)

-----------------------------------------------------------------------------
(* Numbers and circuit breakers *)

\* The smaller of two numbers.
LEMMA MinOfTwo ==
    ASSUME NEW a \in Nat, NEW b \in Nat
    PROVE  Min({a, b}) \in Nat /\ Min({a, b}) <= a /\ Min({a, b}) <= b /\ Min({a, b}) \in {a, b}
  <1>1. \E x \in {a, b} : \A y \in {a, b} : x <= y
    OBVIOUS
  <1>2. Min({a, b}) \in {a, b} /\ \A y \in {a, b} : Min({a, b}) <= y
    BY <1>1 DEF Min
  <1> QED BY <1>2

\* What is done to a circuit breaker leaves a circuit breaker.
LEMMA BreakersTyped ==
    ASSUME ConstantsAssumption, breaker \in [Adapters -> Breakers], NEW a \in Adapters
    PROVE  /\ Probed(a) \in [Adapters -> Breakers]
           /\ RecordSuccess(a) \in [Adapters -> Breakers]
           /\ RecordFailure(a) \in [Adapters -> Breakers]
  <1>1. ResetAfter \in Nat /\ Threshold \in Nat /\ Threshold # 0
    BY DEF ConstantsAssumption
  <1>2. breaker[a] \in Breakers
    OBVIOUS
  <1>3. Probed(a) \in [Adapters -> Breakers]
    <2> DEFINE b == [[breaker[a] EXCEPT !.state = "HALF_OPEN"] EXCEPT !.age = 0]
    <2>1. b \in Breakers
      <3>0. breaker[a] = [state |-> breaker[a].state, failures |-> breaker[a].failures, age |-> breaker[a].age]
        BY <1>2 DEF Breakers
      <3> DEFINE c == [breaker[a] EXCEPT !.state = "HALF_OPEN"]
      <3>a. c = [state |-> "HALF_OPEN", failures |-> breaker[a].failures, age |-> breaker[a].age]
        BY <3>0
      <3>b. b = [c EXCEPT !.age = 0]
        OBVIOUS
      <3> HIDE DEF c, b
      <3>1. b = [state |-> "HALF_OPEN", failures |-> breaker[a].failures, age |-> 0]
        BY <3>a, <3>b
      <3>2. breaker[a].failures \in 0..Threshold /\ 0 \in 0..ResetAfter + 1
        BY <1>1, <1>2 DEF Breakers
      <3> QED BY <3>1, <3>2 DEF Breakers
    <2>2. [breaker EXCEPT ![a].state = "HALF_OPEN", ![a].age = 0] = [breaker EXCEPT ![a] = b]
      OBVIOUS
    <2> HIDE DEF b
    <2> QED BY <2>1, <2>2 DEF Probed
  <1>4. RecordSuccess(a) \in [Adapters -> Breakers]
    <2>1. Closed \in Breakers
      BY <1>1 DEF Closed, Breakers
    <2> QED BY <2>1 DEF RecordSuccess
  <1>5. RecordFailure(a) \in [Adapters -> Breakers]
    <2> DEFINE f == Min({Threshold, breaker[a].failures + 1})
               b == [state |-> IF f = Threshold THEN "OPEN" ELSE breaker[a].state, failures |-> f, age |-> 0]
    <2>1. breaker[a].failures \in Nat /\ breaker[a].state \in {"CLOSED", "OPEN", "HALF_OPEN"}
      BY <1>1, <1>2 DEF Breakers
    <2>2. f \in 0..Threshold
      BY <1>1, <2>1, MinOfTwo
    <2>3. RecordFailure(a) = [breaker EXCEPT ![a] = b]
      BY DEF RecordFailure
    <2> HIDE DEF f
    <2>4. b \in Breakers
      BY <1>1, <2>1, <2>2 DEF Breakers
    <2> HIDE DEF b
    <2> QED BY <2>3, <2>4
  <1> QED BY <1>3, <1>4, <1>5

-----------------------------------------------------------------------------
(* Results *)

\* The declarations a judgment may have.
LEMMA DefinitionFacts ==
    ASSUME NEW r \in Judgment
    PROVE  /\ r.def \in Definition /\ r.def.bounded \in BOOLEAN /\ r.def.hint \in Adapters \cup {"none"}
           /\ r.def.fallback \in Adapters /\ r.def.attempts \in {1, 2}
           /\ r.def.selfReports \in BOOLEAN /\ r.def.granted \in BOOLEAN
  <1>1. r.def \in Definition
    BY DEF Judgment
  <1> QED BY <1>1 DEF Definition

\* A result keeps what it is a result of.
LEMMA EndFacts ==
    ASSUME ConstantsAssumption, NEW r \in Judgment, NEW band \in Bands,
           NEW target \in BOOLEAN, NEW kind \in Kinds, NEW by \in Deciders,
           NEW e, e = End(r, band, target, kind, by)
    PROVE  /\ e \in Judgment
           /\ e.pc = "done" /\ e.target = target /\ e.by = by /\ e.invoked = [a \in Adapters |-> 0]
           /\ e.def = r.def /\ e.age = r.age /\ e.primary = r.primary /\ e.reason = r.reason
           /\ e.answeredAt = r.answeredAt
  <1>1. Total \in Nat /\ Limit \in Nat
    BY DEF ConstantsAssumption
  <1>2. [a \in Adapters |-> 0] \in [Adapters -> 0..2]
    OBVIOUS
  <1>3. r = [pc |-> r.pc, def |-> r.def, age |-> r.age, primary |-> r.primary, reason |-> r.reason,
             asked |-> r.asked, stage |-> r.stage, budget |-> r.budget, callAge |-> r.callAge, invoked |-> r.invoked,
             answer |-> r.answer, answeredAt |-> r.answeredAt, failure |-> r.failure, outage |-> r.outage,
             band |-> r.band, target |-> r.target, kind |-> r.kind, by |-> r.by]
    BY DEF Judgment
  <1>4. e = [pc |-> "done", def |-> r.def, age |-> r.age, primary |-> r.primary, reason |-> r.reason,
             asked |-> "none", stage |-> "primary", budget |-> 0, callAge |-> 0, invoked |-> [a \in Adapters |-> 0],
             answer |-> "none", answeredAt |-> r.answeredAt, failure |-> "none", outage |-> FALSE,
             band |-> band, target |-> target, kind |-> kind, by |-> by]
    BY <1>3 DEF End
  <1>5. /\ r.def \in Definition /\ r.age \in 0..Total /\ r.primary \in Adapters \cup {"none"}
        /\ r.reason \in {"hint", "available", "unavailable", "circuit_open"} /\ r.answeredAt \in 0..Total
    BY DEF Judgment
  <1>6. 0 \in 0..Limit /\ "none" \in Adapters \cup {"none"} /\ "none" \in Errors \cup {"none"}
    BY <1>1
  <1>7. e \in Judgment
    BY <1>2, <1>4, <1>5, <1>6 DEF Judgment
  <1> QED BY <1>4, <1>7

\* What a result must rest on to be good.
LEMMA EndGood ==
    ASSUME ConstantsAssumption, NEW m, NEW r \in Judgment,
           NEW band \in Bands,
           NEW target \in BOOLEAN, NEW kind \in Kinds, NEW by \in Deciders,
           by = "self_reported" =>
               r.def.granted /\ (Out(r, m) => r.def.bounded /\ r.age = Total /\ r.primary = "script"),
           target /\ by = "none" => ~r.def.bounded /\ (m = "absent" \/ r.def.hint = "script"),
           r.def.bounded /\ by # "none" => r.answeredAt < Total
    PROVE  End(r, band, target, kind, by) \in Judgment /\ Good(End(r, band, target, kind, by), m)
  <1> DEFINE e == End(r, band, target, kind, by)
  <1>0. e = End(r, band, target, kind, by)
    OBVIOUS
  <1> HIDE DEF e
  <1>1. /\ e \in Judgment
        /\ e.pc = "done" /\ e.target = target /\ e.by = by /\ e.invoked = [a \in Adapters |-> 0]
        /\ e.def = r.def /\ e.age = r.age /\ e.primary = r.primary /\ e.reason = r.reason
        /\ e.answeredAt = r.answeredAt
    BY <1>0, EndFacts
  <1>2. Out(e, m) <=> Out(r, m)
    BY <1>1 DEF Out
  <1>3. Entitled(e, m)
    BY <1>1, <1>2 DEF Entitled
  <1>4. \A a \in Adapters : e.invoked[a] <= e.def.attempts
    <2>1. e.def.attempts \in {1, 2}
      BY <1>1, DefinitionFacts
    <2> QED BY <1>1, <2>1
  <1>5. Good(e, m)
    BY <1>1, <1>3, <1>4 DEF Good
  <1> QED BY <1>0, <1>1, <1>5

\* A judgment nobody decided routes nothing.
LEMMA UnevaluableGood ==
    ASSUME ConstantsAssumption, NEW m, NEW r \in Judgment, NEW kind \in Kinds
    PROVE  Unevaluable(r, kind) \in Judgment /\ Good(Unevaluable(r, kind), m)
  <1> DEFINE t == FALSE
             by == "none"
  <1>1. "unevaluable" \in Bands /\ t \in BOOLEAN /\ by \in Deciders /\ ~t /\ by = "none"
    BY DEF Bands, Deciders
  <1>2. Unevaluable(r, kind) = End(r, "unevaluable", t, kind, by)
    BY DEF Unevaluable
  <1> HIDE DEF t, by
  <1>3. by # "self_reported"
    BY <1>1
  <1> QED BY <1>1, <1>2, <1>3, EndGood

\* A verdict is good when it came in time, and a self-report when no model is known to be out.
LEMMA ConcludedGood ==
    ASSUME ConstantsAssumption, NEW m, NEW r \in Judgment, r.answer # "none",
           r.def.bounded => r.answeredAt < Total,
           SelfReported(r) /\ Out(r, m) /\ ~r.outage => r.def.bounded /\ r.age = Total /\ r.primary = "script"
    PROVE  Concluded(r) \in Judgment /\ Good(Concluded(r), m)
  <1> DEFINE by == IF SelfReported(r) THEN "self_reported" ELSE IF r.asked = "script" THEN "expression" ELSE "model"
             t == r.answer # "accept"
  <1>1. r.answer \in {"accept", "reject"} /\ r.kind \in Kinds /\ r.def.granted \in BOOLEAN
    <2>1. r.def.granted \in BOOLEAN
      BY DefinitionFacts
    <2> QED BY <2>1 DEF Judgment
  <1>2. CASE SelfReported(r) /\ r.outage
    <2>1. Concluded(r) = Unevaluable(r, r.kind)
      BY <1>2 DEF Concluded
    <2> QED BY <2>1, <1>1, UnevaluableGood
  <1>3. CASE SelfReported(r) /\ ~r.outage /\ ~r.def.granted
    <2>1. Concluded(r) = Unevaluable(r, "no_model")
      BY <1>3 DEF Concluded
    <2>2. "no_model" \in Kinds
      BY DEF Kinds
    <2> QED BY <2>1, <2>2, UnevaluableGood
  <1>4. CASE SelfReported(r) => ~r.outage /\ r.def.granted
    <2>1. Concluded(r) = End(r, r.answer, t, "none", by) /\ t \in BOOLEAN
      BY <1>4 DEF Concluded, Decided
    <2>2. by \in {"model", "expression", "self_reported"} /\ (by = "self_reported" => SelfReported(r))
      BY Zenon
    <2>3. "none" \in Kinds
      BY DEF Kinds
    <2>4. r.answer \in Bands
      BY <1>1 DEF Bands
    <2> HIDE DEF by, t
    <2>5. /\ by = "self_reported" =>
              r.def.granted /\ (Out(r, m) => r.def.bounded /\ r.age = Total /\ r.primary = "script")
          /\ by # "none" /\ by \in Deciders
      BY <1>4, <2>2 DEF Deciders
    <2> QED BY <2>1, <2>3, <2>4, <2>5, EndGood
  <1> QED BY <1>2, <1>3, <1>4

\* A fallback that gave nothing routes an unbounded judgment that no configured model was to decide.
LEMMA TargetGood ==
    ASSUME ConstantsAssumption, NEW m, NEW r \in Judgment, Chosen(r), ~r.def.bounded, ~Out(r, m)
    PROVE  End(r, "reject", TRUE, "none", "none") \in Judgment /\ Good(End(r, "reject", TRUE, "none", "none"), m)
  <1>1. m = "absent" \/ r.def.hint = "script"
    <2>1. r.reason \in {"hint", "available", "unavailable", "circuit_open"}
      BY DEF Judgment
    <2> QED BY <2>1 DEF Chosen, Out, Adapters
  <1>2. "none" \in Kinds /\ "reject" \in Bands /\ "none" \in Deciders
    BY DEF Kinds, Bands, Deciders
  <1> QED BY <1>1, <1>2, EndGood

-----------------------------------------------------------------------------
(* What the cascade makes of a judgment *)

\* Nothing is skipped: a bounded judgment has time left and another attempt.
LEMMA NotSkipped ==
    ASSUME ConstantsAssumption, NEW j \in Judges, judge[j] \in Judgment, NEW a \in Adapters, SkipReason(j, a) = "none"
    PROVE  judge[j].def.bounded => judge[j].age < Total /\ judge[j].invoked[a] < judge[j].def.attempts
  <1>1. judge[j].age \in 0..Total /\ Total \in Nat /\ judge[j].def.attempts \in {1, 2} /\ judge[j].invoked[a] \in 0..2
    <2>1. judge[j].def.attempts \in {1, 2}
      BY DefinitionFacts
    <2> QED BY <2>1 DEF Judgment, ConstantsAssumption
  <1>2. ASSUME judge[j].def.bounded
        PROVE  Total - judge[j].age # 0 /\ ~(judge[j].invoked[a] >= judge[j].def.attempts)
    BY <1>2 DEF SkipReason, Expired, Remaining
  <1> QED BY <1>1, <1>2

\* The time an attempt has: some, and no more than is left.
LEMMA BudgetFacts ==
    ASSUME ConstantsAssumption, NEW j \in Judges, judge[j] \in Judgment,
           judge[j].def.bounded => judge[j].age < Total
    PROVE  /\ Budget(j) \in 0..Limit /\ Budget(j) > 0
           /\ judge[j].def.bounded => judge[j].age + Budget(j) <= Total
  <1>1. judge[j].age \in 0..Total /\ Total \in Nat /\ Limit \in Nat /\ Limit > 0
    BY DEF Judgment, ConstantsAssumption
  <1>2. CASE judge[j].def.bounded
    <2> DEFINE left == Total - judge[j].age
               b == Min({Limit, left})
    <2>1. left \in Nat /\ left > 0
      BY <1>1, <1>2
    <2>2. Budget(j) = b
      BY <1>2 DEF Budget, Remaining
    <2>3. judge[j].age + left = Total
      BY <1>1
    <2> HIDE DEF left
    <2>4. b \in Nat /\ b <= Limit /\ b <= left /\ b \in {Limit, left}
      BY <1>1, <2>1, MinOfTwo
    <2> HIDE DEF b
    <2> QED BY <1>1, <2>1, <2>2, <2>3, <2>4
  <1>3. CASE ~judge[j].def.bounded
    BY <1>1, <1>3 DEF Budget
  <1> QED BY <1>2, <1>3

\* The record of a judgment that asks an adapter.
LEMMA AskingFacts ==
    ASSUME ConstantsAssumption, NEW j \in Judges, judge[j] \in Judgment, NEW a \in Adapters,
           NEW stage \in {"primary", "fallback"}, judge[j].invoked[a] <= 1, Budget(j) \in 0..Limit,
           NEW e, e = Asking(j, a, stage)
    PROVE  /\ e \in Judgment /\ e.pc = "asked" /\ e.stage = stage /\ e.asked = a /\ e.budget = Budget(j) /\ e.callAge = 0
           /\ e.invoked = [judge[j].invoked EXCEPT ![a] = @ + 1]
           /\ e.def = judge[j].def /\ e.age = judge[j].age /\ e.primary = judge[j].primary
           /\ e.reason = judge[j].reason /\ e.failure = judge[j].failure /\ e.by = judge[j].by
           /\ e.target = judge[j].target
  <1> DEFINE r == judge[j]
             i == [r.invoked EXCEPT ![a] = @ + 1]
  <1>0. r \in Judgment /\ r.invoked[a] <= 1 /\ e = [r EXCEPT !.pc = "asked", !.stage = stage, !.asked = a,
             !.budget = Budget(j), !.callAge = 0, !.invoked[a] = @ + 1]
    BY DEF Asking
  <1> HIDE DEF r
  <1>1. i \in [Adapters -> 0..2]
    <2>1. r.invoked \in [Adapters -> 0..2] /\ r.invoked[a] + 1 \in 0..2
      BY <1>0 DEF Judgment
    <2> QED BY <2>1
  <1>2. r = [pc |-> r.pc, def |-> r.def, age |-> r.age, primary |-> r.primary, reason |-> r.reason,
             asked |-> r.asked, stage |-> r.stage, budget |-> r.budget, callAge |-> r.callAge, invoked |-> r.invoked,
             answer |-> r.answer, answeredAt |-> r.answeredAt, failure |-> r.failure, outage |-> r.outage,
             band |-> r.band, target |-> r.target, kind |-> r.kind, by |-> r.by]
    BY <1>0 DEF Judgment
  <1>3. e = [pc |-> "asked", def |-> r.def, age |-> r.age, primary |-> r.primary, reason |-> r.reason,
             asked |-> a, stage |-> stage, budget |-> Budget(j), callAge |-> 0, invoked |-> i,
             answer |-> r.answer, answeredAt |-> r.answeredAt, failure |-> r.failure, outage |-> r.outage,
             band |-> r.band, target |-> r.target, kind |-> r.kind, by |-> r.by]
    BY ZenonT(30), <1>0, <1>2
  <1>4. /\ r.def \in Definition /\ r.age \in 0..Total /\ r.primary \in Adapters \cup {"none"}
        /\ r.reason \in {"hint", "available", "unavailable", "circuit_open"} /\ r.answeredAt \in 0..Total
        /\ r.answer \in {"none", "accept", "reject"} /\ r.failure \in Errors \cup {"none"} /\ r.outage \in BOOLEAN
        /\ r.band \in Bands /\ r.target \in BOOLEAN /\ r.kind \in Kinds /\ r.by \in Deciders
    BY <1>0 DEF Judgment
  <1>5. 0 \in 0..Limit /\ a \in Adapters \cup {"none"}
    BY DEF ConstantsAssumption
  <1> HIDE DEF i
  <1>6. e \in Judgment
    BY <1>1, <1>3, <1>4, <1>5 DEF Judgment
  <1> QED BY <1>3, <1>6 DEF r, i

-----------------------------------------------------------------------------
(* Steps *)

\* A judgment under way has decided nothing and rests on nothing.
LEMMA UndecidedEntitled ==
    ASSUME NEW m, NEW r, r.by = "none", ~r.target
    PROVE  Entitled(r, m)
  BY DEF Entitled

\* One judgment changes, and remains good.
LEMMA OneChanges ==
    ASSUME Inv, NEW j \in Judges, NEW e \in Judgment, Good(e, jev), judge' = [judge EXCEPT ![j] = e],
           jev' = jev, breaker' \in [Adapters -> Breakers], rejected' \subseteq Adapters
    PROVE  Inv'
  <1>1. judge' \in [Judges -> Judgment]
    BY DEF Inv, Typed
  <1>2. \A k \in Judges : judge'[k] = IF k = j THEN e ELSE judge[k]
    BY DEF Inv, Typed
  <1>3. \A k \in Judges : Good(judge'[k], jev')
    BY <1>2 DEF Inv
  <1>4. Typed'
    BY <1>1 DEF Inv, Typed
  <1> QED BY <1>3, <1>4 DEF Inv

\* A new judgment.
LEMMA FreshFacts ==
    ASSUME ConstantsAssumption, NEW d \in Definition
    PROVE  Fresh(d) \in Judgment
  <1>1. 0 \in 0..Total /\ 0 \in 0..Limit
    BY DEF ConstantsAssumption
  <1>2. d.hint \in Adapters \cup {"none"}
    BY DEF Definition
  <1>3. [a \in Adapters |-> 0] \in [Adapters -> 0..2]
    OBVIOUS
  <1>4. "none" \in Kinds /\ "none" \in Bands /\ "none" \in Deciders
    BY DEF Kinds, Bands, Deciders
  <1> QED BY <1>1, <1>2, <1>3, <1>4 DEF Fresh, Judgment

\* A judgment starts with its primary, or with the question whether jev is available.
LEMMA StartStep ==
    ASSUME ConstantsAssumption, Inv, NEW j \in Judges, NEW d \in Definitions[j], Start(j, d)
    PROVE  Inv'
  <1> DEFINE e == IF d.hint # "none" THEN Fresh(d)
                  ELSE IF CanExecute("jev") THEN [Fresh(d) EXCEPT !.pc = "available"]
                  ELSE [Fresh(d) EXCEPT !.primary = "script", !.reason = "circuit_open"]
  <1>1. d \in Definition
    BY DEF ConstantsAssumption
  <1>2. Fresh(d) \in Judgment /\ d.hint \in Adapters \cup {"none"} /\ d.attempts \in {1, 2}
    BY <1>1, FreshFacts DEF Definition
  <1>3. e \in Judgment
    <2>1. [Fresh(d) EXCEPT !.pc = "available"] \in Judgment
      BY <1>2, Zenon DEF Judgment
    <2>2. [Fresh(d) EXCEPT !.primary = "script", !.reason = "circuit_open"] \in Judgment
      <3>1. "script" \in Adapters \cup {"none"}
        BY DEF Adapters
      <3> QED BY <1>2, <3>1, Zenon DEF Judgment
    <2> QED BY <1>2, <2>1, <2>2
  <1>4. /\ e.pc \in {"primary", "available"} /\ (e.pc = "primary" => Chosen(e))
        /\ e.invoked = [a \in Adapters |-> 0] /\ e.failure = "none" /\ e.by = "none" /\ ~e.target
        /\ e.def = d
    BY <1>2 DEF Fresh, Chosen, Adapters
  <1>5. judge' = [judge EXCEPT ![j] = e] /\ jev' = jev /\ rejected' = rejected
    BY DEF Start
  <1>6. breaker' \in [Adapters -> Breakers]
    <2>1. "jev" \in Adapters
      BY DEF Adapters
    <2> QED BY <2>1, BreakersTyped DEF Start, Inv, Typed
  <1> HIDE DEF e
  <1>7. \A a \in Adapters : e.invoked[a] <= e.def.attempts
    BY <1>2, <1>4
  <1>8. Good(e, jev)
    BY <1>4, <1>7, UndecidedEntitled DEF Good
  <1> QED BY <1>3, <1>5, <1>6, <1>8, OneChanges DEF Inv, Typed

\* The availability check chooses the primary.
LEMMA AvailableStep ==
    ASSUME ConstantsAssumption, Inv, NEW j \in Judges, Available(j)
    PROVE  Inv'
  <1> DEFINE r == judge[j]
             p == IF jev = "ready" THEN "jev" ELSE "script"
             w == IF jev = "ready" THEN "available" ELSE "unavailable"
             e == [r EXCEPT !.pc = "primary", !.primary = p, !.reason = w]
  <1>1. r \in Judgment /\ Good(r, jev) /\ r.pc = "available"
    BY DEF Inv, Typed, Available
  <1>2. jev' = jev /\ breaker' = breaker /\ rejected' = rejected
    BY DEF Available
  <1>3. breaker' \in [Adapters -> Breakers] /\ rejected' \subseteq Adapters
    BY <1>2 DEF Inv, Typed
  <1>4. CASE Expired(j)
    <2>1. judge' = [judge EXCEPT ![j] = Unevaluable(r, "outage")]
      BY <1>4 DEF Available
    <2>2. "outage" \in Kinds
      BY DEF Kinds, Errors
    <2> HIDE DEF r
    <2>3. Unevaluable(r, "outage") \in Judgment /\ Good(Unevaluable(r, "outage"), jev)
      BY <1>1, <2>2, UnevaluableGood
    <2> QED BY <1>2, <1>3, <2>1, <2>3, OneChanges
  <1>5. CASE ~Expired(j)
    <2>1. judge' = [judge EXCEPT ![j] = e]
      BY <1>5 DEF Available
    <2>2. p \in Adapters /\ w \in {"available", "unavailable"} /\ (w = "available" => p = "jev")
      BY DEF Adapters
    <2> HIDE DEF p, w, r
    <2>3. e \in Judgment
      BY <1>1, <2>2, Zenon DEF Judgment
    <2>4. /\ e.pc = "primary" /\ e.primary = p /\ e.reason = w
          /\ e.invoked = r.invoked /\ e.failure = r.failure /\ e.by = r.by /\ e.target = r.target /\ e.def = r.def
      BY <1>1 DEF Judgment
    <2> HIDE DEF e
    <2>5. Chosen(e)
      BY <2>2, <2>4 DEF Chosen
    <2>6. e.by = "none" /\ ~e.target
      BY <1>1, <2>4 DEF Good
    <2>7. Entitled(e, jev)
      BY <2>6, UndecidedEntitled
    <2>8. Good(e, jev)
      BY <1>1, <2>4, <2>5, <2>6, <2>7 DEF Good
    <2> QED BY <1>2, <1>3, <2>1, <2>3, <2>8, OneChanges
  <1> QED BY <1>4, <1>5

\* A primary that failed leaves the judgment to the fallback.
LEMMA FailedGood ==
    ASSUME NEW m, NEW r \in Judgment, Chosen(r), r.by = "none", ~r.target, NEW failure \in Errors,
           \A a \in Adapters : r.invoked[a] <= 1, r.def.bounded => \A a \in Adapters : r.invoked[a] <= r.def.attempts
    PROVE  Failed(r, failure) \in Judgment /\ Good(Failed(r, failure), m)
  <1> DEFINE e == [r EXCEPT !.pc = "settle", !.failure = failure]
  <1>1. e = Failed(r, failure)
    BY DEF Failed
  <1>2. failure # "none" /\ failure \in Errors \cup {"none"}
    BY DEF Errors
  <1>3. e \in Judgment
    BY <1>2, Zenon DEF Judgment
  <1>4. /\ e.pc = "settle" /\ e.failure = failure /\ e.primary = r.primary /\ e.reason = r.reason /\ e.def = r.def
        /\ e.invoked = r.invoked /\ e.by = "none" /\ ~e.target
    BY DEF Judgment
  <1> HIDE DEF e
  <1>5. Chosen(e) /\ Settling(e) /\ Entitled(e, m)
    <2>1. Chosen(e)
      BY <1>4 DEF Chosen
    <2>2. Settling(e)
      BY <1>2, <1>4 DEF Settling
    <2> QED BY <1>4, <2>1, <2>2, UndecidedEntitled
  <1>6. Good(e, m)
    BY <1>4, <1>5 DEF Good
  <1> QED BY <1>1, <1>3, <1>6

\* An adapter that is asked has time, and what it says in time comes before the deadline.
LEMMA AskingGood ==
    ASSUME ConstantsAssumption, NEW m, NEW j \in Judges, judge[j] \in Judgment, Chosen(judge[j]),
           judge[j].by = "none", ~judge[j].target,
           \A a \in Adapters : judge[j].invoked[a] <= 1,
           judge[j].def.bounded => \A a \in Adapters : judge[j].invoked[a] <= judge[j].def.attempts,
           NEW a \in Adapters, NEW stage \in {"primary", "fallback"}, SkipReason(j, a) = "none",
           stage = "primary" => /\ a = judge[j].primary /\ judge[j].failure = "none"
                                /\ judge[j].invoked = [b \in Adapters |-> 0],
           NEW e, e \in Judgment, NEW outage, NEW kind,
           e = [Asking(j, a, stage) EXCEPT !.outage = outage, !.kind = kind],
           stage = "fallback" => (Out(judge[j], m) => outage)
    PROVE  Good(e, m)
  <1> DEFINE r == judge[j]
             f == Asking(j, a, stage)
  <1>1. r.def.bounded => r.age < Total /\ r.invoked[a] < r.def.attempts
    BY NotSkipped
  <1>2. Budget(j) \in 0..Limit /\ Budget(j) > 0 /\ (r.def.bounded => r.age + Budget(j) <= Total)
    BY <1>1, BudgetFacts
  <1>3. /\ f \in Judgment /\ f.pc = "asked" /\ f.stage = stage /\ f.asked = a /\ f.budget = Budget(j) /\ f.callAge = 0
        /\ f.invoked = [r.invoked EXCEPT ![a] = @ + 1]
        /\ f.def = r.def /\ f.age = r.age /\ f.primary = r.primary
        /\ f.reason = r.reason /\ f.failure = r.failure /\ f.by = r.by /\ f.target = r.target
    <2>1. f = Asking(j, a, stage)
      OBVIOUS
    <2> HIDE DEF f
    <2> QED BY <1>2, <2>1, AskingFacts
  <1>4. e = [f EXCEPT !.outage = outage, !.kind = kind] /\ r.by = "none" /\ ~r.target
    OBVIOUS
  <1> HIDE DEF f, r
  <1>5. /\ e.pc = "asked" /\ e.stage = stage /\ e.asked = a /\ e.budget = Budget(j) /\ e.callAge = 0
        /\ e.invoked = [r.invoked EXCEPT ![a] = @ + 1]
        /\ e.def = r.def /\ e.age = r.age /\ e.primary = r.primary
        /\ e.reason = r.reason /\ e.failure = r.failure /\ e.by = "none" /\ ~e.target /\ e.outage = outage
    <2>1. f \in Judgment /\ e = [f EXCEPT !.outage = outage, !.kind = kind]
      BY <1>3, <1>4
    <2>2. /\ e.pc = f.pc /\ e.stage = f.stage /\ e.asked = f.asked /\ e.budget = f.budget /\ e.callAge = f.callAge
          /\ e.invoked = f.invoked /\ e.def = f.def /\ e.age = f.age /\ e.primary = f.primary
          /\ e.reason = f.reason /\ e.failure = f.failure /\ e.by = f.by /\ e.target = f.target /\ e.outage = outage
      BY ZenonT(30), <2>1 DEF Judgment
    <2> QED BY <1>3, <1>4, <2>2
  <1>6. r.invoked \in [Adapters -> 0..2] /\ r.age \in Nat /\ Total \in Nat /\ Budget(j) \in Nat
    BY <1>2 DEF Judgment, ConstantsAssumption, r
  <1>7. r.def.attempts \in {1, 2}
    BY DefinitionFacts DEF r
  <1>8. \A b \in Adapters : e.invoked[b] = IF b = a THEN r.invoked[b] + 1 ELSE r.invoked[b]
    BY <1>5, <1>6
  <1>9. Chosen(e) /\ (Out(e, m) <=> Out(r, m))
    BY <1>5 DEF Chosen, Out, r
  <1>10. ASSUME e.def.bounded PROVE \A b \in Adapters : e.invoked[b] <= e.def.attempts
    <2>1. r.invoked[a] + 1 <= r.def.attempts
      BY <1>1, <1>5, <1>6, <1>7, <1>10
    <2>2. \A b \in Adapters : r.invoked[b] <= r.def.attempts
      BY <1>5, <1>10 DEF r
    <2> QED BY <1>5, <1>8, <2>1, <2>2
  <1>11. Asked(e, m)
    <2>1. e.asked \in Adapters /\ e.budget > 0
      BY <1>2, <1>5
    <2>2. e.def.bounded /\ e.callAge < e.budget => e.age + e.budget <= Total + e.callAge
      BY <1>2, <1>5, <1>6
    <2>3. e.stage = "primary" => e.asked = e.primary /\ e.failure = "none" /\ \A b \in Adapters : e.invoked[b] <= 1
      BY <1>5, <1>8 DEF r
    <2>4. e.stage = "fallback" => (Out(e, m) => e.outage)
      BY <1>5, <1>9 DEF r
    <2> QED BY <2>1, <2>2, <2>3, <2>4 DEF Asked
  <1>12. Entitled(e, m)
    BY <1>5, UndecidedEntitled
  <1> QED BY <1>5, <1>9, <1>10, <1>11, <1>12 DEF Good

\* The primary is asked, or is taken to have failed.
LEMMA AskPrimaryStep ==
    ASSUME ConstantsAssumption, Inv, NEW j \in Judges, AskPrimary(j)
    PROVE  Inv'
  <1> DEFINE r == judge[j]
             a == r.primary
  <1>1. r \in Judgment /\ Good(r, jev) /\ r.pc = "primary"
    BY DEF Inv, Typed, AskPrimary
  <1>2. /\ Chosen(r) /\ r.invoked = [b \in Adapters |-> 0] /\ r.failure = "none" /\ r.by = "none" /\ ~r.target
        /\ r.def.bounded => \A b \in Adapters : r.invoked[b] <= r.def.attempts
    BY <1>1 DEF Good
  <1>3. a \in Adapters /\ \A b \in Adapters : r.invoked[b] <= 1
    BY <1>2 DEF Chosen
  <1>4. jev' = jev /\ rejected' \subseteq Adapters /\ breaker' \in [Adapters -> Breakers]
    BY <1>3, BreakersTyped DEF AskPrimary, Inv, Typed
  <1>5. CASE ~CanExecute(a) \/ SkipReason(j, a) # "none"
    <2>1. judge' = [judge EXCEPT ![j] = Failed(r, "outage")]
      BY <1>5 DEF AskPrimary
    <2>2. "outage" \in Errors
      BY DEF Errors
    <2> HIDE DEF r
    <2>3. Failed(r, "outage") \in Judgment /\ Good(Failed(r, "outage"), jev)
      BY <1>1, <1>2, <1>3, <2>2, FailedGood
    <2> QED BY <1>4, <2>1, <2>3, OneChanges
  <1>6. CASE CanExecute(a) /\ SkipReason(j, a) = "none"
    <2> DEFINE e == Asking(j, a, "primary")
    <2>1. judge' = [judge EXCEPT ![j] = e]
      BY <1>6 DEF AskPrimary
    <2>2. r.def.bounded => r.age < Total
      BY <1>1, <1>3, <1>6, NotSkipped
    <2>3. Budget(j) \in 0..Limit
      BY <1>1, <2>2, BudgetFacts
    <2>4. e \in Judgment
      <3>1. e = Asking(j, a, "primary") /\ "primary" \in {"primary", "fallback"}
        OBVIOUS
      <3> HIDE DEF e
      <3> QED BY <1>1, <1>3, <2>3, <3>1, AskingFacts
    <2>5. e = [e EXCEPT !.outage = r.outage, !.kind = r.kind]
      BY <1>1 DEF Asking, Judgment
    <2>6. Good(e, jev)
      <3>1. e = [Asking(j, a, "primary") EXCEPT !.outage = r.outage, !.kind = r.kind] /\ "primary" \in {"primary", "fallback"}
        BY <2>5
      <3> HIDE DEF e
      <3> QED BY <1>1, <1>2, <1>3, <1>6, <2>4, <3>1, AskingGood
    <2> HIDE DEF e
    <2> QED BY <1>4, <2>1, <2>4, <2>6, OneChanges
  <1> QED BY <1>5, <1>6

\* Why a fallback gives nothing.
Reasons == Errors \cup {"total_deadline", "adapter_attempt_limit", "circuit_open"}

\* The fallback gave nothing either, for whatever reason.
LEMMA FallbackFailedStep ==
    ASSUME ConstantsAssumption, Inv, NEW j \in Judges, NEW r \in Judgment, Chosen(r),
           ~r.def.bounded /\ Out(r, jev) => r.outage,
           NEW failure \in Reasons, FallbackFailed(j, r, failure),
           jev' = jev, breaker' \in [Adapters -> Breakers]
    PROVE  Inv'
  <1> DEFINE a == r.def.fallback
             kind == IF failure \in {"authoring", "credentials"} THEN failure
                     ELSE IF failure = "circuit_open" /\ a \in rejected THEN "credentials" ELSE r.kind
             e == IF r.def.bounded THEN Unevaluable(r, kind)
                  ELSE IF r.outage THEN Unevaluable(r, r.kind) ELSE End(r, "reject", TRUE, "none", "none")
  <1>1. judge' = [judge EXCEPT ![j] = e]
    BY DEF FallbackFailed
  <1>2. a \in Adapters
    BY DefinitionFacts
  <1>3. rejected' \subseteq Adapters
    BY <1>2 DEF FallbackFailed, Inv, Typed
  <1>4. kind \in Kinds /\ r.kind \in Kinds
    BY DEF Kinds, Errors, Judgment
  <1> HIDE DEF a, kind
  <1>5. Unevaluable(r, kind) \in Judgment /\ Good(Unevaluable(r, kind), jev)
    BY <1>4, UnevaluableGood
  <1>6. Unevaluable(r, r.kind) \in Judgment /\ Good(Unevaluable(r, r.kind), jev)
    BY <1>4, UnevaluableGood
  <1>7. ~r.def.bounded /\ ~r.outage => /\ End(r, "reject", TRUE, "none", "none") \in Judgment
                                     /\ Good(End(r, "reject", TRUE, "none", "none"), jev)
    BY TargetGood
  <1>8. e \in Judgment /\ Good(e, jev)
    BY <1>5, <1>6, <1>7
  <1> HIDE DEF e
  <1> QED BY <1>1, <1>3, <1>8, OneChanges

\* The cascade takes a judgment for one of an outage when a configured model was to decide it and cannot.
LEMMA OutageFacts ==
    ASSUME NEW j \in Judges, judge[j] \in Judgment, Chosen(judge[j]), Out(judge[j], jev),
           judge[j].failure = "none" => judge[j].primary = "script"
    PROVE  \/ Outage(j)
           \/ judge[j].failure = "none" /\ Expired(j)
           \/ judge[j].failure # "none" /\ Expired(j) /\ judge[j].primary = "script"
  BY DEF Outage, Out, Chosen, Adapters

\* The primary has answered, or the fallback is asked.
LEMMA SettleStep ==
    ASSUME ConstantsAssumption, Inv, NEW j \in Judges, Settle(j)
    PROVE  Inv'
  <1> DEFINE q == judge[j]
             out == Outage(j)
             kind == FailureKind(j)
             r == [q EXCEPT !.outage = out, !.kind = kind]
             a == r.def.fallback
  <1>1. q \in Judgment /\ Good(q, jev) /\ q.pc = "settle"
    BY DEF Inv, Typed, Settle
  <1>2. /\ Chosen(q) /\ Settling(q) /\ q.by = "none" /\ ~q.target
        /\ q.def.bounded => \A b \in Adapters : q.invoked[b] <= q.def.attempts
    BY <1>1 DEF Good
  <1>3. out \in BOOLEAN /\ kind \in Kinds
    BY DEF FailureKind, Kinds, Errors, Outage
  <1>4. IF r.failure = "none"
        THEN judge' = [judge EXCEPT ![j] = Concluded(r)] /\ UNCHANGED <<breaker, rejected>>
        ELSE /\ breaker' = IF SkipProbes(j, a) THEN Probed(a) ELSE breaker
             /\ IF SkipReason(j, a) # "none" THEN FallbackFailed(j, r, SkipReason(j, a))
                ELSE judge' = [judge EXCEPT ![j] = [Asking(j, a, "fallback") EXCEPT !.outage = r.outage, !.kind = r.kind]]
                     /\ UNCHANGED rejected
    BY DEF Settle
  <1>5. jev' = jev
    BY DEF Settle
  <1> HIDE DEF out, kind, q
  <1>6. r \in Judgment
    BY <1>1, <1>3, Zenon DEF Judgment
  <1>7. /\ r.outage = out /\ r.kind = kind /\ r.failure = q.failure /\ r.def = q.def /\ r.primary = q.primary
        /\ r.reason = q.reason /\ r.answer = q.answer /\ r.answeredAt = q.answeredAt /\ r.asked = q.asked
        /\ r.age = q.age /\ r.invoked = q.invoked
    BY <1>1 DEF Judgment
  <1> HIDE DEF r
  <1>8. Chosen(r) /\ (Out(r, jev) <=> Out(q, jev))
    BY <1>2, <1>7 DEF Chosen, Out
  <1>9. a \in Adapters
    BY <1>6, DefinitionFacts
  <1>10. Expired(j) => q.def.bounded /\ q.age = Total
    <2>1. q.age \in Nat /\ Total \in Nat
      BY <1>1 DEF Judgment, ConstantsAssumption
    <2> QED BY <2>1 DEF Expired, Remaining, q
  <1>11. CASE r.failure = "none"
    <2>1. judge' = [judge EXCEPT ![j] = Concluded(r)] /\ breaker' = breaker /\ rejected' = rejected
      BY <1>4, <1>11
    <2>2. r.answer # "none" /\ (r.def.bounded => r.answeredAt < Total) /\ r.asked = r.primary
      BY <1>2, <1>7, <1>11 DEF Settling
    <2>3. SelfReported(r) /\ Out(r, jev) /\ ~r.outage => r.def.bounded /\ r.age = Total /\ r.primary = "script"
      <3>1. SUFFICES ASSUME r.asked = "script", Out(r, jev), ~r.outage
                     PROVE  r.def.bounded /\ r.age = Total /\ r.primary = "script"
        BY DEF SelfReported
      <3>2. r.primary = "script" /\ q.primary = "script" /\ Out(q, jev) /\ ~out
        BY <1>7, <1>8, <2>2, <3>1
      <3>3. Expired(j)
        BY <1>1, <1>2, <3>2, OutageFacts DEF q, out
      <3> QED BY <1>7, <1>10, <3>2, <3>3
    <2>4. Concluded(r) \in Judgment /\ Good(Concluded(r), jev)
      BY <1>6, <2>2, <2>3, ConcludedGood
    <2>5. breaker' \in [Adapters -> Breakers] /\ rejected' \subseteq Adapters
      BY <2>1 DEF Inv, Typed
    <2> QED BY <1>5, <2>1, <2>4, <2>5, OneChanges
  <1>12. CASE r.failure # "none"
    <2>1. breaker' \in [Adapters -> Breakers]
      BY <1>4, <1>9, <1>12, BreakersTyped DEF Inv, Typed
    <2>2. ~Expired(j) /\ Out(r, jev) => r.outage
      BY <1>1, <1>2, <1>7, <1>8, <1>12, OutageFacts DEF q, out
    <2>3. CASE SkipReason(j, a) # "none"
      <3>1. FallbackFailed(j, r, SkipReason(j, a))
        BY <1>4, <1>12, <2>3
      <3>2. SkipReason(j, a) \in Reasons
        BY <2>3 DEF SkipReason, Reasons
      <3>3. ~r.def.bounded /\ Out(r, jev) => r.outage
        BY <1>7, <1>10, <2>2
      <3> QED BY <1>5, <1>6, <1>8, <2>1, <3>1, <3>2, <3>3, FallbackFailedStep
    <2>4. CASE SkipReason(j, a) = "none"
      <3> DEFINE e == [Asking(j, a, "fallback") EXCEPT !.outage = out, !.kind = kind]
                 f == Asking(j, a, "fallback")
      <3>1. judge' = [judge EXCEPT ![j] = e] /\ rejected' = rejected
        BY <1>4, <1>7, <1>12, <2>4
      <3>2. ~Expired(j)
        BY <2>4 DEF SkipReason, Expired
      <3>3. q.def.bounded => q.age < Total
        BY <1>1, <1>9, <2>4, NotSkipped DEF q
      <3>4. Budget(j) \in 0..Limit
        BY <1>1, <3>3, BudgetFacts DEF q
      <3>5. q.invoked[a] <= 1 /\ \A b \in Adapters : q.invoked[b] <= 1
        BY <1>2, <1>9 DEF Settling
      <3>6. f \in Judgment
        <4>1. f = Asking(j, a, "fallback") /\ "fallback" \in {"primary", "fallback"}
          OBVIOUS
        <4> HIDE DEF f
        <4> QED BY <1>1, <1>9, <3>4, <3>5, <4>1, AskingFacts DEF q
      <3>7. e = [f EXCEPT !.outage = out, !.kind = kind]
        OBVIOUS
      <3>8. e \in Judgment
        <4> HIDE DEF f, e
        <4> QED BY <1>3, <3>6, <3>7, Zenon DEF Judgment
      <3>9. Good(e, jev)
        <4> DEFINE st == "fallback"
        <4>1. e = [Asking(j, a, st) EXCEPT !.outage = out, !.kind = kind]
          OBVIOUS
        <4>2. st = "fallback" /\ st \in {"primary", "fallback"} /\ st # "primary"
          OBVIOUS
        <4>3. Out(q, jev) => out
          BY <1>7, <1>8, <2>2, <3>2
        <4> HIDE DEF e, st, f, a
        <4> QED BY <1>1, <1>2, <1>9, <2>4, <3>5, <3>8, <4>1, <4>2, <4>3, AskingGood DEF q
      <3> HIDE DEF e
      <3>10. rejected' \subseteq Adapters
        BY <3>1 DEF Inv, Typed
      <3> QED BY <1>5, <2>1, <3>1, <3>8, <3>9, <3>10, OneChanges
    <2> QED BY <2>3, <2>4
  <1> QED BY <1>11, <1>12

\* What is known of a judgment that waits for an adapter.
LEMMA AskedFacts ==
    ASSUME Inv, NEW j \in Judges, judge[j].pc = "asked"
    PROVE  LET r == judge[j] IN
           /\ r \in Judgment /\ Chosen(r) /\ Asked(r, jev) /\ r.by = "none" /\ ~r.target
           /\ r.def.bounded => \A b \in Adapters : r.invoked[b] <= r.def.attempts
           /\ r.asked \in Adapters
  <1>1. judge[j] \in Judgment /\ Good(judge[j], jev)
    BY DEF Inv, Typed
  <1> QED BY <1>1 DEF Good, Asked

\* The budget of an attempt ends before the deadline.
LEMMA InTimeBeforeDeadline ==
    ASSUME NEW total \in Nat, NEW age \in 0..total, NEW budget \in Nat, NEW callAge \in Nat,
           ~(callAge >= budget), age + budget <= total + callAge
    PROVE  age < total
  OBVIOUS

\* A verdict in time is concluded with, at once or when the outage is known.
LEMMA SucceedsStep ==
    ASSUME ConstantsAssumption, Inv, NEW j \in Judges, judge[j].pc = "asked", ~Late(j),
           NEW given \in {"accept", "reject"}, Succeeds(j, given), jev' = jev
    PROVE  Inv'
  <1> DEFINE q == judge[j]
             at == q.age
             r == [q EXCEPT !.answer = given, !.answeredAt = at]
             e == [r EXCEPT !.pc = "settle"]
  <1>1. /\ q \in Judgment /\ Chosen(q) /\ Asked(q, jev) /\ q.by = "none" /\ ~q.target
        /\ q.def.bounded => \A b \in Adapters : q.invoked[b] <= q.def.attempts
        /\ q.asked \in Adapters
    BY AskedFacts
  <1>2. judge' = [judge EXCEPT ![j] = IF r.stage = "primary" THEN e ELSE Concluded(r)]
    BY DEF Succeeds
  <1>3. breaker' \in [Adapters -> Breakers] /\ rejected' \subseteq Adapters
    BY <1>1, BreakersTyped DEF Succeeds, Inv, Typed
  <1>4. q.def.bounded => q.age < Total
    <2>1. q.age \in 0..Total /\ q.budget \in Nat /\ q.callAge \in Nat /\ Total \in Nat
      BY <1>1 DEF Judgment, ConstantsAssumption
    <2>2. ASSUME q.def.bounded
          PROVE  ~(q.callAge >= q.budget) /\ (q.callAge < q.budget => q.age + q.budget <= Total + q.callAge)
      BY <1>1, <2>2 DEF Late, Asked
    <2>3. ~(q.callAge >= q.budget) => q.callAge < q.budget
      BY <2>1
    <2> HIDE DEF q
    <2> QED BY <2>1, <2>2, <2>3, InTimeBeforeDeadline
  <1>5. q.age \in 0..Total
    BY <1>1 DEF Judgment
  <1> HIDE DEF q
  <1>6. at \in 0..Total /\ given \in {"none", "accept", "reject"}
    BY <1>5
  <1>7. r \in Judgment
    BY <1>1, <1>6, Zenon DEF Judgment
  <1>8. /\ r.pc = q.pc /\ r.answer = given /\ r.answeredAt = q.age /\ r.def = q.def /\ r.primary = q.primary
        /\ r.reason = q.reason /\ r.asked = q.asked /\ r.stage = q.stage /\ r.failure = q.failure
        /\ r.outage = q.outage /\ r.invoked = q.invoked /\ r.by = q.by /\ r.target = q.target /\ r.age = q.age
    BY <1>1 DEF Judgment
  <1> HIDE DEF r
  <1>9. given # "none"
    OBVIOUS
  <1>10. r.stage \in {"primary", "fallback"}
    BY <1>7 DEF Judgment
  <1>11. CASE r.stage = "primary"
    <2>1. e \in Judgment
      BY <1>7, Zenon DEF Judgment
    <2>2. /\ e.pc = "settle" /\ e.answer = r.answer /\ e.answeredAt = r.answeredAt /\ e.def = r.def
          /\ e.primary = r.primary /\ e.reason = r.reason /\ e.asked = r.asked /\ e.invoked = r.invoked
          /\ e.by = r.by /\ e.target = r.target /\ e.failure = r.failure
      BY <1>7 DEF Judgment
    <2>3. judge' = [judge EXCEPT ![j] = e]
      BY <1>2, <1>11
    <2> HIDE DEF e
    <2>4. Chosen(e)
      BY <1>1, <1>8, <2>2 DEF Chosen
    <2>5. q.stage = "primary" /\ q.asked = q.primary /\ \A b \in Adapters : q.invoked[b] <= 1
      BY <1>1, <1>8, <1>11 DEF Asked
    <2>6. Settling(e)
      BY <1>4, <1>8, <1>9, <2>2, <2>5 DEF Settling
    <2>7. e.by = "none" /\ ~e.target
      BY <1>1, <1>8, <2>2
    <2>8. Entitled(e, jev)
      BY <2>7, UndecidedEntitled
    <2>9. e.def.bounded => \A b \in Adapters : e.invoked[b] <= e.def.attempts
      BY <1>1, <1>8, <2>2
    <2>10. Good(e, jev)
      BY <2>2, <2>4, <2>6, <2>7, <2>8, <2>9 DEF Good
    <2> QED BY <1>3, <2>1, <2>3, <2>10, OneChanges
  <1>12. CASE r.stage = "fallback"
    <2>1. judge' = [judge EXCEPT ![j] = Concluded(r)]
      BY <1>2, <1>12
    <2>2. r.answer # "none" /\ (r.def.bounded => r.answeredAt < Total)
      BY <1>4, <1>8, <1>9
    <2>3. Out(r, jev) => r.outage
      BY <1>1, <1>8, <1>12 DEF Asked, Out
    <2>4. Concluded(r) \in Judgment /\ Good(Concluded(r), jev)
      BY <1>7, <2>2, <2>3, ConcludedGood
    <2> QED BY <1>3, <2>1, <2>4, OneChanges
  <1> QED BY <1>10, <1>11, <1>12

\* An error or a timeout leaves the judgment to the fallback, or ends it.
LEMMA FailsStep ==
    ASSUME ConstantsAssumption, Inv, NEW j \in Judges, judge[j].pc = "asked",
           NEW failure \in Errors, Fails(j, failure), jev' = jev
    PROVE  Inv'
  <1> DEFINE r == judge[j]
             a == r.asked
             e == IF r.def.bounded /\ failure # "outage" THEN Unevaluable(r, failure) ELSE Failed(r, failure)
  <1>1. /\ r \in Judgment /\ Chosen(r) /\ Asked(r, jev) /\ r.by = "none" /\ ~r.target
        /\ r.def.bounded => \A b \in Adapters : r.invoked[b] <= r.def.attempts
        /\ r.asked \in Adapters
    BY AskedFacts
  <1>2. breaker' \in [Adapters -> Breakers]
    BY <1>1, BreakersTyped DEF Fails, Inv, Typed
  <1>3. CASE r.stage = "fallback"
    <2>1. FallbackFailed(j, r, failure)
      BY <1>3 DEF Fails
    <2>2. ~r.def.bounded /\ Out(r, jev) => r.outage
      BY <1>1, <1>3 DEF Asked
    <2>3. failure \in Reasons
      BY DEF Reasons
    <2> HIDE DEF r
    <2> QED BY <1>1, <1>2, <2>1, <2>2, <2>3, FallbackFailedStep
  <1>4. CASE r.stage # "fallback"
    <2>1. judge' = [judge EXCEPT ![j] = e] /\ rejected' \subseteq Adapters
      BY <1>1, <1>4 DEF Fails, Inv, Typed
    <2>2. failure \in Kinds
      BY DEF Kinds
    <2>3. \A b \in Adapters : r.invoked[b] <= 1
      <3>1. r.stage = "primary"
        BY <1>1, <1>4 DEF Judgment
      <3> QED BY <1>1, <3>1 DEF Asked
    <2> HIDE DEF r
    <2>4. Unevaluable(r, failure) \in Judgment /\ Good(Unevaluable(r, failure), jev)
      BY <1>1, <2>2, UnevaluableGood
    <2>5. Failed(r, failure) \in Judgment /\ Good(Failed(r, failure), jev)
      BY <1>1, <2>3, FailedGood
    <2>6. e \in Judgment /\ Good(e, jev)
      BY <2>4, <2>5
    <2> HIDE DEF e
    <2> QED BY <1>2, <2>1, <2>6, OneChanges
  <1> QED BY <1>3, <1>4

\* What an adapter says, and the timer that does not wait for it.
LEMMA AnswerSteps ==
    ASSUME ConstantsAssumption, Inv, NEW j \in Judges, JevAnswer(j) \/ ScriptAnswer(j) \/ Timer(j)
    PROVE  Inv'
  <1>1. judge[j].pc = "asked" /\ jev' = jev
    BY DEF JevAnswer, ScriptAnswer, Timer
  <1>2. "outage" \in Errors
    BY DEF Errors
  <1>3. CASE JevAnswer(j)
    <2>1. PICK given \in JevAnswers :
              IF given \in Errors THEN Fails(j, given) ELSE IF Late(j) THEN Fails(j, "outage") ELSE Succeeds(j, given)
      BY <1>3 DEF JevAnswer
    <2>2. given \in Errors \/ given \in {"accept", "reject"}
      BY DEF JevAnswers, Errors
    <2> QED BY <1>1, <1>2, <2>1, <2>2, FailsStep, SucceedsStep
  <1>4. CASE ScriptAnswer(j)
    <2>1. PICK given \in {"accept", "reject"} : IF Late(j) THEN Fails(j, "outage") ELSE Succeeds(j, given)
      BY <1>4 DEF ScriptAnswer
    <2> QED BY <1>1, <1>2, <2>1, FailsStep, SucceedsStep
  <1>5. CASE Timer(j)
    <2>1. Fails(j, "outage")
      BY <1>5 DEF Timer
    <2> QED BY <1>1, <1>2, <2>1, FailsStep
  <1> QED BY <1>3, <1>4, <1>5

\* A count that grows up to its cap.
LEMMA OlderFacts ==
    ASSUME NEW cap \in Nat, NEW n \in 0..cap
    PROVE  Older(n, cap) \in 0..cap /\ Older(n, cap) <= n + 1 /\ (Older(n, cap) < cap => Older(n, cap) = n + 1)
  <1> DEFINE o == Min({n + 1, cap})
  <1>1. o \in Nat /\ o <= n + 1 /\ o <= cap /\ o \in {n + 1, cap}
    BY MinOfTwo
  <1>2. o = Older(n, cap)
    BY DEF Older
  <1> HIDE DEF o
  <1> QED BY <1>1, <1>2

\* While an attempt lasts, its time and the time of its judgment go on together.
LEMMA TimePasses ==
    ASSUME NEW total \in Nat, NEW limit \in Nat, NEW budget \in 0..limit, NEW age \in 0..total, NEW callAge \in 0..limit,
           NEW age2 \in 0..total, NEW callAge2 \in 0..limit, age2 <= age + 1, callAge2 < limit => callAge2 = callAge + 1,
           callAge < budget => age + budget <= total + callAge,
           callAge2 < budget
    PROVE  age2 + budget <= total + callAge2
  <1>1. callAge2 = callAge + 1
    OBVIOUS
  <1> QED BY <1>1

\* The clock makes no judgment worse: one that is done no longer ages.
LEMMA OlderGood ==
    ASSUME ConstantsAssumption, NEW m, NEW r \in Judgment, Good(r, m), r.pc # "done",
           NEW age \in 0..Total, NEW callAge \in 0..Limit, age <= r.age + 1,
           r.pc = "asked" => (callAge < Limit => callAge = r.callAge + 1),
           NEW e, e = [r EXCEPT !.age = age, !.callAge = callAge]
    PROVE  e \in Judgment /\ Good(e, m)
  <1>1. e \in Judgment
    BY Zenon DEF Judgment
  <1>2. /\ e.pc = r.pc /\ e.def = r.def /\ e.age = age /\ e.callAge = callAge /\ e.primary = r.primary
        /\ e.reason = r.reason /\ e.asked = r.asked /\ e.stage = r.stage /\ e.budget = r.budget /\ e.invoked = r.invoked
        /\ e.answer = r.answer /\ e.answeredAt = r.answeredAt /\ e.failure = r.failure /\ e.outage = r.outage
        /\ e.by = r.by /\ e.target = r.target
    BY DEF Judgment
  <1>3. r.by = "none" /\ ~r.target
    BY DEF Good
  <1>4. e.by = "none" /\ ~e.target
    BY <1>2, <1>3
  <1>5. Entitled(e, m)
    BY <1>4, UndecidedEntitled
  <1>6. Chosen(r) => Chosen(e)
    BY <1>2 DEF Chosen
  <1>7. Settling(r) => Settling(e)
    BY <1>2 DEF Settling
  <1>8. ASSUME r.pc = "asked" PROVE Asked(e, m)
    <2>1. Asked(r, m)
      BY <1>8 DEF Good
    <2>2. Out(e, m) <=> Out(r, m)
      BY <1>2 DEF Out
    <2>3. ASSUME e.def.bounded, e.callAge < e.budget PROVE e.age + e.budget <= Total + e.callAge
      <3>1. r.budget \in 0..Limit /\ r.age \in 0..Total /\ r.callAge \in 0..Limit /\ Total \in Nat /\ Limit \in Nat
        BY DEF Judgment, ConstantsAssumption
      <3>2. r.callAge < r.budget => r.age + r.budget <= Total + r.callAge
        BY <1>2, <2>1, <2>3 DEF Asked
      <3>3. callAge < r.budget /\ (callAge < Limit => callAge = r.callAge + 1)
        BY <1>2, <1>8, <2>3
      <3>4. age + r.budget <= Total + callAge
        BY <3>1, <3>2, <3>3, TimePasses
      <3> QED BY <1>2, <3>4
    <2>4. /\ e.asked \in Adapters /\ e.budget > 0
          /\ e.stage = "primary" => e.asked = e.primary /\ e.failure = "none" /\ \A a \in Adapters : e.invoked[a] <= 1
          /\ e.stage = "fallback" => (Out(e, m) => e.outage)
      BY <1>2, <2>1, <2>2 DEF Asked
    <2> QED BY <2>3, <2>4 DEF Asked
  <1>9. /\ e.pc \in {"primary", "asked", "settle"} => Chosen(e)
        /\ e.pc \in {"available", "primary"} => e.invoked = [a \in Adapters |-> 0] /\ e.failure = "none"
        /\ e.pc = "settle" => Settling(e)
        /\ e.def.bounded => \A a \in Adapters : e.invoked[a] <= e.def.attempts
    BY <1>2, <1>6, <1>7 DEF Good
  <1>10. e.pc = "asked" => Asked(e, m)
    BY <1>2, <1>8
  <1>11. Good(e, m)
    BY <1>4, <1>5, <1>9, <1>10 DEF Good
  <1> QED BY <1>1, <1>11

\* Time passes for every judgment under way and every open circuit.
LEMMA TickStep ==
    ASSUME ConstantsAssumption, Inv, Tick
    PROVE  Inv'
  <1>1. Total \in Nat /\ Limit \in Nat /\ ResetAfter + 1 \in Nat
    BY DEF ConstantsAssumption
  <1>2. ASSUME NEW j \in Judges PROVE judge'[j] \in Judgment /\ Good(judge'[j], jev)
    <2> DEFINE r == judge[j]
               age == IF r.def.bounded THEN Older(r.age, Total) ELSE r.age
               callAge == IF r.pc = "asked" THEN Older(r.callAge, Limit) ELSE r.callAge
               e == [r EXCEPT !.age = age, !.callAge = callAge]
    <2>1. r \in Judgment /\ Good(r, jev)
      BY DEF Inv, Typed
    <2>2. judge'[j] = IF r.pc = "done" THEN r ELSE e
      BY DEF Tick
    <2>3. r.age \in 0..Total /\ r.callAge \in 0..Limit
      BY <2>1 DEF Judgment
    <2>4. age \in 0..Total /\ age <= r.age + 1
      <3>1. Older(r.age, Total) \in 0..Total /\ Older(r.age, Total) <= r.age + 1
        BY <1>1, <2>3, OlderFacts
      <3>2. r.age <= r.age + 1
        BY <1>1, <2>3
      <3> QED BY <2>3, <3>1, <3>2
    <2>5. callAge \in 0..Limit /\ (r.pc = "asked" => (callAge < Limit => callAge = r.callAge + 1))
      BY <1>1, <2>3, OlderFacts
    <2>6. e = [r EXCEPT !.age = age, !.callAge = callAge]
      OBVIOUS
    <2> HIDE DEF e, age, callAge, r
    <2>7. r.pc # "done" => e \in Judgment /\ Good(e, jev)
      BY <2>1, <2>4, <2>5, <2>6, OlderGood
    <2> QED BY <2>1, <2>2, <2>7
  <1>3. judge' \in [Judges -> Judgment]
    <2>1. judge' = [j \in Judges |-> judge'[j]]
      BY DEF Tick
    <2> QED BY <1>2, <2>1
  <1>4. breaker' \in [Adapters -> Breakers]
    <2>1. ASSUME NEW a \in Adapters
          PROVE  [breaker[a] EXCEPT !.age = IF breaker[a].state = "OPEN" THEN Older(@, ResetAfter + 1) ELSE @] \in Breakers
      <3> DEFINE b == breaker[a]
                 age == IF b.state = "OPEN" THEN Older(b.age, ResetAfter + 1) ELSE b.age
      <3>1. b \in Breakers
        BY DEF Inv, Typed
      <3>2. b.age \in 0..ResetAfter + 1
        BY <3>1 DEF Breakers
      <3>3. age \in 0..ResetAfter + 1
        BY <1>1, <3>2, OlderFacts
      <3> HIDE DEF age, b
      <3>4. [b EXCEPT !.age = age] \in Breakers
        BY <3>1, <3>3, Zenon DEF Breakers
      <3> QED BY <3>4 DEF age, b
    <2> QED BY <2>1 DEF Tick
  <1>5. jev' = jev /\ rejected' = rejected
    BY DEF Tick
  <1> QED BY <1>2, <1>3, <1>4, <1>5 DEF Inv, Typed

-----------------------------------------------------------------------------
(* The invariant holds *)

\* It holds at the start, when nothing has been judged.
LEMMA InvInit ==
    ASSUME ConstantsAssumption, Init
    PROVE  Inv
  <1>1. Closed \in Breakers
    BY DEF Closed, Breakers, ConstantsAssumption
  <1>2. ASSUME NEW j \in Judges PROVE judge[j] \in Judgment /\ Good(judge[j], jev)
    <2> DEFINE d == CHOOSE d \in Definitions[j] : TRUE
               f == Fresh(d)
               e == [f EXCEPT !.pc = "done"]
    <2>1. d \in Definition
      <3>1. Definitions[j] # {} /\ Definitions[j] \subseteq Definition
        BY DEF ConstantsAssumption
      <3> QED BY <3>1
    <2> HIDE DEF d
    <2>2. f \in Judgment /\ d.attempts \in {1, 2}
      BY <2>1, FreshFacts DEF Definition
    <2>3. judge[j] = e
      BY DEF Init, d
    <2>4. e.pc = "done" /\ e.by = "none" /\ ~e.target /\ e.invoked = [a \in Adapters |-> 0] /\ e.def = d
      BY DEF Fresh
    <2> HIDE DEF f
    <2>5. e \in Judgment
      BY <2>2, Zenon DEF Judgment
    <2> HIDE DEF e
    <2>6. \A a \in Adapters : e.invoked[a] <= e.def.attempts
      BY <2>2, <2>4
    <2>7. Good(e, jev)
      BY <2>4, <2>6, UndecidedEntitled DEF Good
    <2> QED BY <2>3, <2>5, <2>7
  <1>3. Typed
    <2>1. judge = [j \in Judges |-> judge[j]]
      BY DEF Init
    <2>2. judge \in [Judges -> Judgment]
      BY <1>2, <2>1
    <2> QED BY <1>1, <2>2 DEF Init, Typed, Jevs
  <1> QED BY <1>2, <1>3 DEF Inv

\* Every step keeps it.
LEMMA InvNext ==
    ASSUME ConstantsAssumption, Inv, [Next]_vars
    PROVE  Inv'
  <1>1. CASE Tick
    BY <1>1, TickStep
  <1>2. ASSUME NEW j \in Judges, Step(j) \/ JevAnswer(j) \/ Timer(j) \/ \E d \in Definitions[j] : Start(j, d)
        PROVE  Inv'
    <2>1. CASE Available(j)
      BY <2>1, AvailableStep
    <2>2. CASE AskPrimary(j)
      BY <2>2, AskPrimaryStep
    <2>3. CASE Settle(j)
      BY <2>3, SettleStep
    <2>4. CASE JevAnswer(j) \/ ScriptAnswer(j) \/ Timer(j)
      BY <2>4, AnswerSteps
    <2>5. CASE \E d \in Definitions[j] : Start(j, d)
      BY <2>5, StartStep
    <2> QED BY <1>2, <2>1, <2>2, <2>3, <2>4, <2>5 DEF Step
  <1>3. CASE UNCHANGED vars
    BY <1>3 DEF Inv, Typed, vars
  <1> QED BY <1>1, <1>2, <1>3 DEF Next

\* So it holds always.
LEMMA Invariance == Spec => []Inv
  <1>1. Init => Inv
    BY ConstantsAssumption, InvInit
  <1>2. Inv /\ [Next]_vars => Inv'
    BY ConstantsAssumption, InvNext
  <1> QED BY <1>1, <1>2, PTL DEF Spec

\* Whatever the judgments of a process do to the circuits and to each other's time, a run is moved
\* only by a verdict somebody was entitled to give: a self-report only where it is granted and no
\* configured model is known to be out, and a target without a verdict only for an unbounded judgment
\* that names a fallback (applyDecision, detectOutage, fallbackFailure).
THEOREM VerdictsEarned == Spec => []VerdictsAreEarned
  <1>1. ASSUME Inv PROVE VerdictsAreEarned
    <2>1. /\ jev \in Jevs /\ breaker \in [Adapters -> Breakers] /\ rejected \subseteq Adapters
          /\ judge \in [Judges -> Judgment] /\ \A j \in Judges : Good(judge[j], jev)
      BY <1>1 DEF Inv, Typed
    <2>2. TypeOK
      <3>1. \A j \in Judges : judge[j].pc = "asked" => judge[j].budget > 0
        BY <2>1 DEF Good, Asked
      <3> QED BY <2>1, <3>1 DEF TypeOK, Jevs, Breakers, Judgment, Bands, Kinds, Deciders
    <2>3. SelfReportsAreCovered
      <3> SUFFICES ASSUME NEW j \in Judges, judge[j].by = "self_reported"
                   PROVE  /\ judge[j].def.granted
                          /\ ModelWasOut(judge[j]) => Expired(j) /\ judge[j].primary = "script"
        BY DEF SelfReportsAreCovered
      <3>1. Entitled(judge[j], jev)
        BY <2>1 DEF Good
      <3>2. ModelWasOut(judge[j]) <=> Out(judge[j], jev)
        BY DEF ModelWasOut, Out
      <3>3. judge[j].def.bounded /\ judge[j].age = Total => Expired(j)
        BY ConstantsAssumption DEF Expired, Remaining, ConstantsAssumption
      <3> QED BY <3>1, <3>2, <3>3 DEF Entitled
    <2>4. OnlyVerdictsRoute
      BY <2>1 DEF OnlyVerdictsRoute, Good, Entitled
    <2> QED BY <2>2, <2>3, <2>4 DEF VerdictsAreEarned
  <1> QED BY <1>1, Invariance, PTL

\* A bounded judgment is decided by what was said before its deadline, and asks no adapter more often
\* than it may, however late its adapters answer and whatever holds up its timers (wait, skipReason).
THEOREM BoundsKept == Spec => []BoundsAreKept
  <1>1. ASSUME Inv PROVE BoundsAreKept
    <2>1. \A j \in Judges : Good(judge[j], jev)
      BY <1>1 DEF Inv
    <2>2. DecidedInTime
      BY <2>1 DEF DecidedInTime, Good, Entitled
    <2>3. AttemptsAreLimited
      BY <2>1 DEF AttemptsAreLimited, Good
    <2> QED BY <2>2, <2>3 DEF BoundsAreKept
  <1> QED BY <1>1, Invariance, PTL

-----------------------------------------------------------------------------
(* Delta views: the run, and what an agent holds of it *)

\* The run at a position, as replay makes it.
Context(n) == ReplayedContext(Default, 1, n)
Path(n) == ReplayedPath(Initial, 1, n)

\* The positions at which the ledger writes a key.
Writes(k, first, last) == {n \in Transitions(first, last) : k \in DOMAIN PatchOf(n, 1)}

\* A reader that starts at first finds all of the patches up to last.
ReadsAll(first, last) == \A n \in Transitions(first, last) : PatchOf(n, first) = PatchOf(n, 1)

\* An engine or a snapshot that is at a position.
At(e, n) == e.path = Path(n) /\ (~e.leaked => e.ctx = Context(n))

\* The engine has merged the fields of the last event, for a guard to see.
Merging(a) == Guarding(a) /\ emit[a].cause = Len(ledger)

\* A snapshot is the run at its sequence, and what follows it replays from there.
SnapshotIsRun ==
    /\ At(snapshot, snapshot.seq)
    /\ \A n \in Transitions(snapshot.seq + 1, Len(ledger)) :
          ledger[n].patch = None => ledger[n].cause > snapshot.seq

\* An engine that nobody has overtaken holds the run, or the run and the fields its guard sees.
EngineIsRun(a) ==
    engine[a].seq = Len(ledger) =>
        /\ engine[a].path = Path(Len(ledger))
        /\ ~engine[a].leaked =>
              IF Merging(a)
              THEN /\ emit[a].before = Context(Len(ledger))
                   /\ engine[a].ctx = Over(All(ledger[Len(ledger)].sub.fields, <<"signal", Len(ledger)>>), emit[a].before)
              ELSE engine[a].ctx = Context(Len(ledger))

\* What an agent holds of the view at a position still stands where nothing was written since.
HoldsSince(a, s) ==
    \A k \in Scope[Path(s)] \ agent[a].doubtful :
        Writes(k, s + 1, Len(ledger)) = {} => agent[a].held[k] = Context(s)[k]

\* A position that a delta view is anchored at.
Anchored(a, s) == s # None => s \in 1..Len(ledger) /\ HoldsSince(a, s)

\* The signal that a submission or a view is about.
IsCause(n) == n # None => n \in 2..Len(ledger) /\ IsSignal(ledger[n])

EmissionFits(a) ==
    emit[a] # None =>
        /\ emit[a].cause \in 2..Len(ledger) /\ IsCause(emit[a].cause)
        /\ Anchored(a, emit[a].since)
        /\ Guarding(a) => emit[a].cause <= engine[a].seq

\* A position that does not come after a view's.
NotAfter(s, n) == s # None => s <= n

\* A view is the run at its sequence unless it is torn, and no anchor comes after it.
ViewFits(a) ==
    answer[a] # None =>
        LET v == answer[a] IN
        /\ IsCause(v.cause) /\ Anchored(a, v.since)
        /\ v.seq = None => ~v.ahead /\ (~v.torn => v.path = Path(Len(ledger)) /\ v.ctx = Context(Len(ledger)))
        /\ v.seq # None =>
              /\ v.seq \in 1..Len(ledger)
              /\ ~v.torn => v.path = Path(v.seq) /\ v.ctx = Context(v.seq)
              /\ ~v.ahead => v.seq = Len(ledger)
              /\ NotAfter(v.since, v.seq) /\ NotAfter(session[a], v.seq)
              /\ emit[a] # None => NotAfter(emit[a].since, v.seq)

\* What an agent holds is what its last view showed, but for the keys in doubt, and the
\* session it relies on is at such a view.
AgentFits(a) ==
    /\ agent[a].torn => agent[a].doubtful = Keys
    /\ agent[a].seq > 0 /\ ~agent[a].torn => agent[a].state = Path(agent[a].seq)
    /\ agent[a].seq > 0 =>
          \A k \in Scope[Path(agent[a].seq)] \ agent[a].doubtful :
              agent[a].held[k] = Context(agent[a].seq)[k]
    /\ agent[a].sure => Anchored(a, session[a])

\* What is said of every agent and its process.
Fits(a) == EngineIsRun(a) /\ EmissionFits(a) /\ ViewFits(a) /\ AgentFits(a)

\* The inductive invariant.
DeltaInv == DeltaTypeOK /\ IsLedger(ledger) /\ SnapshotIsRun /\ \A a \in Agents : Fits(a)

-----------------------------------------------------------------------------
(* Replay *)

\* A ledger is a sequence that starts with the initialisation of the run.
LEMMA LedgerShape ==
    ASSUME IsLedger(ledger)
    PROVE  /\ Len(ledger) \in Nat /\ Len(ledger) > 0 /\ DOMAIN ledger = 1 .. Len(ledger)
           /\ ledger[1].type # "STATE_TRANSITION"
           /\ \A f, l : Transitions(f, l) \subseteq f .. l
  <1>1. ledger \in Seq(Range(ledger)) /\ Len(ledger) > 0 /\ ledger[1] = Initialized
    BY DEF IsLedger
  <1> QED BY <1>1 DEF Transitions, Initialized

\* A transition of the ledger.
LEMMA TransitionShape ==
    ASSUME IsLedger(ledger), NEW n \in 1 .. Len(ledger), ledger[n].type = "STATE_TRANSITION"
    PROVE  /\ n \in 2 .. Len(ledger) /\ ledger[n].cause \in 2 .. (n - 1) /\ IsSignal(ledger[ledger[n].cause])
           /\ ledger[n].from = Path(n - 1) /\ ledger[n].to \in States
           /\ ledger[n].patch = None \/ \E S \in SUBSET Keys : ledger[n].patch \in [S -> Values]
  <1>1. n \in 2 .. Len(ledger)
    BY LedgerShape
  <1>2. ledger[n].type # "SIGNAL_EMITTED"
    OBVIOUS
  <1>3. IsTransition(ledger, n)
    BY <1>1, <1>2 DEF IsLedger, IsSignal
  <1>4. ledger[n].from = Path(n - 1)
    BY <1>3 DEF IsTransition, Path, ReplayedPath, Transitions
  <1> QED BY <1>1, <1>3, <1>4 DEF IsTransition

\* A signal's fields are keys, and their values are named after it.
LEMMA SuppliedShape ==
    ASSUME NEW c \in Nat, IsSignal(ledger[c])
    PROVE  /\ DOMAIN Supplied(c) \subseteq Keys
           /\ \A k \in DOMAIN Supplied(c) : Supplied(c)[k] = <<"signal", c>> /\ Supplied(c)[k] \in Values
  BY DEF Supplied, IsSignal, Payloads, Values

\* A patch is a map of keys to values.
LEMMA PatchShape ==
    ASSUME IsLedger(ledger), NEW n \in 1 .. Len(ledger), ledger[n].type = "STATE_TRANSITION", NEW f \in Nat
    PROVE  /\ DOMAIN PatchOf(n, f) \subseteq Keys
           /\ \A k \in DOMAIN PatchOf(n, f) : PatchOf(n, f)[k] \in Values
  <1>1. CASE ledger[n].patch # None
    <2>1. PICK S \in SUBSET Keys : ledger[n].patch \in [S -> Values]
      BY <1>1, TransitionShape
    <2>2. PatchOf(n, f) = ledger[n].patch
      BY <1>1 DEF PatchOf
    <2> QED BY <2>1, <2>2
  <1>2. CASE ledger[n].patch = None
    <2>1. ledger[n].cause \in Nat /\ IsSignal(ledger[ledger[n].cause])
      BY TransitionShape
    <2>2. CASE ledger[n].cause >= f
      <3>1. PatchOf(n, f) = Supplied(ledger[n].cause)
        BY <1>2, <2>2 DEF PatchOf
      <3> QED BY <2>1, <3>1, SuppliedShape
    <2>3. CASE ~(ledger[n].cause >= f)
      <3>1. DOMAIN PatchOf(n, f) = {}
        BY <1>2, <2>3 DEF PatchOf, All
      <3> QED BY <3>1
    <2> QED BY <2>2, <2>3
  <1> QED BY <1>1, <1>2

\* The last of a set of positions is one of them.
LEMMA LastIn ==
    ASSUME NEW n \in Nat, NEW S, S \subseteq 1 .. n, S # {}
    PROVE  Max(S) \in S
  BY S \subseteq 0 .. n, MaxFacts

\* A key that is not written keeps its value in a replay.
LEMMA ReplayedUnwritten ==
    ASSUME NEW ctx, NEW s \in Nat, NEW t \in Nat, NEW k \in Keys, ReadsAll(s, t), Writes(k, s, t) = {}
    PROVE  ReplayedContext(ctx, s, t)[k] = ctx[k]
  <1>1. {n \in Transitions(s, t) : k \in DOMAIN PatchOf(n, s)} = {}
    BY DEF Writes, ReadsAll
  <1> QED BY <1>1 DEF ReplayedContext

\* A key that is written has the last value written to it.
LEMMA ReplayedWritten ==
    ASSUME NEW ctx, NEW s \in Nat, s > 0, NEW t \in Nat, NEW k \in Keys, ReadsAll(s, t), Writes(k, s, t) # {}
    PROVE  ReplayedContext(ctx, s, t)[k] = PatchOf(Max(Writes(k, s, t)), 1)[k]
  <1>1. {n \in Transitions(s, t) : k \in DOMAIN PatchOf(n, s)} = Writes(k, s, t)
    BY DEF Writes, ReadsAll
  <1>2. ReplayedContext(ctx, s, t)[k] = PatchOf(Max(Writes(k, s, t)), s)[k]
    BY <1>1 DEF ReplayedContext
  <1>3. Writes(k, s, t) \subseteq 1 .. t
    BY DEF Writes, Transitions
  <1>4. Max(Writes(k, s, t)) \in Writes(k, s, t)
    BY <1>3, LastIn
  <1>5. Max(Writes(k, s, t)) \in Transitions(s, t)
    BY <1>4 DEF Writes
  <1> QED BY <1>2, <1>5 DEF ReadsAll

\* The context of the run at a position, key by key.
LEMMA ContextAt ==
    ASSUME NEW n \in Nat, NEW k \in Keys
    PROVE  /\ Writes(k, 1, n) = {} => Context(n)[k] = <<"default", 0>>
           /\ Writes(k, 1, n) # {} => Context(n)[k] = PatchOf(Max(Writes(k, 1, n)), 1)[k]
  <1>1. Default[k] = <<"default", 0>>
    BY DEF Default
  <1>2. 1 \in Nat /\ 1 > 0 /\ ReadsAll(1, n)
    BY DEF ReadsAll
  <1> QED BY <1>1, <1>2, ReplayedUnwritten, ReplayedWritten DEF Context

\* A replayed context is a map of all keys.
LEMMA ReplayedDomain ==
    ASSUME NEW ctx, NEW s, NEW t
    PROVE  ReplayedContext(ctx, s, t) = [k \in Keys |-> ReplayedContext(ctx, s, t)[k]]
  BY DEF ReplayedContext

\* The positions up to t are those up to s and those after it.
LEMMA Halves ==
    ASSUME NEW s \in Nat, NEW t \in Nat, s <= t
    PROVE  /\ Transitions(1, t) = Transitions(1, s) \cup Transitions(s + 1, t)
           /\ \A k \in Keys : Writes(k, 1, t) = Writes(k, 1, s) \cup Writes(k, s + 1, t)
  <1>1. 1 .. t = (1 .. s) \cup ((s + 1) .. t)
    OBVIOUS
  <1>2. Transitions(1, t) = Transitions(1, s) \cup Transitions(s + 1, t)
    BY <1>1 DEF Transitions
  <1> QED BY <1>2 DEF Writes

\* The positions of a part of the ledger lie in it.
LEMMA PartBounds ==
    ASSUME NEW s, NEW t
    PROVE  Transitions(s, t) \subseteq s .. t /\ \A k \in Keys : Writes(k, s, t) \subseteq s .. t
  BY DEF Transitions, Writes

\* The last write of a key is in the later half, if one is.
LEMMA LastWrite ==
    ASSUME NEW s \in Nat, NEW t \in Nat, s <= t, NEW k \in Keys, Writes(k, s + 1, t) # {}
    PROVE  Max(Writes(k, 1, s) \cup Writes(k, s + 1, t)) = Max(Writes(k, s + 1, t))
  <1>8. Writes(k, 1, s) \subseteq 1 .. s /\ Writes(k, s + 1, t) \subseteq (s + 1) .. t
    BY PartBounds
  <1>1. Writes(k, 1, s) \subseteq 1 .. s /\ Writes(k, s + 1, t) \subseteq (s + 1) .. t /\ Writes(k, s + 1, t) \subseteq 0 .. t
    BY <1>8
  <1>2. Max(Writes(k, s + 1, t)) \in Writes(k, s + 1, t) /\ \A y \in Writes(k, s + 1, t) : y <= Max(Writes(k, s + 1, t))
    BY <1>1, MaxFacts
  <1>3. Max(Writes(k, s + 1, t)) \in (s + 1) .. t
    BY <1>1, <1>2
  <1>4. PICK m \in Nat : m = Max(Writes(k, s + 1, t)) /\ m \in (s + 1) .. t
    BY <1>3
  <1>5. m \in Writes(k, 1, s) \cup Writes(k, s + 1, t) /\ Writes(k, 1, s) \cup Writes(k, s + 1, t) \subseteq 0 .. t
    BY <1>1, <1>2, <1>4
  <1>6. \A y \in Writes(k, 1, s) \cup Writes(k, s + 1, t) : y <= m
    BY <1>1, <1>2, <1>4
  <1>7. Max(Writes(k, 1, s) \cup Writes(k, s + 1, t)) = m
    BY <1>5, <1>6, MaxUnique
  <1> QED BY <1>4, <1>7

\* The last transition is in the later half, if one is.
LEMMA LastTransition ==
    ASSUME NEW s \in Nat, NEW t \in Nat, s <= t, Transitions(s + 1, t) # {}
    PROVE  Max(Transitions(1, s) \cup Transitions(s + 1, t)) = Max(Transitions(s + 1, t))
  <1>1. Transitions(1, s) \subseteq 1 .. s /\ Transitions(s + 1, t) \subseteq (s + 1) .. t /\ Transitions(s + 1, t) \subseteq 0 .. t
    BY PartBounds
  <1>2. Max(Transitions(s + 1, t)) \in Transitions(s + 1, t) /\ \A y \in Transitions(s + 1, t) : y <= Max(Transitions(s + 1, t))
    BY <1>1, MaxFacts
  <1>3. Max(Transitions(s + 1, t)) \in (s + 1) .. t
    BY <1>1, <1>2
  <1>4. PICK m \in Nat : m = Max(Transitions(s + 1, t)) /\ m \in (s + 1) .. t
    BY <1>3
  <1>5. m \in Transitions(1, s) \cup Transitions(s + 1, t) /\ Transitions(1, s) \cup Transitions(s + 1, t) \subseteq 0 .. t
    BY <1>1, <1>2, <1>4
  <1>6. \A y \in Transitions(1, s) \cup Transitions(s + 1, t) : y <= m
    BY <1>1, <1>2, <1>4
  <1>7. Max(Transitions(1, s) \cup Transitions(s + 1, t)) = m
    BY <1>5, <1>6, MaxUnique
  <1> QED BY <1>4, <1>7

\* Replay of the later half from the run at its start is the run at its end.
LEMMA ReplayedFrom ==
    ASSUME NEW s \in Nat, NEW t \in Nat, s <= t, ReadsAll(s + 1, t)
    PROVE  /\ ReplayedContext(Context(s), s + 1, t) = Context(t)
           /\ ReplayedPath(Path(s), s + 1, t) = Path(t)
  <1>1. ASSUME NEW k \in Keys PROVE ReplayedContext(Context(s), s + 1, t)[k] = Context(t)[k]
    <2>1. Writes(k, 1, t) = Writes(k, 1, s) \cup Writes(k, s + 1, t)
      BY Halves
    <2>2. CASE Writes(k, s + 1, t) = {}
      <3>1. ReplayedContext(Context(s), s + 1, t)[k] = Context(s)[k]
        BY <2>2, ReplayedUnwritten
      <3>2. Writes(k, 1, t) = Writes(k, 1, s)
        BY <2>1, <2>2
      <3> QED BY <3>1, <3>2, ContextAt
    <2>3. CASE Writes(k, s + 1, t) # {}
      <3>5. s + 1 \in Nat /\ s + 1 > 0
        OBVIOUS
      <3>1. ReplayedContext(Context(s), s + 1, t)[k] = PatchOf(Max(Writes(k, s + 1, t)), 1)[k]
        BY <2>3, <3>5, ReplayedWritten
      <3>3. Max(Writes(k, 1, s) \cup Writes(k, s + 1, t)) = Max(Writes(k, s + 1, t))
        BY <2>3, LastWrite
      <3>4. Writes(k, 1, t) # {}
        BY <2>1, <2>3
      <3> QED BY <2>1, <3>1, <3>3, <3>4, ContextAt
    <2> QED BY <2>2, <2>3
  <1>2. ReplayedContext(Context(s), s + 1, t) = Context(t)
    BY <1>1, ReplayedDomain DEF Context
  <1>3. ReplayedPath(Path(s), s + 1, t) = Path(t)
    <2>1. Transitions(1, t) = Transitions(1, s) \cup Transitions(s + 1, t)
      BY Halves
    <2>2. CASE Transitions(s + 1, t) = {}
      BY <2>1, <2>2 DEF ReplayedPath, Path
    <2>3. CASE Transitions(s + 1, t) # {}
      <3>2. Max(Transitions(1, s) \cup Transitions(s + 1, t)) = Max(Transitions(s + 1, t))
        BY <2>3, LastTransition
      <3> QED BY <2>1, <2>3, <3>2 DEF ReplayedPath, Path
    <2> QED BY <2>2, <2>3
  <1> QED BY <1>2, <1>3

\* What is not written stays.
LEMMA Unwritten ==
    ASSUME NEW s \in Nat, NEW t \in Nat, s <= t
    PROVE  /\ \A k \in Keys : Writes(k, s + 1, t) = {} => Context(t)[k] = Context(s)[k]
           /\ Transitions(s + 1, t) = {} => Path(t) = Path(s) /\ Context(t) = Context(s)
  <1>1. ASSUME NEW k \in Keys, Writes(k, s + 1, t) = {} PROVE Context(t)[k] = Context(s)[k]
    <2>2. Writes(k, 1, t) = Writes(k, 1, s) \cup Writes(k, s + 1, t)
      BY Halves
    <2>1. Writes(k, 1, t) = Writes(k, 1, s)
      BY <1>1, <2>2
    <2> QED BY <2>1, ContextAt
  <1>2. ASSUME Transitions(s + 1, t) = {} PROVE Path(t) = Path(s) /\ Context(t) = Context(s)
    <2>1. \A k \in Keys : Writes(k, s + 1, t) = {}
      BY <1>2 DEF Writes
    <2>2. Context(t) = Context(s)
      BY <1>1, <2>1, ReplayedDomain DEF Context
    <2>4. Transitions(1, t) = Transitions(1, s) \cup Transitions(s + 1, t)
      BY Halves
    <2>3. Transitions(1, t) = Transitions(1, s)
      BY <1>2, <2>4
    <2> QED BY <2>2, <2>3 DEF Path, ReplayedPath
  <1> QED BY <1>1, <1>2

\* The run at a position is a context and a state.
LEMMA RunTyped ==
    ASSUME IsLedger(ledger), NEW n \in 0 .. Len(ledger)
    PROVE  Context(n) \in [Keys -> Values] /\ Path(n) \in States
  <1>1. ASSUME NEW k \in Keys PROVE Context(n)[k] \in Values
    <2>1. CASE Writes(k, 1, n) = {}
      <3>1. Context(n)[k] = <<"default", 0>>
        BY <2>1, ContextAt
      <3> QED BY <3>1 DEF Values
    <2>2. CASE Writes(k, 1, n) # {}
      <3>1. Writes(k, 1, n) \subseteq 1 .. n
        BY DEF Writes, Transitions
      <3>2. Max(Writes(k, 1, n)) \in Writes(k, 1, n)
        BY <2>2, <3>1, LastIn
      <3>3. PICK m \in Nat : m = Max(Writes(k, 1, n))
        BY <3>1, <3>2
      <3>4. m \in 1 .. Len(ledger) /\ ledger[m].type = "STATE_TRANSITION" /\ k \in DOMAIN PatchOf(m, 1)
        BY <3>2, <3>3, LedgerShape DEF Writes, Transitions
      <3>5. PatchOf(m, 1)[k] \in Values
        BY <3>4, PatchShape
      <3> QED BY <2>2, <3>3, <3>5, ContextAt
    <2> QED BY <2>1, <2>2
  <1>2. Context(n) \in [Keys -> Values]
    BY <1>1, ReplayedDomain DEF Context
  <1>3. Path(n) \in States
    <2>1. CASE Transitions(1, n) = {}
      BY <2>1, DeltaAssumption DEF Path, ReplayedPath
    <2>2. CASE Transitions(1, n) # {}
      <3>1. Max(Transitions(1, n)) \in Transitions(1, n)
        BY <2>2, Transitions(1, n) \subseteq 1 .. n, LastIn DEF Transitions
      <3>3. PICK m \in 1 .. n : m = Max(Transitions(1, n)) /\ ledger[m].type = "STATE_TRANSITION"
        BY <3>1 DEF Transitions
      <3>4. m \in 1 .. Len(ledger)
        BY LedgerShape
      <3>2. ledger[Max(Transitions(1, n))].to \in States
        BY <3>3, <3>4, TransitionShape
      <3> QED BY <2>2, <3>2 DEF Path, ReplayedPath
    <2> QED BY <2>1, <2>2
  <1> QED BY <1>2, <1>3

\* A position where no transition is recorded changes nothing.
LEMMA NoTransitionAt ==
    ASSUME IsLedger(ledger), NEW n \in 1 .. Len(ledger), ledger[n].type # "STATE_TRANSITION"
    PROVE  Context(n) = Context(n - 1) /\ Path(n) = Path(n - 1)
  <1>1. PICK m \in Nat : m = n - 1
    OBVIOUS
  <1>2. m + 1 = n /\ m <= n /\ n \in Nat
    BY <1>1
  <1>3. Transitions(m + 1, n) = {}
    BY <1>2 DEF Transitions
  <1>4. Path(n) = Path(m) /\ Context(n) = Context(m)
    BY <1>2, <1>3, Unwritten
  <1> QED BY <1>1, <1>4

\* A transition writes its patch over the context, and enters its target.
LEMMA TransitionAt ==
    ASSUME IsLedger(ledger), NEW n \in 1 .. Len(ledger), ledger[n].type = "STATE_TRANSITION"
    PROVE  Context(n) = Over(PatchOf(n, 1), Context(n - 1)) /\ Path(n) = ledger[n].to
  <1>1. PICK m \in Nat : m = n - 1
    OBVIOUS
  <1>2. m + 1 = n /\ m <= n /\ n \in Nat /\ n \in 1 .. n
    BY <1>1
  <1>3. Transitions(n, n) = {n}
    BY <1>2 DEF Transitions
  <1>4. ASSUME NEW S, S = {n} PROVE Max(S) = n
    BY <1>2, <1>4, S \subseteq 0 .. n, n \in S, \A y \in S : y <= n, MaxUnique
  <1>5. ASSUME NEW k \in Keys PROVE Context(n)[k] = IF k \in DOMAIN PatchOf(n, 1) THEN PatchOf(n, 1)[k] ELSE Context(m)[k]
    <2>1. CASE k \in DOMAIN PatchOf(n, 1)
      <3>1. Writes(k, m + 1, n) = {n}
        BY <1>2, <1>3, <2>1 DEF Writes
      <3>2. Max(Writes(k, m + 1, n)) = n
        BY <1>4, <3>1
      <3>3. Max(Writes(k, 1, m) \cup Writes(k, m + 1, n)) = n
        BY <1>2, <3>1, <3>2, LastWrite
      <3>4. Writes(k, 1, n) = Writes(k, 1, m) \cup Writes(k, m + 1, n)
        BY <1>2, Halves
      <3>5. Writes(k, 1, n) # {}
        BY <3>1, <3>4
      <3>6. Context(n)[k] = PatchOf(Max(Writes(k, 1, n)), 1)[k]
        BY <1>2, <3>5, ContextAt
      <3> QED BY <2>1, <3>3, <3>4, <3>6
    <2>2. CASE k \notin DOMAIN PatchOf(n, 1)
      <3>1. Writes(k, m + 1, n) = {}
        BY <1>2, <1>3, <2>2 DEF Writes
      <3> QED BY <1>2, <2>2, <3>1, Unwritten
    <2> QED BY <2>1, <2>2
  <1>6. DOMAIN PatchOf(n, 1) \subseteq Keys
    BY PatchShape
  <1>7. DOMAIN Context(m) = Keys /\ Context(n) = [k \in Keys |-> Context(n)[k]]
    BY DEF Context, ReplayedContext
  <1>8. Context(n) = Over(PatchOf(n, 1), Context(m))
    <2>1. DOMAIN PatchOf(n, 1) \cup DOMAIN Context(m) = Keys
      BY <1>6, <1>7
    <2> QED BY <1>5, <1>7, <2>1 DEF Over
  <1>9. Path(n) = ledger[n].to
    <2>1. Transitions(1, n) = Transitions(1, m) \cup Transitions(m + 1, n)
      BY <1>2, Halves
    <2>2. Max(Transitions(m + 1, n)) = n /\ Transitions(m + 1, n) # {}
      BY <1>2, <1>3, <1>4
    <2>3. Max(Transitions(1, m) \cup Transitions(m + 1, n)) = n
      BY <1>2, <2>2, LastTransition
    <2>4. Transitions(1, n) # {}
      BY <2>1, <2>2
    <2> QED BY <2>1, <2>3, <2>4 DEF Path, ReplayedPath
  <1> QED BY <1>1, <1>8, <1>9

-----------------------------------------------------------------------------
(* A ledger that grows *)

\* The ledger keeps its events.
Grown ==
    /\ IsLedger(ledger) /\ IsLedger(ledger') /\ Len(ledger) <= Len(ledger')
    /\ \A i \in 1 .. Len(ledger) : ledger'[i] = ledger[i]

\* What was read of the old events is read again.
LEMMA OldEvents ==
    ASSUME Grown
    PROVE  /\ \A f, l : l \in 0 .. Len(ledger) /\ f \in Nat /\ f > 0 => Transitions(f, l)' = Transitions(f, l)
           /\ \A n \in 1 .. Len(ledger), f \in Nat :
                 ledger[n].type = "STATE_TRANSITION" => PatchOf(n, f)' = PatchOf(n, f)
           /\ \A n \in 1 .. Len(ledger) : IsSignal(ledger[n]) => Supplied(n)' = Supplied(n)
  <1>1. PICK u \in Nat : u = Len(ledger)
    BY LedgerShape DEF Grown
  <1>2. \A i \in 1 .. u : ledger'[i] = ledger[i]
    BY <1>1 DEF Grown
  <1>3. ASSUME NEW f \in Nat, f > 0, NEW l \in 0 .. u PROVE Transitions(f, l)' = Transitions(f, l)
    <2>1. \A n \in f .. l : ledger'[n] = ledger[n]
      BY <1>2, <1>3
    <2> QED BY <2>1 DEF Transitions
  <1>4. ASSUME NEW n \in 1 .. u PROVE Supplied(n)' = Supplied(n)
    BY <1>2 DEF Supplied
  <1>5. ASSUME NEW n \in 1 .. u, NEW f \in Nat, ledger[n].type = "STATE_TRANSITION" PROVE PatchOf(n, f)' = PatchOf(n, f)
    <2>1. PICK c \in Nat : c = ledger[n].cause /\ c \in 1 .. u
      BY <1>1, <1>5, TransitionShape DEF Grown
    <2>2. Supplied(c)' = Supplied(c) /\ ledger'[n] = ledger[n]
      BY <1>2, <1>4, <2>1
    <2>3. ledger'[n].cause = c /\ ledger'[n].patch = ledger[n].patch
      BY <2>1, <2>2
    <2>4. PatchOf(n, f) = IF ledger[n].patch # None THEN ledger[n].patch ELSE IF c >= f THEN Supplied(c) ELSE All({}, None)
      BY <2>1 DEF PatchOf
    <2>5. PatchOf(n, f)' = IF ledger[n].patch # None THEN ledger[n].patch ELSE IF c >= f THEN Supplied(c)' ELSE All({}, None)
      BY <2>3 DEF PatchOf, All
    <2> QED BY <2>2, <2>4, <2>5
  <1> QED BY <1>1, <1>3, <1>4, <1>5

\* The run at a position stays what it was.
LEMMA OldRun ==
    ASSUME Grown, NEW n \in 0 .. Len(ledger)
    PROVE  Context(n)' = Context(n) /\ Path(n)' = Path(n)
  <1>1. n \in Nat /\ Transitions(1, n)' = Transitions(1, n) /\ Transitions(1, n) \subseteq 1 .. Len(ledger)
    BY OldEvents, LedgerShape DEF Grown, Transitions
  <1>2. \A m \in Transitions(1, n) : PatchOf(m, 1)' = PatchOf(m, 1)
    BY <1>1, OldEvents DEF Transitions
  <1>3. ASSUME NEW k \in Keys
        PROVE  {m \in Transitions(1, n)' : k \in DOMAIN PatchOf(m, 1)'} = {m \in Transitions(1, n) : k \in DOMAIN PatchOf(m, 1)}
    BY <1>1, <1>2
  <1>4. ASSUME NEW k \in Keys, NEW S, S = {m \in Transitions(1, n) : k \in DOMAIN PatchOf(m, 1)}, S # {}
        PROVE  PatchOf(Max(S), 1)' = PatchOf(Max(S), 1)
    <2>1. S \subseteq 1 .. n
      BY <1>4, LedgerShape DEF Grown
    <2>2. Max(S) \in S
      BY <1>4, <2>1, LastIn
    <2> QED BY <1>2, <1>4, <2>2
  <1>5. Context(n)' = Context(n)
    BY <1>3, <1>4 DEF Context, ReplayedContext, Default
  <1>6. Path(n)' = Path(n)
    <2>1. CASE Transitions(1, n) = {}
      BY <1>1, <2>1 DEF Path, ReplayedPath
    <2>2. CASE Transitions(1, n) # {}
      <3>1. Max(Transitions(1, n)) \in Transitions(1, n)
        BY <2>2, Transitions(1, n) \subseteq 1 .. n, LastIn DEF Transitions
      <3>2. PICK m \in 1 .. Len(ledger) : m = Max(Transitions(1, n))
        BY <1>1, <3>1
      <3>3. ledger'[m] = ledger[m]
        BY DEF Grown
      <3> QED BY <1>1, <2>2, <3>2, <3>3 DEF Path, ReplayedPath
    <2> QED BY <2>1, <2>2
  <1> QED BY <1>5, <1>6

\* Appending to a ledger.
LEMMA AppendShape ==
    ASSUME IsLedger(ledger), NEW e, ledger' = Append(ledger, e)
    PROVE  /\ Len(ledger') = Len(ledger) + 1 /\ ledger'[Len(ledger) + 1] = e
           /\ \A i \in 1 .. Len(ledger) : ledger'[i] = ledger[i]
           /\ ledger' \in Seq(Range(ledger')) /\ Len(ledger) \in Nat /\ Len(ledger) > 0
  <1>1. ledger \in Seq(Range(ledger)) /\ Len(ledger) \in Nat /\ Len(ledger) > 0
    BY DEF IsLedger
  <1> DEFINE T == Range(ledger) \cup {e}
  <1>2. ledger \in Seq(T) /\ e \in T
    BY <1>1
  <1> HIDE DEF T
  <1>3. /\ ledger' \in Seq(T) /\ Len(ledger') = Len(ledger) + 1 /\ ledger'[Len(ledger) + 1] = e
        /\ \A i \in 1 .. Len(ledger) : ledger'[i] = ledger[i]
    BY <1>1, <1>2
  <1>4. ledger' \in Seq(Range(ledger'))
    <2>1. DOMAIN ledger' = 1 .. Len(ledger') /\ Len(ledger') \in Nat
      BY <1>3
    <2>2. ledger' \in [1 .. Len(ledger') -> T]
      BY <1>3, LenProperties
    <2>3. \A i \in 1 .. Len(ledger') : ledger'[i] \in Range(ledger')
      BY <2>1 DEF Range
    <2>4. ledger' \in [1 .. Len(ledger') -> Range(ledger')]
      BY <2>2, <2>3
    <2> QED BY <2>1, <2>4, SeqDef
  <1> QED BY <1>1, <1>3, <1>4

\* An old transition is one of the grown ledger too.
LEMMA OldTransition ==
    ASSUME NEW n \in Nat, n > 0, \A i \in 1 .. n : ledger'[i] = ledger[i], IsTransition(ledger, n)
    PROVE  IsTransition(ledger', n)
  <1> DEFINE before == {m \in 1 .. (n - 1) : ledger[m].type = "STATE_TRANSITION"}
             after == {m \in 1 .. (n - 1) : ledger'[m].type = "STATE_TRANSITION"}
  <1>1. before = after
    OBVIOUS
  <1>2. ledger'[n] = ledger[n] /\ ledger[n].cause \in 1 .. n
    BY DEF IsTransition
  <1>3. IsSignal(ledger'[ledger[n].cause])
    BY <1>2 DEF IsTransition
  <1>4. before # {} => ledger'[Max(after)].to = ledger[Max(before)].to
    <2>1. before \subseteq 1 .. n
      OBVIOUS
    <2> HIDE DEF before, after
    <2>2. ASSUME before # {} PROVE Max(before) \in 1 .. n
      BY <2>1, <2>2, LastIn
    <2> QED BY <1>1, <2>2
  <1>5. ledger[n].from = IF before = {} THEN Initial ELSE ledger[Max(before)].to
    BY DEF IsTransition
  <1>6. ledger'[n].from = IF after = {} THEN Initial ELSE ledger'[Max(after)].to
    <2> HIDE DEF before, after
    <2> QED BY <1>1, <1>2, <1>4, <1>5
  <1> QED BY <1>2, <1>3, <1>6 DEF IsTransition

\* A signal or a transition makes the ledger grow.
LEMMA Appended ==
    ASSUME IsLedger(ledger), NEW e, ledger' = Append(ledger, e), IsSignal(e) \/ IsTransition(ledger', Len(ledger) + 1)
    PROVE  Grown /\ Len(ledger') = Len(ledger) + 1 /\ ledger'[Len(ledger) + 1] = e
  <1>1. /\ Len(ledger') = Len(ledger) + 1 /\ ledger'[Len(ledger) + 1] = e
        /\ \A i \in 1 .. Len(ledger) : ledger'[i] = ledger[i]
        /\ ledger' \in Seq(Range(ledger')) /\ Len(ledger) \in Nat /\ Len(ledger) > 0
    BY AppendShape
  <1>2. ASSUME NEW n \in 2 .. Len(ledger) PROVE IsSignal(ledger'[n]) \/ IsTransition(ledger', n)
    <2>1. n \in Nat /\ n > 0 /\ (\A i \in 1 .. n : ledger'[i] = ledger[i]) /\ ledger'[n] = ledger[n]
      BY <1>1
    <2>2. IsSignal(ledger[n]) \/ IsTransition(ledger, n)
      BY DEF IsLedger
    <2> QED BY <2>1, <2>2, OldTransition
  <1>3. \A n \in 2 .. Len(ledger') : IsSignal(ledger'[n]) \/ IsTransition(ledger', n)
    <2>1. \A n \in 2 .. Len(ledger') : n \in 2 .. Len(ledger) \/ n = Len(ledger) + 1
      BY <1>1
    <2> QED BY <1>1, <1>2, <2>1
  <1>4. ledger'[1] = Initialized
    BY <1>1 DEF IsLedger
  <1>5. IsLedger(ledger')
    BY <1>1, <1>3, <1>4 DEF IsLedger
  <1> QED BY <1>1, <1>5 DEF Grown

\* A ledger that nobody writes stays a ledger.
LEMMA SameLedger ==
    ASSUME IsLedger(ledger), UNCHANGED ledger
    PROVE  Grown /\ Len(ledger') = Len(ledger)
  BY LedgerShape DEF Grown

\* What an agent holds stands until it is written.
LEMMA AnchoredStays ==
    ASSUME Grown, NEW a, agent'[a] = agent[a], NEW s, Anchored(a, s)
    PROVE  Anchored(a, s)'
  <1>1. CASE s = None
    BY <1>1 DEF Anchored
  <1>2. CASE s # None
    <2>1. PICK u \in Nat, v \in Nat : u = Len(ledger) /\ v = Len(ledger') /\ u <= v
      BY LedgerShape DEF Grown, IsLedger
    <2>2. s \in 1 .. u /\ HoldsSince(a, s)
      BY <1>2, <2>1 DEF Anchored
    <2>3. Context(s)' = Context(s) /\ Path(s)' = Path(s)
      BY <2>1, <2>2, OldRun
    <2>4. ASSUME NEW k \in Scope[Path(s)] \ agent[a].doubtful, Writes(k, s + 1, v)' = {}
          PROVE  agent[a].held[k] = Context(s)[k]
      <3>1. Transitions(s + 1, u)' = Transitions(s + 1, u)
        BY <2>1, <2>2, OldEvents
      <3>2. Transitions(s + 1, u)' \subseteq Transitions(s + 1, v)'
        BY <2>1, <2>2 DEF Transitions
      <3>3. \A n \in Transitions(s + 1, u) : PatchOf(n, 1)' = PatchOf(n, 1)
        BY <2>1, <2>2, OldEvents DEF Transitions
      <3>4. Writes(k, s + 1, u) = {}
        BY <2>4, <3>1, <3>2, <3>3 DEF Writes
      <3> QED BY <2>1, <2>2, <3>4 DEF HoldsSince
    <2>5. HoldsSince(a, s)'
      BY <2>1, <2>3, <2>4 DEF HoldsSince
    <2> QED BY <2>1, <2>2, <2>5 DEF Anchored
  <1> QED BY <1>1, <1>2

\* The cause of a submission or of a view stays one.
LEMMA CauseStays ==
    ASSUME Grown, NEW n, IsCause(n)
    PROVE  IsCause(n)'
  <1>1. PICK u \in Nat, v \in Nat : u = Len(ledger) /\ v = Len(ledger') /\ u <= v
    BY LedgerShape DEF Grown, IsLedger
  <1>2. \A i \in 1 .. u : ledger'[i] = ledger[i]
    BY <1>1 DEF Grown
  <1> QED BY <1>1, <1>2 DEF IsCause

-----------------------------------------------------------------------------
(* What a delta view shows *)

\* Where a delta is safe, what changed since the anchor is what the ledger wrote since.
LEMMA DeltaIsExact ==
    ASSUME IsLedger(ledger), NEW s \in 1 .. Len(ledger), FoldsSafely(s), NEW c, c = ContextChangesSince(s)
    PROVE  /\ \A k \in Keys : k \notin c.keys => Writes(k, s + 1, Len(ledger)) = {}
           /\ Transitions(s + 1, Len(ledger)) = {} => c.anchorPath = None
           /\ Transitions(s + 1, Len(ledger)) # {} => c.anchorPath = Path(s)
  <1>1. PICK u \in Nat : u = Len(ledger)
    BY LedgerShape
  <1> DEFINE after == Transitions(s + 1, u)
  <1>2. after \subseteq 1 .. u
    BY <1>1 DEF Transitions
  <1>3. ASSUME NEW n \in after PROVE PatchOf(n, s + 1) = PatchOf(n, 1)
    <2>1. n \in 1 .. Len(ledger) /\ ledger[n].type = "STATE_TRANSITION"
      BY <1>1, <1>2 DEF Transitions
    <2>2. ledger[n].cause \in Nat /\ ledger[n].cause >= 1
      BY <2>1, TransitionShape
    <2>3. ledger[n].patch = None => ledger[n].cause > s
      BY <1>1 DEF FoldsSafely
    <2>4. ledger[n].patch = None => ledger[n].cause >= s + 1
      BY <2>2, <2>3
    <2> QED BY <2>2, <2>4 DEF PatchOf
  <1>4. /\ c.keys = UNION {DOMAIN PatchOf(n, s + 1) : n \in after}
        /\ c.anchorPath = IF after = {} THEN None ELSE ledger[Min(after)].from
    BY <1>1 DEF ContextChangesSince
  <1>5. ASSUME NEW k \in Keys, k \notin c.keys PROVE Writes(k, s + 1, u) = {}
    <2>1. \A n \in after : k \notin DOMAIN PatchOf(n, 1)
      BY <1>3, <1>4, <1>5
    <2> QED BY <2>1 DEF Writes
  <1>6. ASSUME after # {} PROVE ledger[Min(after)].from = Path(s)
    <2>1. after \subseteq Nat
      BY <1>2
    <2> HIDE DEF after
    <2>2. PICK x \in after : \A y \in after : x <= y
      BY <1>6, <2>1, LeastExists
    <2>3. Min(after) \in after /\ \A y \in after : Min(after) <= y
      BY <2>2 DEF Min
    <2>4. PICK m \in 1 .. u : m = Min(after)
      BY <1>2, <2>3
    <2>5. m \in s + 1 .. u /\ ledger[m].type = "STATE_TRANSITION" /\ m - 1 \in Nat /\ s <= m - 1
      BY <2>3, <2>4 DEF after, Transitions
    <2>6. ledger[m].from = Path(m - 1)
      BY <1>1, <2>5, TransitionShape
    <2>7. Transitions(s + 1, m - 1) = {}
      <3>1. \A n \in Transitions(s + 1, m - 1) : n \in after /\ n < m
        BY <2>5 DEF Transitions, after
      <3>2. \A n \in Transitions(s + 1, m - 1) : n \in Nat
        BY DEF Transitions
      <3> QED BY <2>3, <2>4, <3>1, <3>2
    <2>8. Path(m - 1) = Path(s)
      BY <2>5, <2>7, Unwritten
    <2> QED BY <2>4, <2>6, <2>8
  <1> QED BY <1>1, <1>4, <1>5, <1>6

\* A key that a view does not show at its state is one the agent was shown at the anchor, and
\* that was not written since.
LEMMA HiddenWasShown ==
    ASSUME IsLedger(ledger), NEW v, IsCause(v.cause), v.path \in States, v.since = None \/ v.since \in 1 .. Len(ledger),
           NEW n \in 1 .. Len(ledger), v.path = Path(n), NotAfter(v.since, n),
           NEW k \in Scope[v.path], k \notin Shown(v)
    PROVE  /\ v.since \in 1 .. n /\ k \in Scope[Path(v.since)] /\ Writes(k, v.since + 1, Len(ledger)) = {}
           /\ v.since # None
  <1> DEFINE c == ContextChangesSince(v.since)
  <1>1. v.since # None
    BY DEF Shown
  <1>2. c # None /\ Shown(v) = DeltaKeys(v, c)
    BY <1>1 DEF Shown
  <1>3. FoldsSafely(v.since)
    BY <1>2 DEF ContextChangesSince
  <1>4. PICK u \in Nat, s \in Nat : u = Len(ledger) /\ s = v.since /\ s <= n /\ s \in 1 .. u
    BY <1>1, LedgerShape DEF NotAfter
  <1>5. /\ \A x \in Keys : x \notin c.keys => Writes(x, s + 1, u) = {}
        /\ Transitions(s + 1, u) = {} => c.anchorPath = None
        /\ Transitions(s + 1, u) # {} => c.anchorPath = Path(s)
    BY <1>3, <1>4, DeltaIsExact DEF c
  <1> HIDE DEF c
  <1>6. Path(s) \in States /\ k \in Keys /\ None \notin States
    BY <1>4, RunTyped, DeltaAssumption
  <1>7. k \notin c.keys /\ k \in Scope[IF c.anchorPath = None THEN v.path ELSE c.anchorPath]
    BY <1>2, <1>6, DeltaAssumption DEF DeltaKeys
  <1>8. k \in Scope[Path(s)]
    <2>1. CASE Transitions(s + 1, u) # {}
      BY <1>5, <1>6, <1>7, <2>1
    <2>2. CASE Transitions(s + 1, u) = {}
      <3>1. Transitions(s + 1, n) = {}
        BY <1>4, <2>2 DEF Transitions
      <3>2. n \in Nat /\ s <= n
        BY <1>4
      <3>3. Path(n) = Path(s)
        BY <1>4, <3>1, <3>2, Unwritten, Zenon
      <3> QED BY <3>3
    <2> QED BY <2>1, <2>2
  <1> QED BY <1>1, <1>4, <1>5, <1>6, <1>7, <1>8

\* What an agent holds of a key that a view shows is the view's value; the others it keeps.
LEMMA HeldShape ==
    ASSUME NEW a, NEW v, NEW k \in Keys
    PROVE  /\ k \in Shown(v) => HeldAfter(a, v)[k] = v.ctx[k]
           /\ k \notin Shown(v) => HeldAfter(a, v)[k] = agent[a].held[k]
  <1>1. k \in Named(v) => k \in Shown(v) /\ Supplied(v.cause)[k] = v.ctx[k]
    BY DEF Named, Accepted
  <1> QED BY <1>1 DEF HeldAfter

-----------------------------------------------------------------------------
(* Steps *)

\* What an event does to the run.
RunAdvances ==
    IsLedger(ledger) =>
        \A n \in 1 .. Len(ledger) :
            IF ledger[n].type = "STATE_TRANSITION"
            THEN Context(n) = Over(PatchOf(n, 1), Context(n - 1)) /\ Path(n) = ledger[n].to
            ELSE Context(n) = Context(n - 1) /\ Path(n) = Path(n - 1)

\* Every ledger advances its run so ...
LEMMA EventAt == RunAdvances
  BY TransitionAt, NoTransitionAt DEF RunAdvances

\* ... the one after a step too.
LEMMA EventAtNext == RunAdvances'
  BY EventAt, PTL

\* A signal leaves the run as it was.
LEMMA AfterSignal ==
    ASSUME Grown, NEW n \in Nat, Len(ledger) = n, Len(ledger') = n + 1, ledger'[n + 1].type # "STATE_TRANSITION"
    PROVE  Context(n + 1)' = Context(n) /\ Path(n + 1)' = Path(n)
  <1>1. n + 1 \in 1 .. Len(ledger') /\ (n + 1) - 1 = n /\ n \in 0 .. Len(ledger)
    OBVIOUS
  <1>2. Context(n + 1)' = Context(n)' /\ Path(n + 1)' = Path(n)'
    <2>1. IsLedger(ledger)'
      BY DEF Grown
    <2>2. \A m \in 1 .. Len(ledger') :
              IF ledger'[m].type = "STATE_TRANSITION"
              THEN Context(m)' = Over(PatchOf(m, 1)', Context(m - 1)') /\ Path(m)' = ledger'[m].to
              ELSE Context(m)' = Context(m - 1)' /\ Path(m)' = Path(m - 1)'
      BY <2>1, EventAtNext DEF RunAdvances, Over
    <2> QED BY <1>1, <2>2
  <1> QED BY <1>1, <1>2, OldRun

\* A transition writes its patch over the context and enters its target.
LEMMA AfterTransition ==
    ASSUME Grown, NEW n \in Nat, Len(ledger) = n, Len(ledger') = n + 1, NEW c, NEW f, NEW t, NEW p, p # None,
           ledger'[n + 1] = Transition(c, f, t, p)
    PROVE  Context(n + 1)' = Over(p, Context(n)) /\ Path(n + 1)' = t
  <1>1. n + 1 \in 1 .. Len(ledger') /\ (n + 1) - 1 = n /\ n \in 0 .. Len(ledger)
    OBVIOUS
  <1>2. ledger'[n + 1].type = "STATE_TRANSITION" /\ ledger'[n + 1].to = t /\ ledger'[n + 1].patch = p
    BY DEF Transition
  <1>3. PatchOf(n + 1, 1)' = p
    BY <1>2 DEF PatchOf
  <1>4. Context(n + 1)' = Over(PatchOf(n + 1, 1)', Context(n)') /\ Path(n + 1)' = ledger'[n + 1].to
    <2>1. IsLedger(ledger)'
      BY DEF Grown
    <2>2. \A m \in 1 .. Len(ledger') :
              IF ledger'[m].type = "STATE_TRANSITION"
              THEN Context(m)' = Over(PatchOf(m, 1)', Context(m - 1)') /\ Path(m)' = ledger'[m].to
              ELSE Context(m)' = Context(m - 1)' /\ Path(m)' = Path(m - 1)'
      BY <2>1, EventAtNext DEF RunAdvances, Over
    <2> QED BY <1>1, <1>2, <2>2
  <1>5. Context(n)' = Context(n)
    BY <1>1, OldRun
  <1> QED BY <1>2, <1>3, <1>4, <1>5

\* The lengths of a ledger and of the grown one.
LEMMA GrownLengths ==
    ASSUME Grown
    PROVE  \E u \in Nat, v \in Nat : u = Len(ledger) /\ v = Len(ledger') /\ u <= v /\ u > 0
  <1>1. Len(ledger) \in Nat /\ Len(ledger') \in Nat /\ Len(ledger) > 0
    BY DEF Grown, IsLedger
  <1> QED BY <1>1 DEF Grown

\* An engine that does nothing still holds the run, if nobody has written.
LEMMA EngineStays ==
    ASSUME Grown, NEW a \in Agents, DeltaTypeOK, engine'[a] = engine[a], emit'[a] = emit[a], EngineIsRun(a)
    PROVE  EngineIsRun(a)'
  <1>1. PICK u \in Nat, v \in Nat : u = Len(ledger) /\ v = Len(ledger') /\ u <= v /\ u > 0
    BY GrownLengths
  <1>2. engine[a].seq \in 1 .. u
    BY <1>1 DEF DeltaTypeOK
  <1>3. CASE u # v
    BY <1>1, <1>2, <1>3 DEF EngineIsRun
  <1>4. CASE u = v
    <2>1. Context(u)' = Context(u) /\ Path(u)' = Path(u) /\ ledger'[u] = ledger[u]
      BY <1>1, OldRun DEF Grown
    <2>2. Merging(a)' <=> Merging(a)
      BY <1>1, <1>4 DEF Merging, Guarding
    <2> QED BY <1>1, <1>4, <2>1, <2>2 DEF EngineIsRun, Over, All
  <1> QED BY <1>3, <1>4

\* A submission that nobody works on fits, as its engine only catches up.
LEMMA EmissionStays ==
    ASSUME Grown, NEW a, emit'[a] = emit[a], agent'[a] = agent[a], EmissionFits(a),
           Guarding(a) => emit[a].cause <= engine'[a].seq
    PROVE  EmissionFits(a)'
  <1>1. CASE emit[a] = None
    BY <1>1 DEF EmissionFits
  <1>2. CASE emit[a] # None
    <2>1. PICK e : e = emit[a]
      OBVIOUS
    <2>2. e.cause \in 2 .. Len(ledger) /\ IsCause(e.cause) /\ Anchored(a, e.since)
      BY <1>2, <2>1 DEF EmissionFits
    <2>3. IsCause(e.cause)' /\ Anchored(a, e.since)'
      BY <2>2, AnchoredStays, CauseStays
    <2>4. e.cause \in 2 .. Len(ledger')
      BY <2>2, GrownLengths
    <2>5. Guarding(a)' <=> Guarding(a)
      BY DEF Guarding
    <2> QED BY <1>2, <2>1, <2>3, <2>4, <2>5 DEF EmissionFits
  <1> QED BY <1>1, <1>2

\* What an agent holds still fits.
LEMMA AgentStays ==
    ASSUME Grown, NEW a \in Agents, DeltaTypeOK, agent'[a] = agent[a], session'[a] = session[a], AgentFits(a)
    PROVE  AgentFits(a)'
  <1>1. agent[a].seq \in 0 .. Len(ledger)
    BY DEF DeltaTypeOK
  <1>2. PICK n \in Nat : n = agent[a].seq
    BY <1>1
  <1>3. PICK s : s = session[a]
    OBVIOUS
  <1>4. Context(n)' = Context(n) /\ Path(n)' = Path(n)
    BY <1>1, <1>2, <1>3, OldRun
  <1>5. agent[a].sure => Anchored(a, s)'
    BY <1>2, <1>3, AnchoredStays DEF AgentFits
  <1> QED BY <1>2, <1>3, <1>4, <1>5 DEF AgentFits

\* A view that its process does not work on is as before, or overtaken.
Overtaken(a) ==
    IF answer[a] = None THEN answer'[a] = None
    ELSE IF answer[a].seq = None THEN answer'[a] = [answer[a] EXCEPT !.torn = TRUE]
    ELSE answer'[a] = [answer[a] EXCEPT !.ahead = TRUE]

LeftAlone(a) == IF Len(ledger') = Len(ledger) THEN answer'[a] = answer[a] ELSE Overtaken(a)

\* Such a view fits the grown ledger.
LEMMA ViewStays ==
    ASSUME Grown, NEW a \in Agents, DeltaTypeOK, LeftAlone(a), agent'[a] = agent[a], session'[a] = session[a],
           emit'[a] = emit[a], ViewFits(a)
    PROVE  ViewFits(a)'
  <1>1. PICK u \in Nat, w \in Nat : u = Len(ledger) /\ w = Len(ledger') /\ u <= w /\ u > 0
    BY GrownLengths
  <1>2. CASE answer[a] = None
    BY <1>2 DEF ViewFits, LeftAlone, Overtaken
  <1>3. CASE answer[a] # None
    <2>1. PICK v : v = answer[a] /\ v \in Views
      BY <1>3 DEF DeltaTypeOK
    <2>2. PICK x : x = answer'[a]
      OBVIOUS
    <2>3. x.cause = v.cause /\ x.since = v.since /\ x.seq = v.seq /\ x.path = v.path /\ x.ctx = v.ctx
      BY <1>3, <2>1, <2>2 DEF LeftAlone, Overtaken, Views
    <2>4. IsCause(v.cause)' /\ Anchored(a, v.since)'
      <3>1. IsCause(v.cause) /\ Anchored(a, v.since)
        BY <1>3, <2>1 DEF ViewFits
      <3> QED BY <3>1, AnchoredStays, CauseStays
    <2>5. CASE v.seq = None
      <3>1. ~v.ahead /\ (~v.torn => v.path = Path(u) /\ v.ctx = Context(u))
        BY <1>1, <1>3, <2>1, <2>5 DEF ViewFits
      <3>2. ~x.ahead /\ (~x.torn => u = w /\ ~v.torn)
        BY <1>1, <1>3, <2>1, <2>2, <2>5, <3>1 DEF LeftAlone, Overtaken, Views
      <3>3. Path(u)' = Path(u) /\ Context(u)' = Context(u)
        BY <1>1, OldRun
      <3> QED BY <1>1, <2>2, <2>3, <2>4, <2>5, <3>1, <3>2, <3>3 DEF ViewFits
    <2>6. CASE v.seq # None
      <3>1. PICK n \in Nat : n = v.seq /\ n \in 1 .. u
        BY <1>1, <1>3, <2>1, <2>6 DEF ViewFits
      <3>2. /\ ~v.torn => v.path = Path(n) /\ v.ctx = Context(n)
            /\ ~v.ahead => n = u
            /\ NotAfter(v.since, n) /\ NotAfter(session[a], n)
            /\ emit[a] # None => NotAfter(emit[a].since, n)
        BY <1>1, <1>3, <2>1, <2>6, <3>1 DEF ViewFits
      <3>3. (~x.ahead => u = w /\ ~v.ahead) /\ (x.torn <=> v.torn)
        BY <1>1, <1>3, <2>1, <2>2, <2>6 DEF LeftAlone, Overtaken, Views
      <3>4. Path(n)' = Path(n) /\ Context(n)' = Context(n)
        BY <1>1, <3>1, OldRun
      <3> QED BY <1>1, <2>2, <2>3, <2>4, <2>6, <3>1, <3>2, <3>3, <3>4 DEF ViewFits, NotAfter
    <2> QED BY <2>5, <2>6
  <1> QED BY <1>2, <1>3

\* A snapshot that stands is still the run at its sequence.
LEMMA SnapshotStays ==
    ASSUME Grown, DeltaTypeOK, SnapshotIsRun, UNCHANGED snapshot,
           Len(ledger') = Len(ledger) \/ (Len(ledger') = Len(ledger) + 1 /\ ledger'[Len(ledger) + 1].type # "STATE_TRANSITION")
    PROVE  SnapshotIsRun'
  <1>1. PICK u \in Nat, v \in Nat : u = Len(ledger) /\ v = Len(ledger') /\ u <= v /\ u > 0
    BY GrownLengths
  <1>2. PICK s \in Nat : s = snapshot.seq /\ s \in 1 .. u
    BY <1>1 DEF DeltaTypeOK
  <1>3. At(snapshot, s)'
    <2>1. Context(s)' = Context(s) /\ Path(s)' = Path(s)
      BY <1>1, <1>2, OldRun
    <2> QED BY <1>2, <2>1 DEF SnapshotIsRun, At
  <1>4. ASSUME NEW n \in Transitions(s + 1, v)', ledger'[n].patch = None PROVE ledger'[n].cause > s
    <2>1. n \in (s + 1) .. v /\ ledger'[n].type = "STATE_TRANSITION"
      BY <1>4 DEF Transitions
    <2>2. n \in 1 .. u
      BY <1>1, <2>1
    <2>3. ledger'[n] = ledger[n]
      BY <1>1, <2>2 DEF Grown
    <2>4. n \in Transitions(s + 1, u)
      BY <1>2, <2>1, <2>2, <2>3 DEF Transitions
    <2> QED BY <1>1, <1>2, <1>4, <2>3, <2>4 DEF SnapshotIsRun
  <1> QED BY <1>1, <1>2, <1>3, <1>4 DEF SnapshotIsRun

\* What a step leaves of the other agents and their processes.
Others(a) ==
    \A b \in Agents \ {a} :
        engine'[b] = engine[b] /\ emit'[b] = emit[b] /\ session'[b] = session[b] /\ agent'[b] = agent[b] /\ LeftAlone(b)

\* The types after a step of a.
OwnTyped(a) ==
    /\ snapshot' \in Engines /\ snapshot'.seq \in 1 .. Len(ledger')
    /\ engine' \in [Agents -> Engines] /\ engine'[a].seq \in 1 .. Len(ledger')
    /\ emit' \in [Agents -> Emissions \cup {None}] /\ answer' \in [Agents -> Views \cup {None}]
    /\ session' \in [Agents -> Nat \cup {None}] /\ (session'[a] # None => session'[a] \in 1 .. Len(ledger'))
    /\ agent' \in [Agents -> Holdings] /\ agent'[a].seq \in 0 .. Len(ledger')
    /\ tried' \subseteq Agents /\ faults' \in 0 .. MaxFaults
    /\ calls' \in [Agents -> Nat] /\ \A b \in Agents : calls'[b] <= MaxCalls[b]

\* A step of one agent's process preserves the invariant if it does so for that agent.
LEMMA StepOf ==
    ASSUME DeltaInv, Grown, NEW a \in Agents, OwnTyped(a), Others(a), SnapshotIsRun', Fits(a)'
    PROVE  DeltaInv'
  <1>1. PICK u \in Nat, v \in Nat : u = Len(ledger) /\ v = Len(ledger') /\ u <= v /\ u > 0
    BY GrownLengths
  <1>2. DeltaTypeOK'
    <2>1. ASSUME NEW b \in Agents
          PROVE  engine'[b].seq \in 1 .. v /\ agent'[b].seq \in 0 .. v /\ session'[b] \in 1 .. v \cup {None}
      <3>1. CASE b = a
        BY <1>1, <3>1 DEF OwnTyped
      <3>2. CASE b # a
        <4>1. engine'[b] = engine[b] /\ session'[b] = session[b] /\ agent'[b] = agent[b]
          BY <3>2 DEF Others
        <4>2. engine[b].seq \in 1 .. u /\ agent[b].seq \in 0 .. u /\ session[b] \in 1 .. u \cup {None}
          BY <1>1 DEF DeltaInv, DeltaTypeOK
        <4> QED BY <1>1, <4>1, <4>2
      <3> QED BY <3>1, <3>2
    <2>2. session' \in [Agents -> 1 .. v \cup {None}]
      BY <2>1 DEF OwnTyped
    <2> QED BY <1>1, <2>1, <2>2 DEF OwnTyped, DeltaTypeOK
  <1>3. ASSUME NEW b \in Agents, b # a PROVE Fits(b)'
    <2>1. engine'[b] = engine[b] /\ emit'[b] = emit[b] /\ session'[b] = session[b] /\ agent'[b] = agent[b] /\ LeftAlone(b)
      BY <1>3 DEF Others
    <2>2. DeltaTypeOK /\ Fits(b)
      BY DEF DeltaInv
    <2>3. EngineIsRun(b)'
      BY <2>1, <2>2, EngineStays DEF Fits
    <2>4. EmissionFits(b)'
      <3>1. Guarding(b) => emit[b].cause <= engine'[b].seq
        BY <2>1, <2>2 DEF Fits, EmissionFits, Guarding
      <3> QED BY <2>1, <2>2, <3>1, EmissionStays DEF Fits
    <2>5. ViewFits(b)'
      BY <2>1, <2>2, ViewStays DEF Fits
    <2>6. AgentFits(b)'
      BY <2>1, <2>2, AgentStays DEF Fits
    <2> QED BY <2>3, <2>4, <2>5, <2>6 DEF Fits
  <1>4. \A b \in Agents : Fits(b)'
    BY <1>3
  <1>5. IsLedger(ledger)'
    BY DEF Grown
  <1> QED BY <1>2, <1>4, <1>5 DEF DeltaInv

\* A replay of a context is a context.
LEMMA ReplayTyped ==
    ASSUME IsLedger(ledger), NEW ctx \in [Keys -> Values], NEW f \in Nat, f > 0, NEW n \in 0 .. Len(ledger)
    PROVE  ReplayedContext(ctx, f, n) \in [Keys -> Values]
  <1>1. ASSUME NEW k \in Keys PROVE ReplayedContext(ctx, f, n)[k] \in Values
    <2>1. PICK S : S = {m \in Transitions(f, n) : k \in DOMAIN PatchOf(m, f)}
      OBVIOUS
    <2>2. ReplayedContext(ctx, f, n)[k] = IF S = {} THEN ctx[k] ELSE PatchOf(Max(S), f)[k]
      BY <2>1 DEF ReplayedContext
    <2>3. ASSUME S # {} PROVE PatchOf(Max(S), f)[k] \in Values
      <3>1. S \subseteq 1 .. n /\ n \in Nat
        BY <2>1, LedgerShape DEF Transitions
      <3>2. Max(S) \in S
        BY <2>3, <3>1, LastIn
      <3>5. Max(S) \in 1 .. n
        BY <3>1, <3>2
      <3>3. PICK m \in Nat : m = Max(S) /\ m \in S /\ m \in 1 .. n
        BY <3>2, <3>5
      <3>4. m \in 1 .. Len(ledger) /\ ledger[m].type = "STATE_TRANSITION" /\ k \in DOMAIN PatchOf(m, f)
        BY <2>1, <3>3, LedgerShape DEF Transitions
      <3> QED BY <3>3, <3>4, PatchShape
    <2> QED BY <2>2, <2>3
  <1> QED BY <1>1, ReplayedDomain

\* An engine built from the snapshot holds the run.
LEMMA LoadedFits ==
    ASSUME snapshot \in Engines, snapshot.seq \in 1 .. Len(ledger), IsLedger(ledger), SnapshotIsRun
    PROVE  Loaded \in Engines /\ Loaded.seq = Len(ledger) /\ At(Loaded, Len(ledger))
  <1>1. PICK u \in Nat : u = Len(ledger) /\ u > 0
    BY LedgerShape
  <1>2. PICK s \in Nat : s = snapshot.seq /\ s \in 1 .. u
    BY <1>1
  <1>3. snapshot.ctx \in [Keys -> Values] /\ snapshot.path \in States /\ snapshot.leaked \in BOOLEAN
    BY DEF Engines
  <1>4. ReadsAll(s + 1, u)
    <2>1. ASSUME NEW n \in Transitions(s + 1, u) PROVE PatchOf(n, s + 1) = PatchOf(n, 1)
      <3>1. n \in 1 .. Len(ledger) /\ ledger[n].type = "STATE_TRANSITION"
        BY <1>1 DEF Transitions
      <3>2. PICK c \in Nat : c = ledger[n].cause /\ c >= 1
        BY <3>1, TransitionShape
      <3>3. ledger[n].patch = None => c > s
        BY <1>1, <1>2, <3>2 DEF SnapshotIsRun
      <3>4. ledger[n].patch = None => c >= s + 1
        BY <3>2, <3>3
      <3> QED BY <3>2, <3>4 DEF PatchOf
    <2> QED BY <2>1 DEF ReadsAll
  <1>5. ReplayedContext(Context(s), s + 1, u) = Context(u) /\ ReplayedPath(Path(s), s + 1, u) = Path(u)
    BY <1>2, <1>4, ReplayedFrom
  <1>6. ReplayedContext(snapshot.ctx, s + 1, u) \in [Keys -> Values]
    <2>1. s + 1 \in Nat /\ s + 1 > 0 /\ u \in 0 .. Len(ledger)
      BY <1>1
    <2> QED BY <1>3, <2>1, ReplayTyped
  <1>7. snapshot.path = Path(s) /\ (~snapshot.leaked => snapshot.ctx = Context(s))
    BY <1>2 DEF SnapshotIsRun, At
  <1>8. /\ Loaded.seq = u /\ Loaded.ctx = ReplayedContext(snapshot.ctx, s + 1, u) /\ Loaded.path = Path(u)
        /\ Loaded.leaked = snapshot.leaked
    BY <1>1, <1>2, <1>5, <1>7 DEF Loaded
  <1>9. Path(u) \in States
    BY <1>1, RunTyped
  <1>10. Loaded \in Engines
    BY <1>1, <1>2, <1>3, <1>5, <1>6, <1>7, <1>9 DEF Loaded, Engines
  <1>11. ~Loaded.leaked => Loaded.ctx = Context(u)
    BY <1>5, <1>7, <1>8
  <1> QED BY <1>1, <1>8, <1>10, <1>11 DEF At

\* ... at every step of a run.
LEMMA LoadedIsRun ==
    ASSUME DeltaTypeOK, IsLedger(ledger), SnapshotIsRun
    PROVE  Loaded \in Engines /\ Loaded.seq = Len(ledger) /\ At(Loaded, Len(ledger))
  BY LoadedFits DEF DeltaTypeOK

\* An engine after its refresh holds the run, or the run and the fields its guard sees.
LEMMA RefreshedFits ==
    ASSUME DeltaInv, NEW a \in Agents
    PROVE  /\ Refreshed(a) \in Engines /\ Refreshed(a).seq = Len(ledger) /\ Refreshed(a).path = Path(Len(ledger))
           /\ ~Refreshed(a).leaked /\ ~(Guarding(a) /\ ~External(a)) => Refreshed(a).ctx = Context(Len(ledger))
           /\ ~External(a) => Refreshed(a) = engine[a]
           /\ engine[a].seq <= Refreshed(a).seq
  <1>1. PICK u \in Nat : u = Len(ledger) /\ u > 0
    BY LedgerShape DEF DeltaInv
  <1>2. engine[a] \in Engines /\ engine[a].seq \in 1 .. u /\ EngineIsRun(a) /\ EmissionFits(a)
    BY <1>1 DEF DeltaInv, DeltaTypeOK, Fits
  <1>3. CASE External(a)
    <2>1. Refreshed(a) = Loaded
      BY <1>3 DEF Refreshed
    <2>2. Loaded \in Engines /\ Loaded.seq = u /\ At(Loaded, u)
      BY <1>1, LoadedIsRun DEF DeltaInv
    <2> QED BY <1>1, <1>2, <1>3, <2>1, <2>2 DEF At
  <1>4. CASE ~External(a)
    <2>1. Refreshed(a) = engine[a] /\ engine[a].seq = u
      BY <1>1, <1>2, <1>4 DEF Refreshed, External
    <2>2. engine[a].path = Path(u) /\ (~engine[a].leaked /\ ~Guarding(a) => engine[a].ctx = Context(u))
      BY <1>1, <1>2, <2>1 DEF EngineIsRun, Merging
    <2> QED BY <1>1, <1>2, <1>4, <2>1, <2>2
  <1> QED BY <1>3, <1>4

-----------------------------------------------------------------------------
(* Submissions *)

\* What the invariant says at one agent, with the types of its parts.
LEMMA FitsParts ==
    ASSUME DeltaInv, NEW a \in Agents
    PROVE  /\ engine[a] \in Engines /\ engine[a].seq \in 1 .. Len(ledger)
           /\ emit[a] # None => emit[a] \in Emissions
           /\ answer[a] # None => answer[a] \in Views
           /\ agent[a] \in Holdings /\ agent[a].seq \in 0 .. Len(ledger)
           /\ session[a] # None => session[a] \in 1 .. Len(ledger)
           /\ EngineIsRun(a) /\ EmissionFits(a) /\ ViewFits(a) /\ AgentFits(a)
           /\ DeltaTypeOK /\ IsLedger(ledger) /\ SnapshotIsRun
           /\ Len(ledger) \in Nat /\ Len(ledger) > 0
  <1>1. DeltaTypeOK /\ Fits(a) /\ IsLedger(ledger)
    BY DEF DeltaInv
  <1>2. Len(ledger) \in Nat /\ Len(ledger) > 0
    BY <1>1, LedgerShape
  <1> QED BY <1>1, <1>2 DEF DeltaInv, DeltaTypeOK, Fits

\* Another process's event overtakes the views.
LEMMA OvertakeShape ==
    ASSUME DeltaTypeOK, NEW a \in Agents, Overtake(a), Len(ledger') # Len(ledger)
    PROVE  /\ answer' \in [Agents -> Views \cup {None}] /\ answer'[a] = answer[a]
           /\ \A b \in Agents \ {a} : LeftAlone(b)
  <1>1. answer \in [Agents -> Views \cup {None}]
    BY DEF DeltaTypeOK
  <1>2. ASSUME NEW b \in Agents PROVE answer'[b] \in Views \cup {None} /\ (b = a => answer'[b] = answer[b])
    <2>1. CASE answer[b] = None
      BY <2>1 DEF Overtake
    <2>2. CASE answer[b] # None
      <3>1. answer[b] \in Views
        BY <1>1, <2>2
      <3>2. [answer[b] EXCEPT !.torn = TRUE] \in Views /\ [answer[b] EXCEPT !.ahead = TRUE] \in Views
        BY <3>1 DEF Views
      <3> QED BY <3>1, <3>2 DEF Overtake
    <2> QED BY <2>1, <2>2
  <1>3. answer' \in [Agents -> Views \cup {None}]
    BY <1>2 DEF Overtake
  <1>4. \A b \in Agents \ {a} : LeftAlone(b)
    BY DEF Overtake, LeftAlone, Overtaken
  <1> QED BY <1>2, <1>3, <1>4

\* A call counts.
LEMMA CallShape ==
    ASSUME DeltaTypeOK, NEW a \in Agents, Call(a)
    PROVE  calls' \in [Agents -> Nat] /\ \A b \in Agents : calls'[b] <= MaxCalls[b]
  <1>1. calls \in [Agents -> Nat] /\ MaxCalls \in [Agents -> Nat] /\ \A b \in Agents : calls[b] <= MaxCalls[b]
    BY DeltaAssumption DEF DeltaTypeOK
  <1>2. calls[a] \in Nat /\ MaxCalls[a] \in Nat /\ calls[a] < MaxCalls[a] /\ calls' = [calls EXCEPT ![a] = calls[a] + 1]
    BY <1>1 DEF Call
  <1> QED BY <1>1, <1>2

\* An anchor is a position whose view the agent holds.
LEMMA AnchorsFit ==
    ASSUME DeltaInv, NEW a \in Agents, NEW s \in Anchors(a)
    PROVE  Anchored(a, s) /\ s \in Nat \cup {None}
  <1>1. AgentFits(a) /\ agent[a].seq \in 0 .. Len(ledger) /\ (session[a] # None => session[a] \in 1 .. Len(ledger))
    BY FitsParts
  <1>2. CASE s = None
    BY <1>2 DEF Anchored
  <1>3. CASE s # None /\ s = agent[a].seq /\ agent[a].seq > 0
    <2>1. HoldsSince(a, s)
      BY <1>1, <1>3 DEF AgentFits, HoldsSince
    <2> QED BY <1>1, <1>3, <2>1 DEF Anchored
  <1>4. CASE s # None /\ s = session[a] /\ agent[a].sure
    BY <1>1, <1>4 DEF AgentFits
  <1> QED BY <1>2, <1>3, <1>4 DEF Anchors

\* A context written over is a context.
LEMMA OverTyped ==
    ASSUME NEW f, DOMAIN f \subseteq Keys, \A k \in DOMAIN f : f[k] \in Values, NEW g \in [Keys -> Values]
    PROVE  Over(f, g) \in [Keys -> Values]
  BY DEF Over

\* A submission is recorded, and its fields merged.
LEMMA SubmitKeeps ==
    ASSUME DeltaInv, NEW a \in Agents, Submit(a)
    PROVE  DeltaInv'
  <1>1. PICK u \in Nat : u = Len(ledger) /\ u > 0
    BY FitsParts
  <1>2. PICK e : e = Refreshed(a)
    OBVIOUS
  <1>3. PICK sub \in Submissions[a], since \in Anchors(a) :
            /\ ledger' = Append(ledger, Signal(sub))
            /\ emit' = [emit EXCEPT ![a] = [at |-> "guard", cause |-> u + 1, since |-> since, before |-> e.ctx]]
            /\ engine' = [engine EXCEPT ![a] =
                 [e EXCEPT !.seq = u + 1, !.ctx = Over(All(sub.fields, <<"signal", u + 1>>), e.ctx)]]
    BY <1>1, <1>2 DEF Submit
  <1>4. /\ answer[a] = None /\ emit[a] = None /\ Call(a) /\ tried' = tried \cup {a} /\ Overtake(a)
        /\ UNCHANGED <<snapshot, session, agent, faults>>
    BY DEF Submit, Free
  <1>5. sub \in Payloads
    BY DeltaAssumption
  <1>6. Grown /\ Len(ledger') = u + 1 /\ ledger'[u + 1] = Signal(sub)
    <2>1. IsSignal(Signal(sub))
      BY <1>5 DEF IsSignal, Signal
    <2> QED BY <1>1, <1>3, <2>1, Appended, FitsParts
  <1>7. e \in Engines /\ e.path = Path(u) /\ (~e.leaked => e.ctx = Context(u))
    BY <1>1, <1>2, <1>4, RefreshedFits DEF Guarding
  <1>8. ledger'[u + 1].type # "STATE_TRANSITION" /\ ledger'[u + 1].sub = sub /\ IsSignal(ledger'[u + 1])
    BY <1>5, <1>6 DEF Signal, IsSignal
  <1>9. Context(u + 1)' = Context(u) /\ Path(u + 1)' = Path(u)
    BY <1>1, <1>6, <1>8, AfterSignal
  <1>10. Anchored(a, since) /\ since \in Nat \cup {None}
    BY AnchorsFit
  <1>11. PICK em : em = [at |-> "guard", cause |-> u + 1, since |-> since, before |-> e.ctx]
    OBVIOUS
  <1>12. em \in Emissions /\ em # None
    BY <1>7, <1>10, <1>11, DeltaAssumption DEF Emissions, Engines
  <1>13. PICK en : en = [e EXCEPT !.seq = u + 1, !.ctx = Over(All(sub.fields, <<"signal", u + 1>>), e.ctx)]
    OBVIOUS
  <1>14. /\ en \in Engines /\ en.seq = u + 1 /\ en.path = e.path /\ (en.leaked <=> e.leaked)
         /\ en.ctx = Over(All(sub.fields, <<"signal", u + 1>>), e.ctx)
    <2>1. PICK f : f = All(sub.fields, <<"signal", u + 1>>)
      OBVIOUS
    <2>2. DOMAIN f \subseteq Keys /\ \A k \in DOMAIN f : f[k] \in Values
      BY <1>5, <2>1 DEF All, Payloads, Values
    <2>3. Over(f, e.ctx) \in [Keys -> Values]
      BY <1>7, <2>2, OverTyped DEF Engines
    <2>4. PICK ctx \in [Keys -> Values] : ctx = Over(All(sub.fields, <<"signal", u + 1>>), e.ctx)
      BY <2>1, <2>3
    <2>5. PICK c \in Nat : c = u + 1
      OBVIOUS
    <2>6. en = [seq |-> c, ctx |-> ctx, path |-> e.path, leaked |-> e.leaked]
      BY <1>7, <1>13, <2>4, <2>5 DEF Engines
    <2>7. e.path \in States /\ e.leaked \in BOOLEAN
      BY <1>7 DEF Engines
    <2> QED BY <2>4, <2>5, <2>6, <2>7 DEF Engines
  <1>15. engine' = [engine EXCEPT ![a] = en] /\ emit' = [emit EXCEPT ![a] = em]
    BY <1>3, <1>11, <1>13
  <1>16. DeltaTypeOK /\ engine \in [Agents -> Engines] /\ emit \in [Agents -> Emissions \cup {None}]
    BY DEF DeltaInv, DeltaTypeOK
  <1>17. engine'[a] = en /\ emit'[a] = em /\ \A b \in Agents \ {a} : engine'[b] = engine[b] /\ emit'[b] = emit[b]
    BY <1>15, <1>16
  <1>18. answer' \in [Agents -> Views \cup {None}] /\ answer'[a] = None /\ \A b \in Agents \ {a} : LeftAlone(b)
    BY <1>1, <1>4, <1>6, <1>16, OvertakeShape
  <1>19. OwnTyped(a)
    <2>1. engine' \in [Agents -> Engines] /\ emit' \in [Agents -> Emissions \cup {None}]
      BY <1>12, <1>14, <1>15, <1>16
    <2>2. calls' \in [Agents -> Nat] /\ \A b \in Agents : calls'[b] <= MaxCalls[b]
      BY <1>4, <1>16, CallShape
    <2>3. /\ snapshot' \in Engines /\ snapshot'.seq \in 1 .. u + 1 /\ agent' \in [Agents -> Holdings]
          /\ agent'[a].seq \in 0 .. u + 1 /\ tried' \subseteq Agents /\ faults' \in 0 .. MaxFaults
          /\ session' \in [Agents -> Nat \cup {None}] /\ (session'[a] # None => session'[a] \in 1 .. u + 1)
      BY <1>1, <1>4, <1>16 DEF DeltaTypeOK
    <2> QED BY <1>1, <1>6, <1>14, <1>17, <1>18, <2>1, <2>2, <2>3 DEF OwnTyped
  <1>20. Others(a)
    BY <1>4, <1>17, <1>18 DEF Others
  <1>21. SnapshotIsRun'
    BY <1>1, <1>4, <1>6, <1>8, <1>16, SnapshotStays, FitsParts
  <1>22. EngineIsRun(a)'
    <2>1. engine'[a].path = Path(u + 1)'
      BY <1>7, <1>9, <1>14, <1>17
    <2>2. ~engine'[a].leaked => emit'[a].before = Context(u + 1)'
      BY <1>7, <1>9, <1>11, <1>14, <1>17
    <2>3. engine'[a].ctx = Over(All(ledger'[u + 1].sub.fields, <<"signal", u + 1>>), emit'[a].before)
      BY <1>8, <1>11, <1>14, <1>17
    <2>4. Merging(a)'
      BY <1>6, <1>11, <1>12, <1>17 DEF Merging, Guarding
    <2>5. Len(ledger') = u + 1
      BY <1>6
    <2>6. EngineIsRun(a)' <=>
            (engine'[a].seq = u + 1 =>
                /\ engine'[a].path = Path(u + 1)'
                /\ ~engine'[a].leaked =>
                      IF Merging(a)'
                      THEN /\ emit'[a].before = Context(u + 1)'
                           /\ engine'[a].ctx = Over(All(ledger'[u + 1].sub.fields, <<"signal", u + 1>>), emit'[a].before)
                      ELSE engine'[a].ctx = Context(u + 1)')
      BY <2>5 DEF EngineIsRun, Over, All
    <2> QED BY <2>1, <2>2, <2>3, <2>4, <2>6
  <1>23. EmissionFits(a)'
    <2>1. IsCause(u + 1)' /\ Anchored(a, since)'
      BY <1>1, <1>4, <1>6, <1>8, <1>10, AnchoredStays DEF IsCause
    <2> QED BY <1>1, <1>6, <1>11, <1>14, <1>17, <2>1 DEF EmissionFits
  <1>24. ViewFits(a)'
    BY <1>18 DEF ViewFits
  <1>25. AgentFits(a)'
    BY <1>4, <1>6, AgentStays, FitsParts
  <1> QED BY <1>6, <1>19, <1>20, <1>21, <1>22, <1>23, <1>24, <1>25, StepOf DEF Fits

\* What a transition writes covers the fields of its signal, and is a patch.
LEMMA PatchTyped ==
    ASSUME NEW c \in Nat, NEW f \in States, NEW t \in States, NEW sub \in Payloads
    PROVE  /\ \E S \in SUBSET Keys : Patch(c, f, t, sub) \in [S -> Values]
           /\ sub.fields \subseteq DOMAIN Patch(c, f, t, sub) /\ Patch(c, f, t, sub) # None
  <1>1. PICK x \in SUBSET Keys, y \in SUBSET Keys :
            x = (IF f = t THEN {} ELSE OnEnter[t]) /\ y = (IF f = t THEN {} ELSE OnExit[f])
    BY DeltaAssumption
  <1>2. PICK v1, v2, v3 : v1 = <<"enter", t>> /\ v2 = <<"signal", c>> /\ v3 = <<"exit", f>>
    OBVIOUS
  <1>3. v1 \in Values /\ v2 \in Values /\ v3 \in Values
    BY <1>2 DEF Values
  <1>4. Patch(c, f, t, sub) = Over(All(x, v1), Over(All(sub.updates, v2), Over(All(y, v3), All(sub.fields, v2))))
    BY <1>1, <1>2 DEF Patch
  <1>5. sub.fields \in SUBSET Keys /\ sub.updates \in SUBSET Keys
    BY DEF Payloads
  <1>6. ASSUME NEW S \in SUBSET Keys, NEW v \in Values, NEW T \in SUBSET Keys, NEW g \in [T -> Values]
        PROVE  Over(All(S, v), g) \in [S \cup T -> Values]
    BY DEF Over, All
  <1>7. PICK g0 \in [sub.fields -> Values] : g0 = All(sub.fields, v2)
    BY <1>3 DEF All
  <1>13. Over(All(y, v3), g0) \in [y \cup sub.fields -> Values]
    BY <1>3, <1>5, <1>6
  <1>8. PICK g1 : g1 = Over(All(y, v3), All(sub.fields, v2)) /\ g1 \in [y \cup sub.fields -> Values]
    BY <1>7, <1>13
  <1>9. PICK g2 : g2 = Over(All(sub.updates, v2), g1) /\ g2 \in [sub.updates \cup (y \cup sub.fields) -> Values]
    BY <1>3, <1>5, <1>6, <1>8, y \cup sub.fields \in SUBSET Keys
  <1>10. PICK S \in SUBSET Keys : S = x \cup (sub.updates \cup (y \cup sub.fields))
    BY <1>5
  <1>11. Over(All(x, v1), g2) \in [S -> Values]
    BY <1>3, <1>5, <1>6, <1>9, <1>10, sub.updates \cup (y \cup sub.fields) \in SUBSET Keys
  <1>12. Patch(c, f, t, sub) \in [S -> Values] /\ sub.fields \subseteq S
    BY <1>4, <1>8, <1>9, <1>10, <1>11
  <1> QED BY <1>12, DeltaAssumption

\* Fields that a patch writes too are of no account under it.
LEMMA OverFields ==
    ASSUME NEW S, NEW v, NEW p, S \subseteq DOMAIN p, NEW g
    PROVE  Over(p, Over(All(S, v), g)) = Over(p, g)
  <1>1. PICK h : h = Over(All(S, v), g)
    OBVIOUS
  <1>2. DOMAIN h = S \cup DOMAIN g /\ \A k \in DOMAIN h \ S : h[k] = g[k]
    BY <1>1 DEF Over, All
  <1>3. DOMAIN p \cup DOMAIN h = DOMAIN p \cup DOMAIN g
    BY <1>2
  <1>4. \A k \in DOMAIN p \cup DOMAIN g :
            (IF k \in DOMAIN p THEN p[k] ELSE h[k]) = IF k \in DOMAIN p THEN p[k] ELSE g[k]
    BY <1>2
  <1>5. Over(p, h) = Over(p, g)
    BY <1>3, <1>4 DEF Over
  <1> QED BY <1>1, <1>5

\* While a guard runs and nobody else writes, its engine has merged the fields of the signal.
LEMMA GuardedEngine ==
    ASSUME DeltaInv, NEW a \in Agents, Guarding(a), SameVersion(a), NEW u \in Nat, u = Len(ledger)
    PROVE  /\ engine[a].seq = u /\ emit[a].cause = u /\ u \in 2 .. u /\ IsSignal(ledger[u]) /\ engine[a].path = Path(u)
           /\ emit[a] \in Emissions /\ Anchored(a, emit[a].since)
           /\ ~engine[a].leaked => /\ emit[a].before = Context(u)
                                   /\ engine[a].ctx = Over(All(ledger[u].sub.fields, <<"signal", u>>), emit[a].before)
  <1>1. emit[a] # None /\ emit[a].cause = u
    BY DEF Guarding, SameVersion
  <1>2. emit[a].cause \in 2 .. u /\ IsCause(emit[a].cause) /\ emit[a].cause <= engine[a].seq /\ engine[a].seq \in 1 .. u
    BY <1>1, FitsParts DEF EmissionFits
  <1>3. engine[a].seq = u /\ u \in 2 .. u
    BY <1>1, <1>2
  <1>4. IsSignal(ledger[u])
    BY <1>1, <1>2, <1>3, DeltaAssumption DEF IsCause
  <1>5. Merging(a)
    BY <1>1 DEF Merging
  <1>6. emit[a] \in Emissions /\ Anchored(a, emit[a].since)
    BY <1>1, FitsParts DEF EmissionFits
  <1> QED BY <1>1, <1>3, <1>4, <1>5, <1>6, FitsParts DEF EngineIsRun

\* A transition of the run as it is recorded.
LEMMA RecordedTransition ==
    ASSUME IsLedger(ledger), NEW u \in Nat, u = Len(ledger), u \in 2 .. u, IsSignal(ledger[u]), NEW t \in States, NEW p,
           \E S \in SUBSET Keys : p \in [S -> Values], ledger' = Append(ledger, Transition(u, Path(u), t, p))
    PROVE  Grown /\ Len(ledger') = u + 1 /\ ledger'[u + 1] = Transition(u, Path(u), t, p)
  <1>1. PICK e : e = Transition(u, Path(u), t, p)
    OBVIOUS
  <1>2. e.type = "STATE_TRANSITION" /\ e.cause = u /\ e.from = Path(u) /\ e.to = t /\ e.patch = p
    BY <1>1 DEF Transition
  <1>3. ledger'[u + 1] = e /\ \A i \in 1 .. u : ledger'[i] = ledger[i]
    BY <1>1, AppendShape
  <1> DEFINE earlier == {m \in 1 .. ((u + 1) - 1) : ledger'[m].type = "STATE_TRANSITION"}
  <1>4. earlier = Transitions(1, u)
    BY <1>3 DEF Transitions
  <1>5. Path(u) = IF earlier = {} THEN Initial ELSE ledger'[Max(earlier)].to
    <2>1. Transitions(1, u) \subseteq 1 .. u
      BY DEF Transitions
    <2>2. ASSUME Transitions(1, u) # {} PROVE ledger'[Max(Transitions(1, u))] = ledger[Max(Transitions(1, u))]
      BY <1>3, <2>1, <2>2, LastIn
    <2> HIDE DEF earlier
    <2> QED BY <1>4, <2>2 DEF Path, ReplayedPath
  <1>6. IsTransition(ledger', u + 1)
    <2>1. u \in 2 .. (u + 1) - 1 /\ IsSignal(ledger'[u])
      BY <1>3
    <2> QED BY <1>2, <1>3, <1>5, <2>1 DEF IsTransition
  <1> QED BY <1>1, <1>6, Appended

\* The guard passes: the transition is recorded, and the snapshot taken.
LEMMA AcceptKeeps ==
    ASSUME DeltaInv, NEW a \in Agents, NEW to \in States, Accept(a, to)
    PROVE  DeltaInv'
  <1>1. PICK u \in Nat : u = Len(ledger) /\ u > 0
    BY FitsParts
  <1>2. /\ answer[a] = None /\ Guarding(a) /\ SameVersion(a) /\ Overtake(a)
        /\ UNCHANGED <<session, agent, tried, calls, faults>>
    BY DEF Accept, Free
  <1>3. PICK e : e = engine[a]
    OBVIOUS
  <1>4. /\ e.seq = u /\ emit[a].cause = u /\ u \in 2 .. u /\ IsSignal(ledger[u]) /\ e.path = Path(u)
        /\ emit[a] \in Emissions /\ Anchored(a, emit[a].since)
        /\ ~e.leaked => e.ctx = Over(All(ledger[u].sub.fields, <<"signal", u>>), Context(u))
    BY <1>1, <1>2, <1>3, GuardedEngine
  <1>5. PICK p : p = Patch(u, Path(u), to, ledger[u].sub)
    OBVIOUS
  <1>6. Path(u) \in States /\ ledger[u].sub \in Payloads /\ e \in Engines
    BY <1>1, <1>3, <1>4, RunTyped, FitsParts DEF IsSignal
  <1>7. (\E S \in SUBSET Keys : p \in [S -> Values]) /\ ledger[u].sub.fields \subseteq DOMAIN p /\ p # None
    BY <1>5, <1>6, PatchTyped
  <1>8. PICK after : after = [e EXCEPT !.seq = u + 1, !.ctx = Over(p, e.ctx), !.path = to]
    OBVIOUS
  <1>9. /\ ledger' = Append(ledger, Transition(u, Path(u), to, p))
        /\ engine' = [engine EXCEPT ![a] = after] /\ snapshot' = after
        /\ emit' = [emit EXCEPT ![a].at = "answer"]
    BY <1>3, <1>4, <1>5, <1>8 DEF Accept
  <1>10. Grown /\ Len(ledger') = u + 1 /\ ledger'[u + 1] = Transition(u, Path(u), to, p)
    BY <1>1, <1>4, <1>7, <1>9, RecordedTransition, FitsParts
  <1>11. Context(u + 1)' = Over(p, Context(u)) /\ Path(u + 1)' = to
    BY <1>1, <1>7, <1>10, AfterTransition
  <1>12. /\ after \in Engines /\ after.seq = u + 1 /\ after.path = to /\ (after.leaked <=> e.leaked)
         /\ after.ctx = Over(p, e.ctx)
    <2>1. DOMAIN p \subseteq Keys /\ \A k \in DOMAIN p : p[k] \in Values
      BY <1>7
    <2>2. PICK ctx \in [Keys -> Values] : ctx = Over(p, e.ctx)
      BY <1>6, <2>1, OverTyped DEF Engines
    <2>3. PICK c \in Nat : c = u + 1
      OBVIOUS
    <2>4. after = [seq |-> c, ctx |-> ctx, path |-> to, leaked |-> e.leaked] /\ e.leaked \in BOOLEAN
      BY <1>6, <1>8, <2>2, <2>3 DEF Engines
    <2> QED BY <2>2, <2>3, <2>4 DEF Engines
  <1>13. ~after.leaked => after.ctx = Context(u + 1)'
    <2>1. ASSUME ~after.leaked PROVE e.ctx = Over(All(ledger[u].sub.fields, <<"signal", u>>), Context(u))
      BY <1>4, <1>12, <2>1
    <2> QED BY <1>7, <1>11, <1>12, <2>1, OverFields
  <1>14. At(after, u + 1)'
    BY <1>11, <1>12, <1>13 DEF At
  <1>15. PICK em : em = [emit[a] EXCEPT !.at = "answer"]
    OBVIOUS
  <1>16. em \in Emissions /\ em.at = "answer" /\ em.cause = u /\ em.since = emit[a].since
    BY <1>4, <1>15 DEF Emissions
  <1>17. DeltaTypeOK /\ engine \in [Agents -> Engines] /\ emit \in [Agents -> Emissions \cup {None}]
    BY DEF DeltaInv, DeltaTypeOK
  <1>18. /\ engine'[a] = after /\ emit'[a] = em /\ \A b \in Agents \ {a} : engine'[b] = engine[b] /\ emit'[b] = emit[b]
         /\ engine' \in [Agents -> Engines] /\ emit' \in [Agents -> Emissions \cup {None}]
    BY <1>9, <1>12, <1>15, <1>16, <1>17
  <1>19. answer' \in [Agents -> Views \cup {None}] /\ answer'[a] = None /\ \A b \in Agents \ {a} : LeftAlone(b)
    BY <1>1, <1>2, <1>10, <1>17, OvertakeShape
  <1>20. OwnTyped(a)
    <2>1. /\ agent' \in [Agents -> Holdings] /\ calls' \in [Agents -> Nat] /\ \A b \in Agents : calls'[b] <= MaxCalls[b]
          /\ agent'[a].seq \in 0 .. u + 1 /\ tried' \subseteq Agents /\ faults' \in 0 .. MaxFaults
          /\ session' \in [Agents -> Nat \cup {None}] /\ (session'[a] # None => session'[a] \in 1 .. u + 1)
      BY <1>1, <1>2, <1>17 DEF DeltaTypeOK
    <2> QED BY <1>9, <1>10, <1>12, <1>18, <1>19, <2>1 DEF OwnTyped
  <1>21. Others(a)
    BY <1>2, <1>18, <1>19 DEF Others
  <1>22. SnapshotIsRun'
    <2>1. Transitions(u + 1 + 1, u + 1)' = {}
      BY DEF Transitions
    <2> QED BY <1>9, <1>10, <1>12, <1>14, <2>1 DEF SnapshotIsRun, At
  <1>23. EngineIsRun(a)'
    <2>1. ~Merging(a)'
      BY <1>16, <1>18 DEF Merging, Guarding
    <2> QED BY <1>10, <1>12, <1>14, <1>18, <2>1 DEF EngineIsRun, At
  <1>24. EmissionFits(a)'
    <2>1. IsCause(u)
      BY <1>1, <1>4 DEF IsCause
    <2>4. PICK s : s = emit[a].since
      OBVIOUS
    <2>2. IsCause(u)' /\ Anchored(a, s)'
      BY <1>2, <1>4, <1>10, <2>1, <2>4, AnchoredStays, CauseStays
    <2>3. ~Guarding(a)' /\ u \in 2 .. u + 1
      BY <1>4, <1>16, <1>18 DEF Guarding
    <2> QED BY <1>10, <1>16, <1>18, <2>2, <2>3, <2>4 DEF EmissionFits
  <1>25. ViewFits(a)'
    BY <1>19 DEF ViewFits
  <1>26. AgentFits(a)'
    BY <1>2, <1>10, AgentStays, FitsParts
  <1> QED BY <1>10, <1>20, <1>21, <1>22, <1>23, <1>24, <1>25, <1>26, StepOf DEF Fits

\* What a step that writes nothing to the ledger leaves alone.
OnlyOwn(a) ==
    /\ UNCHANGED <<ledger, snapshot>>
    /\ \A b \in Agents \ {a} :
          engine'[b] = engine[b] /\ emit'[b] = emit[b] /\ session'[b] = session[b] /\ agent'[b] = agent[b] /\ answer'[b] = answer[b]

\* The types of what a process and its agent hold after such a step.
OwnValues(a) ==
    /\ engine' \in [Agents -> Engines] /\ engine'[a].seq \in 1 .. Len(ledger)
    /\ emit' \in [Agents -> Emissions \cup {None}] /\ answer' \in [Agents -> Views \cup {None}]
    /\ session' \in [Agents -> Nat \cup {None}] /\ (session'[a] # None => session'[a] \in 1 .. Len(ledger))
    /\ agent' \in [Agents -> Holdings] /\ agent'[a].seq \in 0 .. Len(ledger)

\* The counters after a step.
Counted ==
    /\ tried' \subseteq Agents /\ faults' \in 0 .. MaxFaults
    /\ calls' \in [Agents -> Nat] /\ \A b \in Agents : calls'[b] <= MaxCalls[b]

\* A ledger that nobody writes has grown by nothing.
LEMMA QuietGrows ==
    ASSUME IsLedger(ledger), UNCHANGED ledger
    PROVE  Grown /\ Len(ledger') = Len(ledger)
  BY SameLedger

\* A step that writes nothing to the ledger preserves the invariant if it does so for its agent.
LEMMA QuietStep ==
    ASSUME DeltaInv, NEW a \in Agents, OnlyOwn(a), OwnValues(a), Counted, Fits(a)'
    PROVE  DeltaInv'
  <1>1. Grown /\ ledger' = ledger /\ Len(ledger') = Len(ledger)
    BY QuietGrows, FitsParts DEF OnlyOwn
  <1>2. DeltaTypeOK /\ snapshot' = snapshot
    BY DEF DeltaInv, OnlyOwn
  <1>3. SnapshotIsRun'
    BY <1>1, <1>2, SnapshotStays, FitsParts
  <1>4. OwnTyped(a)
    BY <1>1, <1>2 DEF OwnTyped, OwnValues, Counted, DeltaTypeOK
  <1>5. Others(a)
    BY <1>1 DEF Others, OnlyOwn, LeftAlone
  <1> QED BY <1>1, <1>3, <1>4, <1>5, StepOf

\* Counters that nobody touches.
LEMMA CountersStay ==
    ASSUME DeltaInv, UNCHANGED <<tried, calls>>, faults' = faults \/ (faults < MaxFaults /\ faults' = faults + 1)
    PROVE  Counted
  BY DeltaAssumption DEF DeltaInv, DeltaTypeOK, Counted

\* The values that a process and its agent start a step with.
LEMMA Held ==
    ASSUME DeltaInv, NEW a \in Agents
    PROVE  /\ engine \in [Agents -> Engines] /\ engine[a].seq \in 1 .. Len(ledger)
           /\ emit \in [Agents -> Emissions \cup {None}] /\ answer \in [Agents -> Views \cup {None}]
           /\ session \in [Agents -> Nat \cup {None}] /\ (session[a] # None => session[a] \in 1 .. Len(ledger))
           /\ agent \in [Agents -> Holdings] /\ agent[a].seq \in 0 .. Len(ledger)
  BY LedgerShape DEF DeltaInv, DeltaTypeOK

\* The guard refuses: the engine is as before the signal.
LEMMA RefuseKeeps ==
    ASSUME DeltaInv, NEW a \in Agents, Refuse(a)
    PROVE  DeltaInv'
  <1>1. PICK u \in Nat : u = Len(ledger) /\ u > 0
    BY FitsParts
  <1>2. /\ answer[a] = None /\ Guarding(a) /\ SameVersion(a)
        /\ UNCHANGED <<ledger, snapshot, answer, session, agent, tried, calls, faults>>
        /\ engine' = [engine EXCEPT ![a].ctx = emit[a].before] /\ emit' = [emit EXCEPT ![a].at = "answer"]
    BY DEF Refuse, Free
  <1>3. /\ engine[a].seq = u /\ emit[a].cause = u /\ u \in 2 .. u /\ IsSignal(ledger[u]) /\ engine[a].path = Path(u)
        /\ emit[a] \in Emissions /\ Anchored(a, emit[a].since)
        /\ ~engine[a].leaked => emit[a].before = Context(u)
    BY <1>1, <1>2, GuardedEngine
  <1>4. PICK en : en = [engine[a] EXCEPT !.ctx = emit[a].before]
    OBVIOUS
  <1>5. /\ en \in Engines /\ en.seq = u /\ en.path = Path(u) /\ en.ctx = emit[a].before
        /\ en.leaked = engine[a].leaked
    BY <1>3, <1>4, FitsParts DEF Engines, Emissions
  <1>6. PICK em : em = [emit[a] EXCEPT !.at = "answer"]
    OBVIOUS
  <1>7. em \in Emissions /\ em.at = "answer" /\ em.cause = u /\ em.since = emit[a].since
    BY <1>3, <1>6 DEF Emissions
  <1>8. /\ engine'[a] = en /\ emit'[a] = em
        /\ \A b \in Agents \ {a} : engine'[b] = engine[b] /\ emit'[b] = emit[b]
        /\ engine' \in [Agents -> Engines] /\ emit' \in [Agents -> Emissions \cup {None}]
    BY <1>2, <1>4, <1>5, <1>6, <1>7, Held
  <1>9. OnlyOwn(a)
    BY <1>2, <1>8 DEF OnlyOwn
  <1>10. OwnValues(a)
    BY <1>1, <1>2, <1>5, <1>8, Held DEF OwnValues
  <1>11. Counted
    BY <1>2, CountersStay
  <1>12. Grown /\ Len(ledger') = u
    BY <1>1, <1>2, QuietGrows, FitsParts
  <1>13. Context(u)' = Context(u) /\ Path(u)' = Path(u)
    BY <1>1, <1>12, OldRun
  <1>14. EngineIsRun(a)'
    <2>1. ~Merging(a)'
      BY <1>7, <1>8 DEF Merging, Guarding
    <2>2. ~engine'[a].leaked => engine'[a].ctx = Context(u)'
      BY <1>3, <1>5, <1>8, <1>13
    <2>3. engine'[a].path = Path(u)'
      BY <1>5, <1>8, <1>13
    <2> QED BY <1>12, <2>1, <2>2, <2>3 DEF EngineIsRun
  <1>15. EmissionFits(a)'
    <2>1. PICK s : s = emit[a].since
      OBVIOUS
    <2>2. IsCause(u)' /\ Anchored(a, s)'
      BY <1>1, <1>2, <1>3, <1>12, <2>1, AnchoredStays, CauseStays DEF IsCause
    <2>3. ~Guarding(a)'
      BY <1>7, <1>8 DEF Guarding
    <2> QED BY <1>3, <1>7, <1>8, <1>12, <2>1, <2>2, <2>3 DEF EmissionFits
  <1>16. ViewFits(a)'
    BY <1>2 DEF ViewFits
  <1>17. AgentFits(a)'
    BY <1>2, <1>12, AgentStays, FitsParts
  <1> QED BY <1>9, <1>10, <1>11, <1>14, <1>15, <1>16, <1>17, QuietStep DEF Fits

\* A submission ends without an answer, and its engine has not merged its fields for the run
\* as it is, or shows that it has leaked.
LEMMA EmissionEnds ==
    ASSUME DeltaInv, NEW a \in Agents, emit' = [emit EXCEPT ![a] = None], answer[a] = None,
           UNCHANGED <<ledger, snapshot, answer, session, agent, tried, calls>>,
           faults' = faults \/ (faults < MaxFaults /\ faults' = faults + 1),
           \/ engine' = engine /\ ~Merging(a)
           \/ engine' = [engine EXCEPT ![a].leaked = TRUE]
    PROVE  DeltaInv'
  <1>1. PICK u \in Nat : u = Len(ledger) /\ u > 0
    BY FitsParts
  <1>2. Grown /\ Len(ledger') = u
    BY <1>1, QuietGrows, FitsParts
  <1>3. Context(u)' = Context(u) /\ Path(u)' = Path(u)
    BY <1>1, <1>2, OldRun
  <1>4. emit'[a] = None /\ emit' \in [Agents -> Emissions \cup {None}] /\ \A b \in Agents \ {a} : emit'[b] = emit[b]
    BY Held
  <1>5. /\ engine' \in [Agents -> Engines] /\ engine'[a].seq = engine[a].seq /\ engine'[a].path = engine[a].path
        /\ engine'[a].ctx = engine[a].ctx /\ \A b \in Agents \ {a} : engine'[b] = engine[b]
        /\ ~engine'[a].leaked => engine' = engine /\ ~Merging(a)
    <2>1. CASE engine' = engine /\ ~Merging(a)
      BY <2>1, Held
    <2>2. CASE engine' = [engine EXCEPT ![a].leaked = TRUE]
      <3>1. engine[a] \in Engines
        BY FitsParts
      <3>2. [engine[a] EXCEPT !.leaked = TRUE] \in Engines
        BY <3>1 DEF Engines
      <3> QED BY <2>2, <3>1, <3>2, Held DEF Engines
    <2> QED BY <2>1, <2>2
  <1>6. OnlyOwn(a)
    BY <1>4, <1>5 DEF OnlyOwn
  <1>7. OwnValues(a)
    BY <1>4, <1>5, Held DEF OwnValues
  <1>8. Counted
    BY CountersStay
  <1>9. EngineIsRun(a)'
    <2>1. ~Merging(a)'
      BY <1>4 DEF Merging, Guarding
    <2>2. EngineIsRun(a)
      BY FitsParts
    <2>3. ASSUME engine[a].seq = u, ~engine'[a].leaked PROVE engine[a].ctx = Context(u)
      BY <1>1, <1>5, <2>2, <2>3 DEF EngineIsRun
    <2>4. engine[a].seq = u => engine[a].path = Path(u)
      BY <1>1, <2>2 DEF EngineIsRun
    <2> QED BY <1>2, <1>3, <1>5, <2>1, <2>3, <2>4 DEF EngineIsRun
  <1>10. EmissionFits(a)' /\ ViewFits(a)'
    BY <1>4 DEF EmissionFits, ViewFits
  <1>11. AgentFits(a)'
    BY <1>2, AgentStays, FitsParts
  <1> QED BY <1>6, <1>7, <1>8, <1>9, <1>10, <1>11, QuietStep DEF Fits

\* Another process wrote while the guard ran.
LEMMA ConflictKeeps ==
    ASSUME DeltaInv, NEW a \in Agents, Conflict(a)
    PROVE  DeltaInv'
  <1>1. ~Merging(a)
    BY DEF Conflict, SameVersion, Merging
  <1>2. /\ emit' = [emit EXCEPT ![a] = None] /\ answer[a] = None /\ engine' = engine /\ faults' = faults
        /\ UNCHANGED <<ledger, snapshot, answer, session, agent, tried, calls>>
    BY DEF Conflict, Free
  <1> QED BY <1>1, <1>2, EmissionEnds

\* The child skill cannot be found, and the fields stay in the engine.
LEMMA InvokeFailsKeeps ==
    ASSUME DeltaInv, NEW a \in Agents, InvokeFails(a)
    PROVE  DeltaInv'
  <1>1. /\ emit' = [emit EXCEPT ![a] = None] /\ answer[a] = None /\ engine' = [engine EXCEPT ![a].leaked = TRUE]
        /\ faults < MaxFaults /\ faults' = faults + 1
        /\ UNCHANGED <<ledger, snapshot, answer, session, agent, tried, calls>>
    BY DEF InvokeFails, Free
  <1> QED BY <1>1, EmissionEnds

-----------------------------------------------------------------------------
(* Views *)

\* A new view fits if its engine was the run.
LEMMA ViewStarts ==
    ASSUME IsLedger(ledger), UNCHANGED ledger, NEW a \in Agents, NEW v, answer'[a] = v, v # None, v.seq = None, ~v.ahead,
           IsCause(v.cause), NEW s, s = v.since, Anchored(a, s), agent'[a] = agent[a],
           ~v.torn => v.path = Path(Len(ledger)) /\ v.ctx = Context(Len(ledger))
    PROVE  ViewFits(a)'
  <1>1. PICK u \in Nat : u = Len(ledger) /\ u > 0
    BY LedgerShape
  <1>2. Grown /\ Len(ledger') = u
    BY <1>1, QuietGrows
  <1>3. Context(u)' = Context(u) /\ Path(u)' = Path(u)
    BY <1>1, <1>2, OldRun
  <1>4. PICK c : c = v.cause
    OBVIOUS
  <1>5. IsCause(c)' /\ Anchored(a, s)'
    BY <1>2, <1>4, AnchoredStays, CauseStays
  <1> QED BY <1>1, <1>2, <1>3, <1>4, <1>5 DEF ViewFits

\* The answer to a submission is an error, or a view of the run.
LEMMA AnswerKeeps ==
    ASSUME DeltaInv, NEW a \in Agents, Answer(a)
    PROVE  DeltaInv'
  <1>1. PICK u \in Nat : u = Len(ledger) /\ u > 0
    BY FitsParts
  <1>2. /\ answer[a] = None /\ emit[a] # None /\ emit[a].at = "answer"
        /\ emit' = [emit EXCEPT ![a] = None]
        /\ UNCHANGED <<ledger, snapshot, engine, session, agent, tried, calls, faults>>
    BY DEF Answer, Free
  <1>3. ~Guarding(a)
    BY <1>2 DEF Guarding
  <1>4. Grown /\ Len(ledger') = u
    BY <1>1, <1>2, QuietGrows, FitsParts
  <1>5. emit'[a] = None /\ emit' \in [Agents -> Emissions \cup {None}] /\ \A b \in Agents \ {a} : emit'[b] = emit[b]
    BY <1>2, Held
  <1>6. EngineIsRun(a)'
    <2>1. ~Merging(a) /\ ~Merging(a)'
      BY <1>3, <1>5 DEF Merging, Guarding
    <2>2. Context(u)' = Context(u) /\ Path(u)' = Path(u)
      BY <1>1, <1>4, OldRun
    <2> QED BY <1>1, <1>2, <1>4, <2>1, <2>2, FitsParts DEF EngineIsRun
  <1>7. EmissionFits(a)'
    BY <1>5 DEF EmissionFits
  <1>8. AgentFits(a)'
    BY <1>2, <1>4, AgentStays, FitsParts
  <1>9. Counted
    BY <1>2, CountersStay
  <1>10. CASE External(a) \/ a \notin Viewers
    <2>1. answer' = [answer EXCEPT ![a] = None]
      BY <1>10 DEF Answer
    <2>2. answer' \in [Agents -> Views \cup {None}] /\ answer'[a] = None /\ \A b \in Agents \ {a} : answer'[b] = answer[b]
      BY <2>1, Held
    <2>3. ViewFits(a)'
      BY <2>2 DEF ViewFits
    <2>4. OnlyOwn(a)
      BY <1>2, <1>5, <2>2 DEF OnlyOwn
    <2>5. OwnValues(a)
      BY <1>2, <1>5, <2>2, Held DEF OwnValues
    <2> QED BY <1>6, <1>7, <1>8, <1>9, <2>3, <2>4, <2>5, QuietStep DEF Fits
  <1>11. CASE ~(External(a) \/ a \notin Viewers)
    <2>1. PICK v : v = Viewed(engine[a], emit[a].since, emit[a].cause, TRUE, FALSE)
      OBVIOUS
    <2>2. answer' = [answer EXCEPT ![a] = v]
      BY <1>11, <2>1 DEF Answer
    <2>3. PICK s : s = emit[a].since
      OBVIOUS
    <2>4. PICK c : c = emit[a].cause
      OBVIOUS
    <2>5. s \in Nat \cup {None} /\ c \in Nat \cup {None} /\ IsCause(c) /\ Anchored(a, s)
      BY <1>2, <2>3, <2>4, FitsParts DEF EmissionFits, Emissions
    <2>6. engine[a] \in Engines
      BY FitsParts
    <2>7. /\ v \in Views /\ v # None /\ v.since = s /\ v.cause = c /\ v.seq = None
          /\ v.path = engine[a].path /\ v.ctx = engine[a].ctx /\ ~v.ahead /\ (~v.torn => ~engine[a].leaked)
      <3>1. engine[a].ctx \in [Keys -> Values] /\ engine[a].path \in States /\ engine[a].leaked \in BOOLEAN
        BY <2>6 DEF Engines
      <3>2. v \in Views
        BY <2>1, <2>3, <2>4, <2>5, <3>1 DEF Viewed, Views
      <3>3. /\ v.since = s /\ v.cause = c /\ v.seq = None /\ v.path = engine[a].path /\ v.ctx = engine[a].ctx
            /\ ~v.ahead
        BY <2>1, <2>3, <2>4 DEF Viewed
      <3>4. ~v.torn => ~engine[a].leaked
        BY <2>1, <3>1 DEF Viewed
      <3> QED BY <3>2, <3>3, <3>4, DeltaAssumption
    <2>8. engine[a].seq = u
      BY <1>1, <1>11, FitsParts DEF External
    <2>9. ~Merging(a)
      BY <1>3 DEF Merging
    <2>10. ~v.torn => v.path = Path(u) /\ v.ctx = Context(u)
      BY <1>1, <2>7, <2>8, <2>9, FitsParts DEF EngineIsRun
    <2>11. answer' \in [Agents -> Views \cup {None}] /\ answer'[a] = v /\ \A b \in Agents \ {a} : answer'[b] = answer[b]
      BY <2>2, <2>7, Held
    <2>12. ViewFits(a)'
      BY <1>1, <1>2, <2>5, <2>7, <2>10, <2>11, ViewStarts, FitsParts
    <2>13. OnlyOwn(a)
      BY <1>2, <1>5, <2>11 DEF OnlyOwn
    <2>14. OwnValues(a)
      BY <1>2, <1>5, <2>11, Held DEF OwnValues
    <2> QED BY <1>6, <1>7, <1>8, <1>9, <2>12, <2>13, <2>14, QuietStep DEF Fits
  <1> QED BY <1>10, <1>11

\* A view is taken from the engine as it is refreshed.
LEMMA ReadKeeps ==
    ASSUME DeltaInv, NEW a \in Agents, answer[a] = None, NEW s, Anchored(a, s), s \in Nat \cup {None}, NEW r \in BOOLEAN,
           Read(a, s, r)
    PROVE  DeltaInv'
  <1>1. PICK u \in Nat : u = Len(ledger) /\ u > 0
    BY FitsParts
  <1>2. PICK e : e = Refreshed(a)
    OBVIOUS
  <1>3. PICK g \in BOOLEAN : g <=> Guarding(a) /\ ~External(a)
    OBVIOUS
  <1>4. PICK v : v = Viewed(e, s, None, r, g)
    OBVIOUS
  <1>5. /\ Call(a) /\ engine' = [engine EXCEPT ![a] = e]
        /\ UNCHANGED <<ledger, snapshot, emit, session, agent, tried, faults>>
    BY <1>2 DEF Read
  <1>6. answer' = [answer EXCEPT ![a] = v]
    <2>1. g = (Guarding(a) /\ ~External(a))
      BY <1>3, Zenon DEF Guarding, External
    <2> QED BY <1>2, <1>4, <2>1, Zenon DEF Read
  <1>7. /\ e \in Engines /\ e.seq = u /\ e.path = Path(u) /\ (~e.leaked /\ ~g => e.ctx = Context(u))
        /\ ~External(a) => e = engine[a]
        /\ engine[a].seq <= u
    BY <1>1, <1>2, <1>3, RefreshedFits
  <1>8. /\ v \in Views /\ v # None /\ v.since = s /\ v.cause = None /\ v.seq = None
        /\ v.path = e.path /\ v.ctx = e.ctx /\ ~v.ahead /\ (~v.torn => ~g /\ ~e.leaked)
    <2>1. e.ctx \in [Keys -> Values] /\ e.path \in States /\ e.leaked \in BOOLEAN
      BY <1>7 DEF Engines
    <2>2. v \in Views
      BY <1>4, <2>1 DEF Viewed, Views
    <2>3. v.since = s /\ v.cause = None /\ v.seq = None /\ v.path = e.path /\ v.ctx = e.ctx /\ ~v.ahead
      BY <1>4 DEF Viewed
    <2>4. ~v.torn => ~g /\ ~e.leaked
      BY <1>4, <2>1 DEF Viewed
    <2> QED BY <2>2, <2>3, <2>4, DeltaAssumption
  <1>9. ~v.torn => v.path = Path(u) /\ v.ctx = Context(u)
    BY <1>7, <1>8
  <1>10. /\ engine'[a] = e /\ answer'[a] = v
         /\ \A b \in Agents \ {a} : engine'[b] = engine[b] /\ answer'[b] = answer[b]
         /\ engine' \in [Agents -> Engines] /\ answer' \in [Agents -> Views \cup {None}]
    BY <1>5, <1>6, <1>7, <1>8, Held
  <1>11. Grown /\ Len(ledger') = u
    BY <1>1, <1>5, QuietGrows, FitsParts
  <1>12. OnlyOwn(a)
    BY <1>5, <1>10 DEF OnlyOwn
  <1>13. OwnValues(a)
    BY <1>1, <1>5, <1>7, <1>10, Held DEF OwnValues
  <1>14. Counted
    <2>1. calls' \in [Agents -> Nat] /\ \A b \in Agents : calls'[b] <= MaxCalls[b]
      BY <1>5, CallShape, FitsParts
    <2> QED BY <1>5, <2>1, FitsParts DEF Counted, DeltaTypeOK
  <1>15. EngineIsRun(a)'
    <2>1. CASE ~External(a)
      <3>1. engine'[a] = engine[a] /\ emit'[a] = emit[a]
        BY <1>5, <1>7, <1>10, <2>1
      <3> QED BY <1>11, <3>1, EngineStays, FitsParts
    <2>2. CASE External(a)
      <3>1. ~g
        BY <1>3, <2>2
      <3>2. ~Merging(a)'
        <4>1. Guarding(a) => emit[a].cause <= engine[a].seq /\ emit[a].cause \in Nat
          BY FitsParts DEF EmissionFits, Guarding
        <4>2. engine[a].seq < u /\ engine[a].seq \in Nat
          BY <1>1, <2>2, FitsParts DEF External
        <4> QED BY <1>5, <1>11, <4>1, <4>2 DEF Merging, Guarding
      <3>3. Context(u)' = Context(u) /\ Path(u)' = Path(u)
        BY <1>1, <1>11, OldRun
      <3> QED BY <1>7, <1>10, <1>11, <3>1, <3>2, <3>3 DEF EngineIsRun
    <2> QED BY <2>1, <2>2
  <1>16. EmissionFits(a)'
    <2>1. Guarding(a) => emit[a].cause <= engine'[a].seq
      <3>1. Guarding(a) => emit[a].cause <= engine[a].seq /\ emit[a].cause \in Nat
        BY FitsParts DEF EmissionFits, Guarding
      <3>2. engine[a].seq \in Nat
        BY FitsParts
      <3> QED BY <1>7, <1>10, <3>1, <3>2
    <2> QED BY <1>5, <1>11, <2>1, EmissionStays, FitsParts
  <1>17. ViewFits(a)'
    <2>1. IsCause(v.cause)
      BY <1>8 DEF IsCause
    <2> QED BY <1>1, <1>5, <1>8, <1>9, <1>10, <2>1, ViewStarts, FitsParts
  <1>18. AgentFits(a)'
    BY <1>5, <1>11, AgentStays, FitsParts
  <1> QED BY <1>12, <1>13, <1>14, <1>15, <1>16, <1>17, <1>18, QuietStep DEF Fits

\* reactive_state takes a view.
LEMMA FetchKeeps ==
    ASSUME DeltaInv, NEW a \in Agents, Fetch(a)
    PROVE  DeltaInv'
  <1>1. answer[a] = None
    BY DEF Fetch, Free
  <1>2. PICK s \in {None} \cup (IF agent[a].seq > 0 THEN {agent[a].seq} ELSE {}) : Read(a, s, TRUE)
    BY DEF Fetch
  <1>3. s \in Anchors(a)
    BY DEF Anchors
  <1>4. Anchored(a, s) /\ s \in Nat \cup {None}
    BY <1>3, AnchorsFit
  <1> QED BY <1>1, <1>2, <1>4, ReadKeeps

\* A retry has the complete view.
LEMMA RetryKeeps ==
    ASSUME DeltaInv, NEW a \in Agents, Retry(a)
    PROVE  DeltaInv'
  <1>1. answer[a] = None /\ Read(a, None, FALSE)
    BY DEF Retry, Free
  <1>2. Anchored(a, None)
    BY DEF Anchored
  <1> QED BY <1>1, <1>2, ReadKeeps

\* A view gets the sequence of the ledger.
LEMMA StampKeeps ==
    ASSUME DeltaInv, NEW a \in Agents, Stamp(a)
    PROVE  DeltaInv'
  <1>1. PICK u \in Nat : u = Len(ledger) /\ u > 0
    BY FitsParts
  <1>2. PICK v : v = answer[a] /\ v # None /\ v.seq = None /\ v \in Views
    BY FitsParts DEF Stamp
  <1>3. PICK x : x = [v EXCEPT !.seq = u]
    OBVIOUS
  <1>4. /\ answer' = [answer EXCEPT ![a] = x]
        /\ UNCHANGED <<ledger, snapshot, engine, emit, session, agent, tried, calls, faults>>
    BY <1>1, <1>2, <1>3 DEF Stamp
  <1>5. /\ x \in Views /\ x.seq = u /\ x.cause = v.cause /\ x.since = v.since /\ x.path = v.path /\ x.ctx = v.ctx
        /\ x.torn = v.torn /\ x.ahead = v.ahead
    BY <1>2, <1>3 DEF Views
  <1>6. answer' \in [Agents -> Views \cup {None}] /\ answer'[a] = x /\ \A b \in Agents \ {a} : answer'[b] = answer[b]
    BY <1>4, <1>5, Held
  <1>7. Grown /\ Len(ledger') = u
    BY <1>1, <1>4, QuietGrows, FitsParts
  <1>8. OnlyOwn(a)
    BY <1>4, <1>6 DEF OnlyOwn
  <1>9. OwnValues(a)
    BY <1>4, <1>6, Held DEF OwnValues
  <1>10. Counted
    BY <1>4, CountersStay
  <1>11. EngineIsRun(a)'
    BY <1>4, <1>7, EngineStays, FitsParts
  <1>12. EmissionFits(a)'
    <2>1. Guarding(a) => emit[a].cause <= engine'[a].seq
      BY <1>4, FitsParts DEF EmissionFits, Guarding
    <2> QED BY <1>4, <1>7, <2>1, EmissionStays, FitsParts
  <1>13. ViewFits(a)'
    <2>1. PICK s : s = v.since
      OBVIOUS
    <2>2. PICK c : c = v.cause
      OBVIOUS
    <2>3. IsCause(c) /\ Anchored(a, s) /\ ~v.ahead /\ (~v.torn => v.path = Path(u) /\ v.ctx = Context(u))
      BY <1>1, <1>2, <2>1, <2>2, FitsParts DEF ViewFits
    <2>4. IsCause(c)' /\ Anchored(a, s)'
      BY <1>4, <1>7, <2>3, AnchoredStays, CauseStays
    <2>5. Context(u)' = Context(u) /\ Path(u)' = Path(u)
      BY <1>1, <1>7, OldRun
    <2>6. NotAfter(s, u) /\ NotAfter(session[a], u)
      BY <1>1, <2>3, FitsParts DEF NotAfter, Anchored
    <2>7. emit[a] # None => NotAfter(emit[a].since, u)
      <3>1. ASSUME emit[a] # None PROVE Anchored(a, emit[a].since)
        BY <3>1, FitsParts DEF EmissionFits
      <3> QED BY <1>1, <3>1 DEF NotAfter, Anchored
    <2>8. u \in 1 .. Len(ledger') /\ x.seq # None
      BY <1>1, <1>5, <1>7, DeltaAssumption
    <2> QED BY <1>4, <1>5, <1>6, <1>7, <2>1, <2>2, <2>3, <2>4, <2>5, <2>6, <2>7, <2>8 DEF ViewFits, NotAfter
  <1>14. AgentFits(a)'
    BY <1>4, <1>7, AgentStays, FitsParts
  <1> QED BY <1>8, <1>9, <1>10, <1>11, <1>12, <1>13, <1>14, QuietStep DEF Fits

-----------------------------------------------------------------------------
(* Delivery *)

\* A ledger that nobody writes says the same.
LEMMA SameRun ==
    ASSUME IsLedger(ledger), UNCHANGED ledger, NEW n \in 0 .. Len(ledger)
    PROVE  /\ Context(n)' = Context(n) /\ Path(n)' = Path(n)
           /\ \A k \in Keys : \A f, l : Writes(k, f, l)' = Writes(k, f, l)
  <1>1. Context(n)' = Context(n) /\ Path(n)' = Path(n)
    BY QuietGrows, OldRun
  <1>2. \A k \in Keys : \A f, l : Writes(k, f, l)' = Writes(k, f, l)
    BY DEF Writes, Transitions, PatchOf, Supplied, All
  <1> QED BY <1>1, <1>2

\* A delivered view: what its process noted of it, and what its agent makes of it.
DeliveredOf(a, v, n, h) ==
    /\ v = answer[a] /\ v # None /\ v.seq = n
    /\ ~v.torn => v.path = Path(n) /\ v.ctx = Context(n)
    /\ ~v.ahead => n = Len(ledger)
    /\ IsCause(v.cause) /\ Anchored(a, v.since) /\ NotAfter(v.since, n) /\ NotAfter(session[a], n)
    /\ emit[a] # None => NotAfter(emit[a].since, n)
    /\ agent' = [agent EXCEPT ![a] = h]
    /\ h.held = HeldAfter(a, v) /\ h.state = v.path /\ h.seq = n
    /\ h.doubtful = DoubtfulAfter(a, v)
    /\ h.torn <=> v.torn
    /\ v.remember => (h.sure <=> ~v.ahead) /\ session' = [session EXCEPT ![a] = Len(ledger)]
    /\ ~v.remember => (h.sure <=> agent[a].sure) /\ session' = session
    /\ answer' = [answer EXCEPT ![a] = None]
    /\ UNCHANGED <<ledger, snapshot, engine, emit, tried, calls, faults>>

\* A view that is delivered has its sequence.
LEMMA DeliverShape ==
    ASSUME DeltaInv, NEW a \in Agents, Deliver(a)
    PROVE  \E v \in Views, n \in 1 .. Len(ledger), h \in Holdings : DeliveredOf(a, v, n, h)
  <1>1. PICK v : v = answer[a] /\ v # None /\ v.seq # None /\ v \in Views
    BY FitsParts DEF Deliver, Sent
  <1>2. PICK n : n = v.seq
    OBVIOUS
  <1>3. /\ n \in 1 .. Len(ledger) /\ (~v.torn => v.path = Path(n) /\ v.ctx = Context(n))
        /\ ~v.ahead => n = Len(ledger)
        /\ IsCause(v.cause) /\ Anchored(a, v.since) /\ NotAfter(v.since, n) /\ NotAfter(session[a], n)
        /\ emit[a] # None => NotAfter(emit[a].since, n)
    BY <1>1, <1>2, FitsParts DEF ViewFits
  <1>4. PICK q \in BOOLEAN : q <=> IF v.remember THEN ~v.ahead ELSE agent[a].sure
    OBVIOUS
  <1>5. v.ahead \in BOOLEAN /\ v.torn \in BOOLEAN /\ v.remember \in BOOLEAN /\ agent[a].sure \in BOOLEAN
    BY <1>1, FitsParts DEF Views, Holdings
  <1>6. PICK h : h = [held |-> HeldAfter(a, v), state |-> v.path, seq |-> n, sure |-> q, torn |-> v.torn,
                      doubtful |-> DoubtfulAfter(a, v)]
    OBVIOUS
  <1>7. h \in Holdings
    <2>1. n \in Nat
      BY <1>3, FitsParts
    <2>2. HeldAfter(a, v) \in [Keys -> Values \cup {None}]
      <3>1. agent[a].held \in [Keys -> Values \cup {None}] /\ v.ctx \in [Keys -> Values]
        BY <1>1, FitsParts DEF Holdings, Views
      <3>2. \A k \in Keys : HeldAfter(a, v)[k] \in Values \cup {None}
        BY <3>1, HeldShape
      <3> QED BY <3>2 DEF HeldAfter
    <2>3. DoubtfulAfter(a, v) \in SUBSET Keys
      BY FitsParts DEF DoubtfulAfter, Holdings
    <2>4. v.path \in States
      BY <1>1 DEF Views
    <2> QED BY <1>5, <1>6, <2>1, <2>2, <2>3, <2>4 DEF Holdings
  <1>8. agent' = [agent EXCEPT ![a] = h]
    <2>1. q = IF v.remember THEN ~v.ahead ELSE agent[a].sure
      BY <1>4, <1>5
    <2> QED BY <1>1, <1>2, <1>6, <2>1, Held, Zenon DEF Deliver
  <1>9. /\ h.held = HeldAfter(a, v) /\ h.state = v.path /\ h.seq = n /\ h.doubtful = DoubtfulAfter(a, v)
        /\ h.torn <=> v.torn
        /\ h.sure <=> q
    BY <1>6
  <1>10. /\ answer' = [answer EXCEPT ![a] = None]
         /\ UNCHANGED <<ledger, snapshot, engine, emit, tried, calls, faults>>
         /\ v.remember => session' = [session EXCEPT ![a] = Len(ledger)]
         /\ ~v.remember => session' = session
    BY <1>1 DEF Deliver, Sent, Remember
  <1>11. DeliveredOf(a, v, n, h)
    BY <1>1, <1>2, <1>3, <1>4, <1>8, <1>9, <1>10 DEF DeliveredOf
  <1> QED BY <1>3, <1>7, <1>11, <1>1

\* What an agent holds of an earlier view still stands after the next one.
LEMMA DeliveredAnchors ==
    ASSUME DeltaInv, NEW a \in Agents, NEW v \in Views, NEW n \in 1 .. Len(ledger), NEW h \in Holdings,
           DeliveredOf(a, v, n, h), NEW s, Anchored(a, s), NotAfter(s, n)
    PROVE  Anchored(a, s)'
  <1>1. PICK u \in Nat : u = Len(ledger) /\ u > 0
    BY FitsParts
  <1>2. CASE s = None
    BY <1>2 DEF Anchored
  <1>3. CASE s # None
    <2>1. s \in 1 .. u /\ s <= n /\ HoldsSince(a, s)
      BY <1>1, <1>3 DEF Anchored, NotAfter
    <2>2. ledger' = ledger /\ agent'[a] = h /\ IsLedger(ledger)
      BY FitsParts, Held DEF DeliveredOf
    <2>3. Context(s)' = Context(s) /\ Path(s)' = Path(s) /\ \A k \in Keys : Writes(k, s + 1, u)' = Writes(k, s + 1, u)
      BY <1>1, <2>1, <2>2, SameRun
    <2>4. ASSUME NEW k \in Scope[Path(s)] \ h.doubtful, Writes(k, s + 1, u) = {} PROVE h.held[k] = Context(s)[k]
      <3>1. k \in Keys
        BY <1>1, <2>1, <2>2, RunTyped, DeltaAssumption
      <3>2. h.doubtful = DoubtfulAfter(a, v) /\ h.held = HeldAfter(a, v)
        BY DEF DeliveredOf
      <3>3. ~v.torn
        BY <3>1, <3>2 DEF DoubtfulAfter
      <3>4. CASE k \in Shown(v)
        <4>1. h.held[k] = v.ctx[k] /\ v.ctx = Context(n)
          BY <3>1, <3>2, <3>3, <3>4, HeldShape DEF DeliveredOf
        <4>2. Writes(k, s + 1, n) = {}
          BY <1>1, <2>1, <2>4 DEF Writes, Transitions
        <4>3. Context(n)[k] = Context(s)[k]
          BY <1>1, <2>1, <3>1, <4>2, Unwritten
        <4> QED BY <4>1, <4>3
      <3>5. CASE k \notin Shown(v)
        <4>1. h.held[k] = agent[a].held[k]
          BY <3>1, <3>2, <3>5, HeldShape
        <4>2. k \notin agent[a].doubtful
          BY <2>4, <3>2, <3>3, <3>5 DEF DoubtfulAfter
        <4> QED BY <1>1, <2>1, <2>4, <4>1, <4>2 DEF HoldsSince
      <3> QED BY <3>4, <3>5
    <2>5. HoldsSince(a, s)'
      <3>1. ASSUME NEW k \in Scope[Path(s)] \ h.doubtful PROVE k \in Keys
        BY <1>1, <2>1, <2>2, RunTyped, DeltaAssumption
      <3> QED BY <1>1, <2>2, <2>3, <2>4, <3>1 DEF HoldsSince
    <2> QED BY <1>1, <2>1, <2>2, <2>5 DEF Anchored
  <1> QED BY <1>2, <1>3

\* What an agent holds after a view that is not torn is the run at the view's sequence, where
\* it is not in doubt.
LEMMA DeliveredHeld ==
    ASSUME DeltaInv, NEW a \in Agents, NEW v \in Views, NEW n \in 1 .. Len(ledger), NEW h \in Holdings,
           DeliveredOf(a, v, n, h), NEW k \in Scope[Path(n)], k \notin h.doubtful
    PROVE  h.held[k] = Context(n)[k]
  <1>1. PICK u \in Nat : u = Len(ledger) /\ u > 0
    BY FitsParts
  <1>2. k \in Keys
    BY <1>1, FitsParts, RunTyped, DeltaAssumption
  <1>3. h.doubtful = DoubtfulAfter(a, v) /\ h.held = HeldAfter(a, v)
    BY DEF DeliveredOf
  <1>4. ~v.torn
    BY <1>2, <1>3 DEF DoubtfulAfter
  <1>5. v.path = Path(n) /\ v.ctx = Context(n)
    BY <1>4 DEF DeliveredOf
  <1>6. CASE k \in Shown(v)
    BY <1>2, <1>3, <1>5, <1>6, HeldShape
  <1>7. CASE k \notin Shown(v)
    <2>1. IsCause(v.cause) /\ Anchored(a, v.since) /\ NotAfter(v.since, n)
      BY DEF DeliveredOf
    <2>2. v.path \in States /\ (v.since = None \/ v.since \in 1 .. Len(ledger))
      BY <2>1 DEF Views, Anchored
    <2>3. PICK s : s = v.since
      OBVIOUS
    <2>4. s \in 1 .. n /\ k \in Scope[Path(s)] /\ Writes(k, s + 1, Len(ledger)) = {} /\ s # None
      BY <1>5, <1>7, <2>1, <2>2, <2>3, HiddenWasShown, FitsParts
    <2>5. h.held[k] = agent[a].held[k] /\ k \notin agent[a].doubtful
      BY <1>2, <1>3, <1>4, <1>7, HeldShape DEF DoubtfulAfter
    <2>6. agent[a].held[k] = Context(s)[k]
      BY <2>1, <2>3, <2>4, <2>5 DEF Anchored, HoldsSince
    <2>7. Writes(k, s + 1, n) = {}
      BY <1>1, <2>4 DEF Writes, Transitions
    <2>8. Context(n)[k] = Context(s)[k]
      BY <1>1, <1>2, <2>4, <2>7, Unwritten
    <2> QED BY <2>5, <2>6, <2>8
  <1> QED BY <1>6, <1>7

\* The view reaches its agent.
LEMMA DeliverKeeps ==
    ASSUME DeltaInv, NEW a \in Agents, Deliver(a)
    PROVE  DeltaInv'
  <1>1. PICK u \in Nat : u = Len(ledger) /\ u > 0
    BY FitsParts
  <1>2. PICK v \in Views, n \in 1 .. Len(ledger), h \in Holdings : DeliveredOf(a, v, n, h)
    BY DeliverShape
  <1>3. /\ agent' = [agent EXCEPT ![a] = h] /\ answer' = [answer EXCEPT ![a] = None]
        /\ UNCHANGED <<ledger, snapshot, engine, emit, tried, calls, faults>>
    BY <1>2 DEF DeliveredOf
  <1>4. /\ agent'[a] = h /\ answer'[a] = None
        /\ \A b \in Agents \ {a} : agent'[b] = agent[b] /\ answer'[b] = answer[b]
        /\ agent' \in [Agents -> Holdings] /\ answer' \in [Agents -> Views \cup {None}]
    BY <1>3, Held
  <1>5. /\ session' \in [Agents -> Nat \cup {None}] /\ (session'[a] # None => session'[a] \in 1 .. Len(ledger))
        /\ \A b \in Agents \ {a} : session'[b] = session[b]
        /\ v.remember => session'[a] = u
        /\ ~v.remember => session'[a] = session[a]
    <2>1. CASE v.remember
      <3>1. session' = [session EXCEPT ![a] = u]
        BY <1>1, <1>2, <2>1 DEF DeliveredOf
      <3> QED BY <1>1, <2>1, <3>1, Held
    <2>2. CASE ~v.remember
      <3>1. session' = session
        BY <1>2, <2>2 DEF DeliveredOf
      <3> QED BY <2>2, <3>1, Held
    <2> QED BY <2>1, <2>2
  <1>6. Grown /\ Len(ledger') = u
    BY <1>1, <1>3, QuietGrows, FitsParts
  <1>7. OnlyOwn(a)
    BY <1>3, <1>4, <1>5 DEF OnlyOwn
  <1>8. h.seq = n
    BY <1>2 DEF DeliveredOf
  <1>9. OwnValues(a)
    BY <1>1, <1>3, <1>4, <1>5, <1>8, Held DEF OwnValues
  <1>10. Counted
    BY <1>3, CountersStay
  <1>11. EngineIsRun(a)'
    BY <1>3, <1>6, EngineStays, FitsParts
  <1>12. EmissionFits(a)'
    <2>1. CASE emit[a] = None
      BY <1>3, <2>1 DEF EmissionFits
    <2>2. CASE emit[a] # None
      <3>1. PICK c : c = emit[a].cause
        OBVIOUS
      <3>2. PICK s : s = emit[a].since
        OBVIOUS
      <3>3. IsCause(c) /\ c \in 2 .. u /\ Anchored(a, s) /\ (Guarding(a) => c <= engine[a].seq)
        BY <1>1, <2>2, <3>1, <3>2, FitsParts DEF EmissionFits
      <3>4. NotAfter(s, n)
        BY <1>2, <2>2, <3>1, <3>2 DEF DeliveredOf
      <3>5. Anchored(a, s)' /\ IsCause(c)'
        BY <1>2, <1>6, <3>3, <3>4, DeliveredAnchors, CauseStays
      <3>6. Guarding(a)' <=> Guarding(a)
        BY <1>3 DEF Guarding
      <3> QED BY <1>3, <1>6, <2>2, <3>1, <3>2, <3>3, <3>5, <3>6 DEF EmissionFits
    <2> QED BY <2>1, <2>2
  <1>13. ViewFits(a)'
    BY <1>4 DEF ViewFits
  <1>14. AgentFits(a)'
    <2>1. Context(n)' = Context(n) /\ Path(n)' = Path(n)
      BY <1>1, <1>3, SameRun, FitsParts
    <2>2. h.torn => h.doubtful = Keys
      BY <1>2 DEF DeliveredOf, DoubtfulAfter
    <2>3. ~h.torn => h.state = Path(n)
      BY <1>2 DEF DeliveredOf
    <2>4. \A k \in Scope[Path(n)] \ h.doubtful : h.held[k] = Context(n)[k]
      BY <1>2, DeliveredHeld
    <2>5. PICK z : z = session'[a]
      OBVIOUS
    <2>6. ASSUME h.sure PROVE Anchored(a, z)'
      <3>1. CASE v.remember
        <4>1. n = u /\ z = u
          BY <1>1, <1>2, <1>5, <2>5, <2>6, <3>1 DEF DeliveredOf
        <4>2. HoldsSince(a, u)'
          BY <1>4, <2>1, <2>4, <4>1 DEF HoldsSince
        <4> QED BY <1>1, <1>6, <4>1, <4>2 DEF Anchored
      <3>2. CASE ~v.remember
        <4>1. PICK s : s = session[a]
          OBVIOUS
        <4>2. agent[a].sure /\ z = s /\ NotAfter(s, n)
          BY <1>2, <1>5, <2>5, <2>6, <3>2, <4>1 DEF DeliveredOf
        <4>3. Anchored(a, s)
          BY <4>1, <4>2, FitsParts DEF AgentFits
        <4>4. Anchored(a, s)'
          BY <1>2, <4>2, <4>3, DeliveredAnchors
        <4> QED BY <4>2, <4>4
      <3> QED BY <3>1, <3>2
    <2> QED BY <1>4, <1>8, <2>1, <2>2, <2>3, <2>4, <2>5, <2>6 DEF AgentFits
  <1> QED BY <1>7, <1>9, <1>10, <1>11, <1>12, <1>13, <1>14, QuietStep DEF Fits

\* What an agent holds of a view stands while nobody writes and the agent reads nothing.
LEMMA AnchoredSame ==
    ASSUME IsLedger(ledger), UNCHANGED ledger, NEW a, NEW s, Anchored(a, s), NEW h, agent'[a] = h,
           h.held = agent[a].held, h.doubtful = agent[a].doubtful
    PROVE  Anchored(a, s)'
  <1>1. CASE s = None
    BY <1>1 DEF Anchored
  <1>2. CASE s # None
    <2>1. s \in 1 .. Len(ledger) /\ HoldsSince(a, s)
      BY <1>2 DEF Anchored
    <2>2. PICK u \in Nat : u = Len(ledger) /\ u > 0
      BY LedgerShape
    <2>3. Context(s)' = Context(s) /\ Path(s)' = Path(s) /\ \A k \in Keys : Writes(k, s + 1, u)' = Writes(k, s + 1, u)
      BY <2>1, <2>2, SameRun
    <2>4. \A k \in Scope[Path(s)] : k \in Keys
      BY <2>1, <2>2, RunTyped, DeltaAssumption
    <2>5. HoldsSince(a, s)'
      BY <2>1, <2>2, <2>3, <2>4 DEF HoldsSince
    <2> QED BY <2>1, <2>5 DEF Anchored
  <1> QED BY <1>1, <1>2

\* What an agent holds of the run at its sequence stands too.
LEMMA AgentSame ==
    ASSUME DeltaInv, UNCHANGED ledger, NEW a \in Agents, NEW h, agent'[a] = h, h.held = agent[a].held,
           h.doubtful = agent[a].doubtful, h.torn <=> agent[a].torn, h.state = agent[a].state, h.seq = agent[a].seq,
           NEW z, z = session'[a], h.sure => Anchored(a, z)
    PROVE  AgentFits(a)'
  <1>1. PICK n : n = agent[a].seq
    OBVIOUS
  <1>2. n \in 0 .. Len(ledger) /\ AgentFits(a) /\ IsLedger(ledger)
    BY <1>1, FitsParts
  <1>3. Context(n)' = Context(n) /\ Path(n)' = Path(n)
    BY <1>2, SameRun
  <1>4. h.sure => Anchored(a, z)'
    BY <1>2, AnchoredSame
  <1>5. /\ h.torn => h.doubtful = Keys
        /\ n > 0 /\ ~h.torn => h.state = Path(n)
        /\ n > 0 => \A k \in Scope[Path(n)] \ h.doubtful : h.held[k] = Context(n)[k]
    BY <1>1, <1>2 DEF AgentFits
  <1> QED BY <1>1, <1>3, <1>4, <1>5 DEF AgentFits

\* The answer is lost.
LEMMA LoseKeeps ==
    ASSUME DeltaInv, NEW a \in Agents, Lose(a)
    PROVE  DeltaInv'
  <1>1. PICK u \in Nat : u = Len(ledger) /\ u > 0
    BY FitsParts
  <1>2. PICK h : h = [agent[a] EXCEPT !.sure = FALSE]
    OBVIOUS
  <1>3. agent[a] \in Holdings
    BY FitsParts
  <1>4. /\ h \in Holdings /\ ~h.sure /\ h.held = agent[a].held /\ h.doubtful = agent[a].doubtful
        /\ h.torn <=> agent[a].torn
        /\ h.state = agent[a].state /\ h.seq = agent[a].seq
    BY <1>2, <1>3 DEF Holdings
  <1>5. /\ agent' = [agent EXCEPT ![a] = h] /\ answer' = [answer EXCEPT ![a] = None]
        /\ faults < MaxFaults /\ faults' = faults + 1
        /\ UNCHANGED <<ledger, snapshot, engine, emit, tried, calls>>
    BY <1>2, Held DEF Lose, Sent
  <1>6. /\ agent'[a] = h /\ answer'[a] = None
        /\ \A b \in Agents \ {a} : agent'[b] = agent[b] /\ answer'[b] = answer[b]
        /\ agent' \in [Agents -> Holdings] /\ answer' \in [Agents -> Views \cup {None}]
    BY <1>4, <1>5, Held
  <1>7. /\ session' \in [Agents -> Nat \cup {None}] /\ (session'[a] # None => session'[a] \in 1 .. Len(ledger))
        /\ \A b \in Agents \ {a} : session'[b] = session[b]
    <2>1. session' = [session EXCEPT ![a] = u] \/ session' = session
      BY <1>1 DEF Lose, Sent, Remember
    <2> QED BY <1>1, <2>1, Held
  <1>8. Grown /\ Len(ledger') = u
    BY <1>1, <1>5, QuietGrows, FitsParts
  <1>9. OnlyOwn(a)
    BY <1>5, <1>6, <1>7 DEF OnlyOwn
  <1>10. OwnValues(a)
    BY <1>1, <1>4, <1>5, <1>6, <1>7, Held DEF OwnValues
  <1>11. Counted
    BY <1>5, CountersStay
  <1>12. EngineIsRun(a)'
    BY <1>5, <1>8, EngineStays, FitsParts
  <1>13. EmissionFits(a)'
    <2>1. CASE emit[a] = None
      BY <1>5, <2>1 DEF EmissionFits
    <2>2. CASE emit[a] # None
      <3>1. PICK c : c = emit[a].cause
        OBVIOUS
      <3>2. PICK s : s = emit[a].since
        OBVIOUS
      <3>3. IsCause(c) /\ c \in 2 .. u /\ Anchored(a, s) /\ (Guarding(a) => c <= engine[a].seq)
        BY <1>1, <2>2, <3>1, <3>2, FitsParts DEF EmissionFits
      <3>4. Anchored(a, s)' /\ IsCause(c)'
        BY <1>4, <1>5, <1>6, <1>8, <3>3, AnchoredSame, CauseStays, FitsParts
      <3>5. Guarding(a)' <=> Guarding(a)
        BY <1>5 DEF Guarding
      <3> QED BY <1>5, <1>8, <2>2, <3>1, <3>2, <3>3, <3>4, <3>5 DEF EmissionFits
    <2> QED BY <2>1, <2>2
  <1>14. ViewFits(a)'
    BY <1>6 DEF ViewFits
  <1>15. AgentFits(a)'
    BY <1>4, <1>5, <1>6, AgentSame
  <1> QED BY <1>9, <1>10, <1>11, <1>12, <1>13, <1>14, <1>15, QuietStep DEF Fits

\* The host compacts the transcript.
LEMMA CompactKeeps ==
    ASSUME DeltaInv, NEW a \in Agents, Compact(a)
    PROVE  DeltaInv'
  <1>1. PICK h : h = [agent[a] EXCEPT !.held = Unknown, !.seq = 0, !.sure = FALSE]
    OBVIOUS
  <1>2. agent[a] \in Holdings
    BY FitsParts
  <1>3. Unknown \in [Keys -> Values \cup {None}]
    BY DEF Unknown
  <1>4. h \in Holdings /\ ~h.sure /\ h.doubtful = agent[a].doubtful /\ (h.torn <=> agent[a].torn) /\ h.seq = 0
    BY <1>1, <1>2, <1>3 DEF Holdings
  <1>5. /\ agent' = [agent EXCEPT ![a] = h] /\ answer[a] = None /\ emit[a] = None
        /\ faults < MaxFaults /\ faults' = faults + 1
        /\ UNCHANGED <<ledger, snapshot, engine, emit, answer, session, tried, calls>>
    BY <1>1 DEF Compact, Free
  <1>6. /\ agent'[a] = h /\ agent' \in [Agents -> Holdings] /\ \A b \in Agents \ {a} : agent'[b] = agent[b]
    BY <1>4, <1>5, Held
  <1>7. Grown
    BY <1>5, QuietGrows, FitsParts
  <1>8. OnlyOwn(a)
    BY <1>5, <1>6 DEF OnlyOwn
  <1>9. OwnValues(a)
    BY <1>4, <1>5, <1>6, Held, FitsParts DEF OwnValues
  <1>10. Counted
    BY <1>5, CountersStay
  <1>11. EngineIsRun(a)'
    BY <1>5, <1>7, EngineStays, FitsParts
  <1>12. EmissionFits(a)' /\ ViewFits(a)'
    BY <1>5 DEF EmissionFits, ViewFits
  <1>13. AgentFits(a)'
    BY <1>4, <1>6, FitsParts DEF AgentFits
  <1> QED BY <1>8, <1>9, <1>10, <1>11, <1>12, <1>13, QuietStep DEF Fits

\* Another process serves the agent.
LEMMA RestartKeeps ==
    ASSUME DeltaInv, NEW a \in Agents, Restart(a)
    PROVE  DeltaInv'
  <1>1. PICK u \in Nat : u = Len(ledger) /\ u > 0
    BY FitsParts
  <1>2. PICK h : h = [agent[a] EXCEPT !.sure = TRUE]
    OBVIOUS
  <1>3. agent[a] \in Holdings
    BY FitsParts
  <1>4. /\ h \in Holdings /\ h.held = agent[a].held /\ h.doubtful = agent[a].doubtful /\ (h.torn <=> agent[a].torn)
        /\ h.state = agent[a].state /\ h.seq = agent[a].seq
    BY <1>2, <1>3 DEF Holdings
  <1>5. PICK e : e = Loaded
    OBVIOUS
  <1>6. e \in Engines /\ e.seq = u /\ At(e, u)
    BY <1>1, <1>5, LoadedIsRun, FitsParts
  <1>7. /\ agent' = [agent EXCEPT ![a] = h] /\ engine' = [engine EXCEPT ![a] = e]
        /\ emit' = [emit EXCEPT ![a] = None] /\ answer' = [answer EXCEPT ![a] = None]
        /\ session' = [session EXCEPT ![a] = None]
        /\ faults < MaxFaults /\ faults' = faults + 1
        /\ UNCHANGED <<ledger, snapshot, tried, calls>>
    BY <1>2, <1>5, Held DEF Restart
  <1>8. /\ agent'[a] = h /\ engine'[a] = e /\ emit'[a] = None /\ answer'[a] = None /\ session'[a] = None
        /\ agent' \in [Agents -> Holdings] /\ engine' \in [Agents -> Engines]
        /\ emit' \in [Agents -> Emissions \cup {None}] /\ answer' \in [Agents -> Views \cup {None}]
        /\ session' \in [Agents -> Nat \cup {None}]
    BY <1>4, <1>6, <1>7, Held
  <1>9. OnlyOwn(a)
    BY <1>7, Held DEF OnlyOwn
  <1>10. OwnValues(a)
    BY <1>1, <1>4, <1>6, <1>8, Held DEF OwnValues
  <1>11. Counted
    BY <1>7, CountersStay
  <1>12. EngineIsRun(a)'
    <2>1. ~Merging(a)'
      BY <1>8 DEF Merging, Guarding
    <2>2. Context(u)' = Context(u) /\ Path(u)' = Path(u) /\ Len(ledger') = u
      BY <1>1, <1>7, SameRun, FitsParts
    <2> QED BY <1>6, <1>8, <2>1, <2>2 DEF EngineIsRun, At
  <1>13. EmissionFits(a)' /\ ViewFits(a)'
    BY <1>8 DEF EmissionFits, ViewFits
  <1>14. AgentFits(a)'
    <2>1. Anchored(a, None)
      BY DEF Anchored
    <2> QED BY <1>4, <1>7, <1>8, <2>1, AgentSame
  <1> QED BY <1>9, <1>10, <1>11, <1>12, <1>13, <1>14, QuietStep DEF Fits

-----------------------------------------------------------------------------
(* The whole run *)

\* The run begins at its first event.
LEMMA RunStarts ==
    ASSUME IsLedger(ledger)
    PROVE  Context(1) = Default /\ Path(1) = Initial
  <1>1. Transitions(1, 1) = {}
    BY LedgerShape DEF Transitions
  <1>2. Path(1) = Initial
    BY <1>1 DEF Path, ReplayedPath
  <1>3. \A k \in Keys : Context(1)[k] = <<"default", 0>>
    BY <1>1 DEF Context, ReplayedContext, Writes, Default
  <1> QED BY <1>2, <1>3 DEF Context, ReplayedContext, Default

\* An agent that was shown the complete view at a position holds it.
LEMMA ViewOfShape ==
    ASSUME IsLedger(ledger), NEW n \in 0 .. Len(ledger), NEW h, h = ViewOf(n)
    PROVE  /\ h \in Holdings /\ h.seq = n /\ h.state = Path(n) /\ ~h.torn /\ h.doubtful = {}
           /\ n > 0 => \A k \in Scope[Path(n)] : h.held[k] = Context(n)[k]
  <1>1. Context(n) \in [Keys -> Values] /\ Path(n) \in States /\ n \in Nat
    BY RunTyped, LedgerShape
  <1>2. Scope[Path(n)] \subseteq Keys
    BY <1>1, DeltaAssumption
  <1>3. PICK g : g = [k \in Keys |-> IF n > 0 /\ k \in Scope[Path(n)] THEN Context(n)[k] ELSE None]
    OBVIOUS
  <1>4. g \in [Keys -> Values \cup {None}] /\ (n > 0 => \A k \in Scope[Path(n)] : g[k] = Context(n)[k])
    BY <1>1, <1>2, <1>3
  <1>5. h = [held |-> g, state |-> Path(n), seq |-> n, sure |-> TRUE, torn |-> FALSE, doubtful |-> {}]
    BY <1>3 DEF ViewOf, Path, Context
  <1>6. h \in Holdings
    BY <1>1, <1>4, <1>5 DEF Holdings
  <1> QED BY <1>4, <1>5, <1>6

\* The invariant holds initially.
LEMMA InitHolds == DeltaInit => DeltaInv
  <1> SUFFICES ASSUME DeltaInit PROVE DeltaInv
    OBVIOUS
  <1>1. PICK h \in Histories : ledger = h.events /\ agent = [a \in Agents |-> ViewOf(IF a \in Viewers THEN h.seen ELSE 0)]
    BY DEF DeltaInit
  <1>2. IsLedger(ledger) /\ h.seen \in 0 .. Len(ledger)
    BY <1>1, HistoriesAssumption
  <1>3. PICK u \in Nat : u = Len(ledger) /\ u > 0
    BY <1>2, LedgerShape
  <1>4. Default \in [Keys -> Values]
    BY DEF Default, Values
  <1>5. /\ snapshot \in Engines /\ snapshot.seq = 1 /\ snapshot.path = Initial /\ snapshot.ctx = Default
        /\ snapshot.seq \in 1 .. Len(ledger)
    BY <1>3, <1>4, DeltaAssumption DEF DeltaInit, Engines
  <1>6. SnapshotIsRun
    <2>1. At(snapshot, 1)
      BY <1>2, <1>5, RunStarts DEF At
    <2>2. ASSUME NEW n \in Transitions(2, u) PROVE ledger[n].cause > 1
      <3>1. n \in 1 .. Len(ledger) /\ ledger[n].type = "STATE_TRANSITION"
        BY <1>3 DEF Transitions
      <3> QED BY <1>2, <3>1, TransitionShape
    <2> QED BY <1>3, <1>5, <2>1, <2>2 DEF SnapshotIsRun
  <1>7. PICK e : e = Loaded
    OBVIOUS
  <1>8. e \in Engines /\ e.seq = u /\ At(e, u)
    BY <1>2, <1>3, <1>5, <1>6, <1>7, LoadedFits
  <1>9. /\ engine = [a \in Agents |-> e] /\ emit = [a \in Agents |-> None] /\ answer = [a \in Agents |-> None]
        /\ session = [a \in Agents |-> None] /\ tried = {} /\ calls = [a \in Agents |-> 0] /\ faults = 0
    BY <1>7 DEF DeltaInit
  <1>10. ASSUME NEW a \in Agents
         PROVE  /\ agent[a] \in Holdings /\ agent[a].seq \in 0 .. Len(ledger) /\ AgentFits(a)
    <2>1. PICK n \in 0 .. Len(ledger) : n = IF a \in Viewers THEN h.seen ELSE 0
      BY <1>2, <1>3
    <2>2. PICK g : g = ViewOf(n) /\ g = agent[a]
      BY <1>1, <2>1
    <2>3. /\ g \in Holdings /\ g.seq = n /\ g.state = Path(n) /\ ~g.torn /\ g.doubtful = {}
          /\ n > 0 => \A k \in Scope[Path(n)] : g.held[k] = Context(n)[k]
      <3>1. IsLedger(ledger) /\ n \in 0 .. Len(ledger) /\ g = ViewOf(n)
        BY <1>2, <2>2
      <3> QED BY <3>1, ViewOfShape
    <2>4. Anchored(a, session[a])
      BY <1>9 DEF Anchored
    <2> QED BY <2>2, <2>3, <2>4 DEF AgentFits
  <1>11. DeltaTypeOK
    <2>1. agent \in [Agents -> Holdings] /\ \A a \in Agents : agent[a].seq \in 0 .. Len(ledger)
      BY <1>1, <1>10
    <2>2. engine \in [Agents -> Engines] /\ \A a \in Agents : engine[a].seq \in 1 .. Len(ledger)
      BY <1>3, <1>8, <1>9
    <2> QED BY <1>5, <1>9, <2>1, <2>2, DeltaAssumption DEF DeltaTypeOK
  <1>12. ASSUME NEW a \in Agents PROVE EngineIsRun(a) /\ EmissionFits(a) /\ ViewFits(a)
    <2>1. engine[a] = e /\ emit[a] = None /\ answer[a] = None
      BY <1>9
    <2>2. EngineIsRun(a)
      BY <1>3, <1>8, <2>1 DEF EngineIsRun, At, Merging, Guarding
    <2> QED BY <2>1, <2>2 DEF EmissionFits, ViewFits
  <1> QED BY <1>2, <1>6, <1>10, <1>11, <1>12 DEF DeltaInv, Fits

\* Every step preserves it.
LEMMA StepHolds == DeltaInv /\ [DeltaNext]_deltaVars => DeltaInv'
  <1> SUFFICES ASSUME DeltaInv, [DeltaNext]_deltaVars PROVE DeltaInv'
    OBVIOUS
  <1>1. CASE DeltaNext
    <2>1. PICK a \in Agents :
              \/ Submit(a) \/ (\E to \in States : Accept(a, to)) \/ Refuse(a) \/ Conflict(a) \/ InvokeFails(a)
              \/ Answer(a) \/ Fetch(a) \/ Retry(a) \/ Stamp(a) \/ Deliver(a) \/ Lose(a)
              \/ Compact(a) \/ Restart(a)
      BY <1>1 DEF DeltaNext
    <2> QED BY <2>1, SubmitKeeps, AcceptKeeps, RefuseKeeps, ConflictKeeps, InvokeFailsKeeps, AnswerKeeps, FetchKeeps,
               RetryKeeps, StampKeeps, DeliverKeeps, LoseKeeps, CompactKeeps, RestartKeeps
  <1>2. CASE UNCHANGED deltaVars
    <2>1. /\ UNCHANGED <<ledger, snapshot, engine, emit, answer, session, agent>>
          /\ DeltaTypeOK /\ IsLedger(ledger) /\ SnapshotIsRun
      BY <1>2 DEF deltaVars, DeltaInv
    <2>2. DeltaTypeOK'
      BY <1>2, <2>1 DEF deltaVars, DeltaTypeOK
    <2>3. Grown /\ Len(ledger') = Len(ledger)
      BY <2>1, QuietGrows
    <2>4. SnapshotIsRun'
      BY <2>1, <2>3, SnapshotStays
    <2>5. ASSUME NEW a \in Agents PROVE Fits(a)'
      <3>1. EngineIsRun(a) /\ EmissionFits(a) /\ ViewFits(a) /\ AgentFits(a)
        BY FitsParts
      <3>2. EngineIsRun(a)' /\ AgentFits(a)'
        BY <2>1, <2>3, <3>1, EngineStays, AgentStays
      <3>3. EmissionFits(a)'
        <4>1. Guarding(a) => emit[a].cause <= engine'[a].seq
          BY <2>1, <3>1 DEF EmissionFits, Guarding
        <4> QED BY <2>1, <2>3, <3>1, <4>1, EmissionStays
      <3>4. ViewFits(a)'
        <4>1. LeftAlone(a)
          BY <2>1 DEF LeftAlone
        <4> QED BY <2>1, <2>3, <3>1, <4>1, ViewStays
      <3> QED BY <3>2, <3>3, <3>4 DEF Fits
    <2>6. IsLedger(ledger')
      BY <2>1
    <2> QED BY <2>2, <2>4, <2>5, <2>6 DEF DeltaInv
  <1> QED BY <1>1, <1>2

\* The engines, the views, the anchors and what the agents hold fit the ledger on every run.
THEOREM DeltaInvAlways == DeltaSpec => []DeltaInv
  BY InitHolds, StepHolds, PTL DEF DeltaSpec

\* Whatever is written, fetched, delivered, lost, retried, compacted and restarted in whatever
\* order, an agent that reads each view over the last one holds the committed value of every
\* key that its state shows, but for those no view has shown since a torn one.
THEOREM AgentHoldsItsViewAlways == DeltaSpec => []AgentHoldsItsView
  <1>1. DeltaInv => AgentHoldsItsView
    <2> SUFFICES ASSUME DeltaInv PROVE AgentHoldsItsView
      OBVIOUS
    <2>1. DeltaTypeOK
      BY DEF DeltaInv
    <2>2. ASSUME NEW a \in Agents, agent[a].seq > 0, ~agent[a].torn
          PROVE  /\ agent[a].state = Path(agent[a].seq)
                 /\ \A k \in Scope[agent[a].state] \ agent[a].doubtful : agent[a].held[k] = Context(agent[a].seq)[k]
      BY <2>2, FitsParts DEF AgentFits
    <2> QED BY <2>1, <2>2 DEF AgentHoldsItsView, Path, Context
  <1> QED BY <1>1, DeltaInvAlways, PTL
-----------------------------------------------------------------------------
(* The invariant *)

\* Events that were committed, and the lines of a segment.
Given == [id : 1..committed, seq : 1..committed]
Line == Given \cup {Frag, NewLine, Junk}

Lines(s) == {s[i] : i \in {j \in DOMAIN s : s[j].id > 0}}

Todo(p) == {todo[p][i] : i \in DOMAIN todo[p]}

\* A row the certificate of p would vouch for now: it is in a segment that p extends, or
\* beyond it.
Covered(p, e) ==
    \/ \E k \in DOMAIN base[p] : e \in Lines(base[p][k])
    \/ \E k \in DOMAIN files : \E i \in DOMAIN files[k] : i > Len(OldSegment(p, k)) /\ files[k][i] = e

Captured == {"extending", "repairing", "writing", "rewriting", "replacing", "pruning", "certifying"}

FilesTyped == DOMAIN files \subseteq Nat /\ IsFiniteSet(DOMAIN files) /\ files \in [DOMAIN files -> Seq(Line)]

CertTyped ==
    cert # Absent => cert.generation \in Nat /\ cert.seq \in Nat /\ cert.files \in [DOMAIN cert.files -> Seq(Line)]

SectionTyped(p) == base[p] \in [DOMAIN base[p] -> Seq(Line)] /\ todo[p] \in Seq(Given)

\* Every process has its place.
Shaped ==
    /\ DOMAIN pc = Procs /\ DOMAIN op = Procs /\ DOMAIN tries = Procs
    /\ DOMAIN boundary = Procs /\ DOMAIN base = Procs /\ DOMAIN todo = Procs

LedgerTyped ==
    /\ committed \in Nat /\ lastSeq \in 0..committed /\ generation \in Nat
    /\ rows \subseteq Given /\ \A e \in rows : e.seq <= lastSeq

MirrorTyped(p) ==
    /\ load \in Loads /\ p \in Procs /\ load.procs = {p} /\ Shaped
    /\ LedgerTyped /\ FilesTyped /\ CertTyped /\ SectionTyped(p)

\* The certificate of this ledger.
Certificate == cert # Absent /\ cert.generation = generation

CertificateHolds ==
    /\ cert # Absent => cert.generation <= generation
    /\ Certificate =>
        /\ cert.seq <= lastSeq
        /\ \A e \in rows : e.seq <= cert.seq => \E k \in DOMAIN cert.files : e \in Lines(cert.files[k])

\* An event does not follow an unterminated fragment.
FragmentsClosed == \A k \in DOMAIN files : \A i \in DOMAIN files[k] :
             i > 1 /\ files[k][i - 1] = Frag => files[k][i].id = 0

Extended(p) ==
    IF pc[p] \in {"extending", "writing", "certifying"}
    THEN /\ DOMAIN base[p] \subseteq DOMAIN files
         /\ \A k \in DOMAIN base[p] : Len(base[p][k]) <= Len(files[k])
    ELSE pc[p] # "release" => base[p] = NoSegments

AtBoundary(p) ==
    pc[p] \in Captured =>
        /\ boundary[p].generation = generation /\ boundary[p].seq \in 0..lastSeq
        /\ \A e \in rows : e.seq <= boundary[p].seq

Section(p) ==
    /\ pc[p] = "extending" => Certificate /\ base[p] = cert.files
    /\ pc[p] = "writing" => \A e \in rows : e \in Todo(p) \/ Covered(p, e)
    /\ pc[p] = "certifying" => \A e \in rows : Covered(p, e)
    /\ pc[p] = "replacing" => rows \subseteq Todo(p)
    /\ pc[p] = "pruning" => Active \in DOMAIN files /\ rows \subseteq Lines(files[Active])
    /\ pc[p] = "reinserting" => ~Certificate

MirrorAlone(p) ==
    MirrorTyped(p) /\ CertificateHolds /\ FragmentsClosed /\ Extended(p) /\ AtBoundary(p) /\ Section(p)

-----------------------------------------------------------------------------
(* One process and its lock *)

\* The lock file is the process's own, or a dead one's that says so; it is taken with a
\* try to spare.
Locking(p) ==
    /\ lock # Absent => /\ lock \in [by : {p, Dead}, written : BOOLEAN]
                        /\ IF pc[p] = "created" THEN lock.by = p ELSE lock.written
    /\ lock # Absent /\ pc[p] \in {"down", "idle", "clearing", "reinserting", "want", "blocked", "stealing"} => lock.by = Dead
    /\ pc[p] \in {"want", "blocked", "stealing"} => tries[p] \in Nat \ {0}
    /\ pc[p] = "want" /\ lock # Absent => tries[p] >= 2
    /\ pc[p] = "blocked" => tries[p] >= 2

\* An open looks at every byte.  An append does not, but of a clean mirror it need not.
Sure(p) == op[p] = "verify" \/ Clean

PrefixKept(p) == \A k \in DOMAIN base[p] : \A i \in DOMAIN base[p][k] : files[k][i] = base[p][k][i]

Queued == {"want", "created", "blocked", "stealing", "locked"}

Kept(p) ==
    /\ Sure(p) /\ pc[p] \in {"extending", "writing", "certifying"} => PrefixKept(p)
    /\ Sure(p) /\ pc[p] = "extending" => cert.files = files
    /\ Sure(p) /\ pc[p] \in {"release", "idle"} => rows \subseteq OnDisk
    /\ Clean /\ (pc[p] \in {"release", "idle"} \/ (op[p] = "mirror" /\ pc[p] \in Queued)) =>
           (cert # Absent => cert.files = files)

\* What is read of the mirror to be taken back, and what a certificate names.
Rereading(p) ==
    /\ pc[p] \in {"clearing", "reinserting"} => Todo(p) = OnDisk
    /\ pc[p] = "reinserting" => rows = {}
    /\ Certificate => \A e \in rows : \A k \in DOMAIN cert.files : e \in Lines(cert.files[k]) => e.seq <= cert.seq

\* A mirror that has segments but no active one lacks a row too, so the next repair makes it
\* one.
HasActive == rows \subseteq OnDisk /\ DOMAIN files # {} => Active \in DOMAIN files

\* An event is in the ledger, or is taken back by an open before it does anything else.
Survives(p) ==
    \A n \in (1..committed) \ cleared :
        /\ \/ \E e \in rows : e.id = n
           \/ rows = {} /\ Active \in DOMAIN files /\ \E e \in OnDisk : e.id = n
        /\ pc[p] \notin {"down", "clearing", "reinserting"} => \E e \in rows : e.id = n

WritesNew(p) ==
    /\ pc[p] = "clearing" => rows \subseteq OnDisk
    /\ pc[p] = "writing" => /\ Todo(p) \subseteq rows \ OnDisk
                            /\ \A i, j \in DOMAIN todo[p] : todo[p][i] = todo[p][j] => i = j

Saved(p) == Rereading(p) /\ (Clean => WritesNew(p) /\ HasActive /\ Survives(p))

\* Nobody else takes the store from a process that has it to itself, if no process dies
\* between creating the lock file and writing its name into it.
Undisturbed == "created" \notin load.crashAt /\ MaxAttempts >= 2
-----------------------------------------------------------------------------
(* Sorting *)

LEMMA BeforeIsTotal ==
    ASSUME NEW e, NEW f, NEW g, e \in Tokens, f \in Tokens, g \in Tokens
    PROVE  /\ ~Before(e, e)
           /\ e # f => Before(e, f) \/ Before(f, e)
           /\ Before(e, f) /\ Before(f, g) => Before(e, g)
  BY DEF Before, Tokens

\* The order of the ledger puts every event of a finite set at one place, and nothing else.
LEMMA SortedIs ==
    ASSUME NEW S, IsFiniteSet(S), S \subseteq Tokens
    PROVE  /\ SortBySeq(S) \in Seq(S)
           /\ {SortBySeq(S)[i] : i \in DOMAIN SortBySeq(S)} = S
           /\ \A i, j \in DOMAIN SortBySeq(S) : SortBySeq(S)[i] = SortBySeq(S)[j] => i = j
           /\ \A i, j \in DOMAIN SortBySeq(S) : i < j => Before(SortBySeq(S)[i], SortBySeq(S)[j])
  <1> DEFINE n == Cardinality(S)
             T(e) == {f \in S : Before(f, e)}
             rank == [e \in S |-> Cardinality(T(e))]
  <1>1. n \in Nat
    BY FS_CardinalityType
  <1>2. ASSUME NEW e \in S
        PROVE  T(e) \subseteq S \ {e} /\ IsFiniteSet(T(e)) /\ Cardinality(T(e)) \in 0..(n - 1)
    <2>1. T(e) \subseteq S \ {e}
      BY BeforeIsTotal
    <2>2. IsFiniteSet(S \ {e}) /\ Cardinality(S \ {e}) = n - 1
      BY FS_RemoveElement
    <2> HIDE DEF T
    <2>3. IsFiniteSet(T(e)) /\ Cardinality(T(e)) <= n - 1
      BY <2>1, <2>2, FS_Subset
    <2>4. Cardinality(T(e)) \in Nat
      BY <2>3, FS_CardinalityType
    <2> QED BY <1>1, <2>1, <2>3, <2>4
  <1>3. ASSUME NEW e \in S, NEW f \in S, Before(e, f)
        PROVE  Cardinality(T(e)) < Cardinality(T(f))
    <2>1. T(e) \subseteq T(f) /\ e \in T(f) /\ e \notin T(e)
      BY <1>3, BeforeIsTotal
    <2>2. IsFiniteSet(T(f)) /\ IsFiniteSet(T(e))
      BY <1>2
    <2> HIDE DEF T
    <2>3. T(e) # T(f) /\ T(e) \in SUBSET T(f)
      BY <2>1
    <2>4. Cardinality(T(e)) <= Cardinality(T(f)) /\ Cardinality(T(e)) # Cardinality(T(f))
      BY <2>2, <2>3, FS_Subset
    <2>5. Cardinality(T(e)) \in Nat /\ Cardinality(T(f)) \in Nat
      BY <2>2, FS_CardinalityType
    <2> QED BY <2>4, <2>5
  <1>4. ASSUME NEW e \in S, NEW f \in S, Cardinality(T(e)) = Cardinality(T(f))
        PROVE  e = f
    <2>1. Cardinality(T(e)) \in Nat /\ Cardinality(T(f)) \in Nat
      BY <1>2, FS_CardinalityType
    <2>2. ~Before(e, f) /\ ~Before(f, e)
      <3> HIDE DEF T
      <3> QED BY <1>3, <1>4, <2>1
    <2> QED BY <2>2, BeforeIsTotal
  <1> HIDE DEF T
  <1>5. rank \in Injection(S, 0..(n - 1))
    <2>1. rank \in [S -> 0..(n - 1)]
      BY <1>2
    <2>2. \A e, f \in S : rank[e] = rank[f] => e = f
      BY <1>4
    <2> HIDE DEF rank
    <2> QED BY <2>1, <2>2 DEF Injection, IsInjective
  <1>6. rank \in Surjection(S, 0..(n - 1))
    <2>1. IsFiniteSet(0..(n - 1)) /\ Cardinality(0..(n - 1)) = n
      <3>1. IsFiniteSet(0..(n - 1)) /\ Cardinality(0..(n - 1)) = IF 0 > n - 1 THEN 0 ELSE (n - 1) - 0 + 1
        BY <1>1, FS_Interval, 0 \in Int, n - 1 \in Int
      <3> HIDE DEF n
      <3> QED BY <1>1, <3>1
    <2> HIDE DEF rank
    <2> QED BY <1>5, <2>1, FS_Injection
  <1>7. ASSUME NEW i \in 1..n
        PROVE  SortBySeq(S)[i] \in S /\ Cardinality(T(SortBySeq(S)[i])) = i - 1
    <2>1. i - 1 \in 0..(n - 1)
      BY <1>1
    <2>2. PICK e \in S : rank[e] = i - 1
      <3> HIDE DEF rank
      <3> QED BY <1>6, <2>1 DEF Surjection
    <2>3. \E f \in S : Cardinality(T(f)) = i - 1
      BY <2>2
    <2>4. SortBySeq(S)[i] = CHOOSE f \in S : Cardinality(T(f)) = i - 1
      BY DEF SortBySeq, T
    <2> QED BY <2>3, <2>4
  <1>8. SortBySeq(S) = [i \in 1..n |-> SortBySeq(S)[i]] /\ DOMAIN SortBySeq(S) = 1..n
    <2> DEFINE Nth(i) == CHOOSE e \in S : Cardinality({f \in S : Before(f, e)}) = i - 1
    <2>1. SortBySeq(S) = [i \in 1..n |-> Nth(i)]
      BY DEF SortBySeq
    <2> HIDE DEF Nth, n
    <2> QED BY <2>1
  <1>9. SortBySeq(S) \in Seq(S)
    <2>1. SortBySeq(S) \in [1..n -> S]
      BY <1>7, <1>8
    <2> QED BY <1>1, <2>1, SeqDef
  <1>10. ASSUME NEW e \in S PROVE \E i \in 1..n : SortBySeq(S)[i] = e
    <2>1. Cardinality(T(e)) \in 0..(n - 1)
      BY <1>2
    <2> DEFINE i == Cardinality(T(e)) + 1
    <2>2. i \in 1..n /\ i - 1 = Cardinality(T(e))
      BY <1>1, <2>1
    <2>3. SortBySeq(S)[i] \in S /\ Cardinality(T(SortBySeq(S)[i])) = Cardinality(T(e))
      <3> HIDE DEF i
      <3> QED BY <1>7, <2>2
    <2>4. SortBySeq(S)[i] = e
      <3> HIDE DEF i
      <3> QED BY <1>4, <2>3
    <2> HIDE DEF i
    <2> QED BY <2>2, <2>4
  <1>11. ASSUME NEW i \in 1..n, NEW j \in 1..n, SortBySeq(S)[i] = SortBySeq(S)[j] PROVE i = j
    <2>1. i - 1 = j - 1
      BY <1>7, <1>11
    <2> QED BY <1>1, <2>1
  <1>12. ASSUME NEW i \in 1..n, NEW j \in 1..n, i < j PROVE Before(SortBySeq(S)[i], SortBySeq(S)[j])
    <2>1. /\ SortBySeq(S)[i] \in S /\ Cardinality(T(SortBySeq(S)[i])) = i - 1
          /\ SortBySeq(S)[j] \in S /\ Cardinality(T(SortBySeq(S)[j])) = j - 1
      BY <1>7, <1>12
    <2>2. ~Before(SortBySeq(S)[j], SortBySeq(S)[i])
      <3> HIDE DEF n
      <3> QED BY <1>1, <1>3, <1>12, <2>1
    <2>3. SortBySeq(S)[i] # SortBySeq(S)[j]
      BY <1>11, <1>12
    <2> QED BY <2>1, <2>2, <2>3, BeforeIsTotal
  <1> HIDE DEF n
  <1> QED BY <1>7, <1>8, <1>9, <1>10, <1>11, <1>12

\* So many events are finitely many.
LEMMA EventsFinite ==
    ASSUME NEW c \in Nat, NEW S, S \subseteq [id : 1..c, seq : 1..c]
    PROVE  IsFiniteSet(S)
  <1> DEFINE G == [id : 1..c, seq : 1..c]
             f == [e \in G |-> <<e.id, e.seq>>]
  <1>1. IsFiniteSet(1..c)
    BY FS_Interval, 1 \in Int, c \in Int
  <1>2. IsFiniteSet((1..c) \X (1..c))
    BY <1>1, FS_Product
  <1>3. f \in Injection(G, (1..c) \X (1..c))
    <2>1. f \in [G -> (1..c) \X (1..c)]
      OBVIOUS
    <2>2. \A a, b \in G : f[a] = f[b] => a = b
      OBVIOUS
    <2> HIDE DEF f, G
    <2> QED BY <2>1, <2>2 DEF Injection, IsInjective
  <1>4. IsFiniteSet(G)
    <2> HIDE DEF f, G
    <2> QED BY <1>2, <1>3, FS_Injection
  <1> QED BY <1>4, FS_Subset

LEMMA TodoIs ==
    ASSUME committed \in Nat, NEW S, S \subseteq Given
    PROVE  /\ IsFiniteSet(S) /\ SortBySeq(S) \in Seq(S) /\ SortBySeq(S) \in Seq(Given)
           /\ {SortBySeq(S)[i] : i \in DOMAIN SortBySeq(S)} = S
           /\ \A i, j \in DOMAIN SortBySeq(S) : SortBySeq(S)[i] = SortBySeq(S)[j] => i = j
           /\ \A i, j \in DOMAIN SortBySeq(S) : i < j => Before(SortBySeq(S)[i], SortBySeq(S)[j])
  <1>1. IsFiniteSet(S)
    BY EventsFinite DEF Given
  <1>2. S \subseteq Tokens
    BY DEF Given, Tokens
  <1> QED BY <1>1, <1>2, SortedIs
-----------------------------------------------------------------------------
(* Reading and writing segments *)

\* What is said of a line: an event has an id, and nothing else has.
LEMMA LineIs ==
    ASSUME committed \in Nat, NEW l \in Line
    PROVE  /\ l.id \in Nat /\ l.seq \in Nat
           /\ l.id > 0 <=> l \in Given
  BY DEF Line, Given, Frag, NewLine, Junk

\* What is read of segments whose fragments are closed.
LEMMA ReadIs ==
    ASSUME NEW L, NEW G, NEW f, f \in [DOMAIN f -> Seq(L)],
           \A l \in L : l.id \in Nat /\ (l.id > 0 <=> l \in G),
           \A k \in DOMAIN f : \A i \in DOMAIN f[k] : i > 1 /\ f[k][i - 1] = Frag => f[k][i].id = 0
    PROVE  \A e : e \in UNION {EventsIn(f[k]) : k \in DOMAIN f}
                    <=> e \in G /\ \E k \in DOMAIN f : \E i \in DOMAIN f[k] : f[k][i] = e
  <1>1. ASSUME NEW k \in DOMAIN f
        PROVE  Readable(f[k]) = {i \in DOMAIN f[k] : f[k][i] \in G}
    <2>1. f[k] \in Seq(L)
      OBVIOUS
    <2>2. ASSUME NEW i \in DOMAIN f[k]
          PROVE  /\ f[k][i].id > 0 <=> f[k][i] \in G
                 /\ f[k][i].id > 0 /\ i > 1 => f[k][i - 1] # Frag
      <3>1. f[k][i] \in L
        BY <2>1
      <3>2. f[k][i].id > 0 => f[k][i].id # 0
        BY <3>1
      <3> QED BY <3>1, <3>2
    <2> QED BY <2>2 DEF Readable
  <1> QED BY <1>1 DEF EventsIn

\* The mirror holds committed events, and every event of a segment is read.
LEMMA OnDiskIs ==
    ASSUME committed \in Nat, FilesTyped, FragmentsClosed
    PROVE  /\ OnDisk \subseteq Given
           /\ \A e : e \in OnDisk <=> e \in Given /\ \E k \in DOMAIN files : \E i \in DOMAIN files[k] : files[k][i] = e
  <1>1. \A l \in Line : l.id \in Nat /\ (l.id > 0 <=> l \in Given)
    BY LineIs
  <1> QED BY <1>1, ReadIs DEF OnDisk, FilesTyped, FragmentsClosed

\* The same of the mirror a step leaves.
LEMMA OnDiskNextIs ==
    ASSUME committed \in Nat, committed' = committed, FilesTyped', FragmentsClosed'
    PROVE  \A e : e \in OnDisk' <=> e \in Given /\ \E k \in DOMAIN files' : \E i \in DOMAIN files'[k] : files'[k][i] = e
  <1>1. \A l \in Line : l.id \in Nat /\ (l.id > 0 <=> l \in Given)
    BY LineIs
  <1>2. Line' = Line
    BY DEF Line, Given
  <1>3. files' \in [DOMAIN files' -> Seq(Line)]
    BY <1>2 DEF FilesTyped
  <1>4. \A k \in DOMAIN files' : \A i \in DOMAIN files'[k] : i > 1 /\ files'[k][i - 1] = Frag => files'[k][i].id = 0
    BY DEF FragmentsClosed
  <1> QED BY <1>1, <1>3, <1>4, ReadIs DEF OnDisk

LEMMA TopIs ==
    ASSUME LedgerTyped
    PROVE  TopSeq \in 0..lastSeq /\ \A e \in rows : e.seq <= TopSeq
  <1>1. CASE rows = {}
    BY <1>1 DEF TopSeq, LedgerTyped
  <1>2. CASE rows # {}
    <2>1. Seqs(rows) \subseteq 0..lastSeq /\ Seqs(rows) # {} /\ lastSeq \in Nat
      BY <1>2 DEF Seqs, LedgerTyped, Given
    <2>2. Max(Seqs(rows)) \in Seqs(rows) /\ \A y \in Seqs(rows) : y <= Max(Seqs(rows))
      BY <2>1, MaxFacts
    <2>3. TopSeq = Max(Seqs(rows)) /\ \A e \in rows : e.seq \in Seqs(rows)
      BY <1>2 DEF TopSeq, Seqs
    <2> QED BY <2>1, <2>2, <2>3
  <1> QED BY <1>1, <1>2

\* Nothing is taken away from a segment.
Grows ==
    /\ DOMAIN files \subseteq DOMAIN files'
    /\ \A k \in DOMAIN files : /\ Len(files[k]) <= Len(files'[k])
                               /\ \A i \in DOMAIN files[k] : i \in DOMAIN files'[k] /\ files'[k][i] = files[k][i]

\* A line is added at the end of the active segment.
LEMMA LineAdded ==
    ASSUME committed \in Nat, FilesTyped, FragmentsClosed, NEW l \in Line, WithLine(l), committed' = committed,
           ~EndsWithFrag \/ l.id = 0
    PROVE  /\ FilesTyped' /\ FragmentsClosed' /\ Grows
           /\ DOMAIN files' = DOMAIN files \cup {Active}
           /\ \A k \in DOMAIN files : k # Active => files'[k] = files[k]
           /\ Active \in DOMAIN files => Len(files'[Active]) = Len(files[Active]) + 1
           /\ Active \notin DOMAIN files => Len(files'[Active]) = 1
           /\ files'[Active][Len(files'[Active])] = l
           /\ Len(files'[Active]) \in DOMAIN files'[Active]
           /\ \A k \in DOMAIN files' : \A i \in DOMAIN files'[k] :
                 files'[k][i] = l \/ (k \in DOMAIN files /\ i \in DOMAIN files[k] /\ files'[k][i] = files[k][i])
  <1> DEFINE old == IF Active \in DOMAIN files THEN files[Active] ELSE <<>>
             new == Append(old, l)
  <1>1. old \in Seq(Line)
    BY DEF FilesTyped
  <1>2. /\ new \in Seq(Line) /\ Len(new) = Len(old) + 1 /\ new[Len(old) + 1] = l
        /\ \A i \in 1..Len(old) : new[i] = old[i]
        /\ DOMAIN new = 1..(Len(old) + 1) /\ DOMAIN old = 1..Len(old) /\ Len(old) \in Nat
    <2> HIDE DEF old
    <2> QED BY <1>1
  <1>3. /\ files' = [k \in DOMAIN files \cup {Active} |-> IF k # Active THEN files[k] ELSE new]
        /\ DOMAIN files' = DOMAIN files \cup {Active}
        /\ files'[Active] = new
        /\ \A k \in DOMAIN files : k # Active => files'[k] = files[k]
    <2> HIDE DEF new
    <2>1. files' = [k \in DOMAIN files \cup {Active} |-> IF k # Active THEN files[k] ELSE new]
      BY DEF WithLine, new
    <2> QED BY <2>1
  <1>4. Active \in DOMAIN files => old = files[Active]
    OBVIOUS
  <1>5. Active \notin DOMAIN files => Len(old) = 0
    OBVIOUS
  <1>6. Len(old) > 0 /\ old[Len(old)] = Frag => l.id = 0
    <2>1. CASE Active \in DOMAIN files /\ Len(old) > 0 /\ old[Len(old)] = Frag
      <3>1. files[Active] # <<>>
        BY <2>1, <1>4
      <3> QED BY <2>1, <3>1 DEF EndsWithFrag
    <2> QED BY <2>1, <1>5
  <1> HIDE DEF old, new
  <1>7. FilesTyped'
    <2>1. Active \in Nat
      BY DEF Active
    <2>2. Line' = Line
      BY DEF Line, Given
    <2>3. IsFiniteSet(DOMAIN files \cup {Active})
      BY FS_AddElement DEF FilesTyped
    <2>4. files' \in [DOMAIN files' -> Seq(Line)]
      BY <1>2, <1>3 DEF FilesTyped
    <2> QED BY <1>3, <2>1, <2>2, <2>3, <2>4 DEF FilesTyped
  <1>8. ASSUME NEW k \in DOMAIN files', NEW i \in DOMAIN files'[k], i > 1, files'[k][i - 1] = Frag
        PROVE  files'[k][i].id = 0
    <2>1. CASE k # Active
      BY <2>1, <1>3, <1>8 DEF FragmentsClosed
    <2>2. CASE k = Active /\ i = Len(old) + 1
      <3>1. Len(old) > 0 /\ old[Len(old)] = Frag
        BY <2>2, <1>2, <1>3, <1>8
      <3> QED BY <2>2, <3>1, <1>2, <1>3, <1>6
    <2>3. CASE k = Active /\ i # Len(old) + 1
      <3>1. i \in 1..Len(old) /\ i - 1 \in 1..Len(old) /\ Active \in DOMAIN files
        BY <2>3, <1>2, <1>3, <1>5, <1>8
      <3> QED BY <2>3, <3>1, <1>2, <1>3, <1>4, <1>8 DEF FragmentsClosed
    <2> QED BY <2>1, <2>2, <2>3
  <1>9. Grows
    <2>1. ASSUME NEW k \in DOMAIN files, k # Active
          PROVE  Len(files[k]) <= Len(files'[k])
      <3>1. Len(files[k]) \in Nat
        BY DEF FilesTyped
      <3> QED BY <2>1, <3>1, <1>3
    <2> QED BY <2>1, <1>2, <1>3, <1>4 DEF Grows
  <1>10. ASSUME NEW k \in DOMAIN files', NEW i \in DOMAIN files'[k]
         PROVE  files'[k][i] = l \/ (k \in DOMAIN files /\ i \in DOMAIN files[k] /\ files'[k][i] = files[k][i])
    <2>1. CASE k # Active
      BY <2>1, <1>3
    <2>2. CASE k = Active
      BY <2>2, <1>2, <1>3, <1>4, <1>5
    <2> QED BY <2>1, <2>2
  <1>11. FragmentsClosed'
    BY <1>8 DEF FragmentsClosed
  <1>12. /\ Active \in DOMAIN files => Len(files'[Active]) = Len(files[Active]) + 1
         /\ Active \notin DOMAIN files => Len(files'[Active]) = 1
         /\ files'[Active][Len(files'[Active])] = l
         /\ Len(files'[Active]) \in DOMAIN files'[Active]
    BY <1>2, <1>3, <1>4, <1>5
  <1> QED BY <1>3, <1>7, <1>9, <1>10, <1>11, <1>12

\* What an extended certificate says of a segment.
LEMMA DigestIs ==
    ASSUME NEW S, NEW s \in Seq(S), NEW old \in Seq(S), Extends(s, old)
    PROVE  /\ Digest(s, old) \in Seq(S) /\ Len(Digest(s, old)) = Len(s) /\ Len(old) <= Len(s)
           /\ \A i \in 1..Len(old) : Digest(s, old)[i] = old[i]
           /\ \A i \in 1..Len(s) : i > Len(old) => Digest(s, old)[i] = s[i]
  <1>1. Len(s) >= Len(old) /\ Len(s) \in Nat /\ Len(old) \in Nat
    BY DEF Extends
  <1>2. CASE Len(s) = Len(old)
    BY <1>1, <1>2 DEF Digest
  <1>3. CASE Len(s) # Len(old)
    <2> DEFINE c == Completed(old)
    <2>1. c \in 0..Len(old)
      <3>1. ChunkLines \in Nat /\ ChunkLines > 0
        BY MirrorAssumption
      <3>2. \A n \in Nat, m \in Nat : m > 0 => (n \div m) * m \in 0..n
        <4>1. ASSUME NEW n \in Nat, NEW m \in Nat, m > 0 PROVE (n \div m) * m \in 0..n
          <5>1. n = m * (n \div m) + (n % m) /\ n % m \in 0..(m - 1) /\ n \div m \in Nat
            BY <4>1
          <5>2. (n \div m) * m = m * (n \div m)
            BY <5>1
          <5>3. m * (n \div m) \in Nat
            BY <5>1
          <5> QED BY <5>1, <5>2, <5>3
        <4> QED BY <4>1
      <3> QED BY <1>1, <3>1, <3>2 DEF Completed
    <2>2. \A i \in (c + 1)..Len(old) : s[i] = old[i]
      BY <1>1, <1>3 DEF Extends
    <2> HIDE DEF c
    <2> DEFINE a == SubSeq(old, 1, c)
               b == SubSeq(s, c + 1, Len(s))
    <2>3. a \in Seq(S) /\ Len(a) = c /\ \A i \in 1..c : a[i] = old[i]
      BY <2>1, <1>1, SubSeqProperties
    <2>4. b \in Seq(S) /\ Len(b) = Len(s) - c /\ \A i \in 1..(Len(s) - c) : b[i] = s[c + i]
      <3>1. c + 1 \in 1..Len(s) + 1 /\ Len(s) \in 0..Len(s)
        BY <2>1, <1>1
      <3>2. b = [i \in 1..(Len(s) - c) |-> s[c + i]]
        BY <3>1, <2>1, <1>1
      <3>3. Len(s) - c \in Nat /\ \A i \in 1..(Len(s) - c) : c + i \in 1..Len(s)
        BY <2>1, <1>1
      <3>4. b \in [1..(Len(s) - c) -> S]
        <4> HIDE DEF b
        <4> QED BY <3>2, <3>3
      <3> HIDE DEF b
      <3> QED BY <3>2, <3>3, <3>4, SeqDef
    <2>5. Digest(s, old) = a \o b
      BY <1>3 DEF Digest, c
    <2> HIDE DEF a, b
    <2>6. /\ Digest(s, old) \in Seq(S) /\ Len(Digest(s, old)) = Len(s)
          /\ \A i \in 1..Len(s) : Digest(s, old)[i] = IF i <= c THEN a[i] ELSE b[i - c]
      <3>1. /\ a \o b \in Seq(S) /\ Len(a \o b) = Len(a) + Len(b)
            /\ \A i \in 1..(Len(a) + Len(b)) : (a \o b)[i] = IF i <= Len(a) THEN a[i] ELSE b[i - Len(a)]
        BY <2>3, <2>4, ConcatProperties
      <3>2. Len(a) + Len(b) = Len(s)
        BY <2>1, <2>3, <2>4, <1>1
      <3> QED BY <3>1, <3>2, <2>3, <2>5
    <2>7. \A i \in 1..Len(s) : i > c => b[i - c] = s[i]
      <3>1. ASSUME NEW i \in 1..Len(s), i > c PROVE b[i - c] = s[i]
        <4>1. i - c \in 1..(Len(s) - c) /\ c + (i - c) = i
          BY <2>1, <1>1, <3>1
        <4> QED BY <4>1, <2>4
      <3> QED BY <3>1
    <2>8. \A i \in 1..Len(old) : Digest(s, old)[i] = old[i]
      <3>1. ASSUME NEW i \in 1..Len(old) PROVE Digest(s, old)[i] = old[i]
        <4>1. i \in 1..Len(s)
          BY <1>1, <3>1
        <4>2. CASE i <= c
          <5>1. i \in 1..c
            BY <2>1, <3>1, <4>2, <1>1
          <5> QED BY <2>3, <2>6, <4>1, <4>2, <5>1
        <4>3. CASE ~(i <= c)
          <5>1. i \in (c + 1)..Len(old) /\ i > c
            BY <2>1, <3>1, <4>3, <1>1
          <5>2. Digest(s, old)[i] = b[i - c]
            BY <2>6, <4>1, <4>3
          <5> QED BY <2>2, <2>7, <4>1, <5>1, <5>2
        <4> QED BY <4>2, <4>3
      <3> QED BY <3>1
    <2>9. \A i \in 1..Len(s) : i > Len(old) => Digest(s, old)[i] = s[i]
      <3>1. ASSUME NEW i \in 1..Len(s), i > Len(old) PROVE Digest(s, old)[i] = s[i]
        <4>1. i > c /\ ~(i <= c)
          BY <2>1, <3>1, <1>1
        <4>2. Digest(s, old)[i] = b[i - c]
          BY <2>6, <3>1, <4>1
        <4> QED BY <2>7, <3>1, <4>1, <4>2
      <3> QED BY <3>1
    <2> QED BY <1>1, <2>6, <2>8, <2>9
  <1> QED BY <1>2, <1>3
-----------------------------------------------------------------------------
(* Steps of the only process *)

\* A process that holds no captured boundary answers for nothing but its certificate.
LEMMA Leaves ==
    ASSUME NEW p, MirrorAlone(p), UNCHANGED <<load, rows, generation, lastSeq, committed>>,
           FilesTyped', FragmentsClosed', CertTyped', CertificateHolds', Shaped', SectionTyped(p)',
           pc'[p] \notin Captured, pc'[p] # "reinserting", pc'[p] # "release" => base'[p] = NoSegments
    PROVE  MirrorAlone(p)'
  <1>1. LedgerTyped' /\ MirrorTyped(p)'
    BY DEF MirrorAlone, MirrorTyped, LedgerTyped, Given
  <1>2. Extended(p)' /\ AtBoundary(p)' /\ Section(p)'
    BY DEF Extended, AtBoundary, Section, Captured
  <1> QED BY <1>1, <1>2 DEF MirrorAlone

\* The ledger, the mirror and the certificate as they were.
LEMMA Same ==
    ASSUME NEW p, MirrorAlone(p), UNCHANGED <<rows, generation, lastSeq, committed, files, cert>>
    PROVE  /\ FilesTyped' /\ FragmentsClosed' /\ CertTyped' /\ CertificateHolds'
           /\ Line' = Line /\ Given' = Given /\ LedgerTyped'
           /\ OnDisk' = OnDisk /\ TopSeq' = TopSeq
  <1>1. Line' = Line /\ Given' = Given /\ LedgerTyped'
    BY DEF Line, Given, MirrorAlone, MirrorTyped, LedgerTyped
  <1>2. FilesTyped' /\ FragmentsClosed' /\ CertTyped' /\ CertificateHolds'
    BY <1>1 DEF MirrorAlone, MirrorTyped, FilesTyped, FragmentsClosed, CertTyped, CertificateHolds, Certificate
  <1>3. OnDisk' = OnDisk /\ TopSeq' = TopSeq
    BY DEF OnDisk, TopSeq
  <1> QED BY <1>1, <1>2, <1>3

LEMMA NoSegmentsIs == NoSegments \in [DOMAIN NoSegments -> Seq(Line)] /\ DOMAIN NoSegments = {}
  BY DEF NoSegments

LEMMA LockStepMirror ==
    ASSUME NEW p, MirrorAlone(p), LockStep(p)
    PROVE  MirrorAlone(p)'
  <1>1. p \in Procs /\ Shaped /\ SectionTyped(p)
    BY DEF MirrorAlone, MirrorTyped
  <1>2. /\ UNCHANGED <<load, rows, generation, lastSeq, committed, files, cert>>
        /\ todo'[p] = todo[p]
        /\ base'[p] \in {base[p], NoSegments}
        /\ Shaped'
        /\ pc'[p] \notin Captured /\ pc'[p] # "reinserting" /\ pc'[p] # "release"
        /\ base'[p] = NoSegments
    <2>1. pc[p] \notin {"extending", "writing", "certifying", "release"} => base[p] = NoSegments
      BY DEF MirrorAlone, Extended
    <2>2. CASE Create(p)
      BY <1>1, <2>1, <2>2 DEF Create, Goto, store, disk, section, Shaped, Captured
    <2>3. CASE WriteOwner(p)
      BY <1>1, <2>1, <2>3 DEF WriteOwner, Goto, store, disk, section, Shaped, Captured
    <2>4. CASE Blocked(p)
      BY <1>1, <2>1, <2>4 DEF Blocked, Goto, store, disk, section, Shaped, Captured
    <2>5. CASE ReadOwner(p)
      BY <1>1, <2>1, <2>5 DEF ReadOwner, Goto, store, disk, section, Shaped, Captured
    <2>6. CASE Steal(p)
      BY <1>1, <2>1, <2>6 DEF Steal, Goto, store, disk, section, Shaped, Captured
    <2>7. CASE GiveUp(p)
      BY <1>1, <2>1, <2>7 DEF GiveUp, Goto, store, disk, section, Shaped, Captured
    <2>8. CASE Release(p)
      BY <1>1, <2>8 DEF Release, Goto, store, disk, Shaped, Captured
    <2> QED BY <2>2, <2>3, <2>4, <2>5, <2>6, <2>7, <2>8 DEF LockStep
  <1>3. SectionTyped(p)'
    BY <1>1, <1>2, Same, NoSegmentsIs DEF SectionTyped
  <1> QED BY <1>2, <1>3, Same, Leaves

\* In a section the ledger stands still.
Still(p) ==
    /\ UNCHANGED <<load, rows, generation, lastSeq, committed, cert>>
    /\ p \in Procs /\ Shaped'

LEMMA StepsStand ==
    ASSUME NEW p, MirrorAlone(p),
           \/ Capture(p) \/ Extend(p) \/ Repair(p) \/ CloseFragment(p) \/ Rotate(p) \/ WriteLine(p)
           \/ Written(p) \/ Rewrite(p) \/ Replace(p) \/ Prune(p) \/ CannotCertify(p) \/ Crash(p) \/ WriteFails(p)
    PROVE  Still(p)
  <1>1. p \in Procs /\ Shaped
    BY DEF MirrorAlone, MirrorTyped
  <1>2. CASE Capture(p)
    BY <1>1, <1>2 DEF Capture, Still, Goto, store, disk, Shaped
  <1>3. CASE Extend(p)
    BY <1>1, <1>3 DEF Extend, Still, Goto, store, disk, Shaped
  <1>4. CASE Repair(p)
    BY <1>1, <1>4 DEF Repair, Still, Goto, store, disk, Shaped
  <1>5. CASE CloseFragment(p)
    BY <1>1, <1>5 DEF CloseFragment, Still, section, store, disk, Shaped
  <1>6. CASE Rotate(p)
    BY <1>1, <1>6 DEF Rotate, Still, store, disk, Shaped
  <1>7. CASE WriteLine(p)
    BY <1>1, <1>7 DEF WriteLine, Still, store, disk, Shaped
  <1>8. CASE Written(p)
    BY <1>1, <1>8 DEF Written, Still, Goto, section, store, disk, Shaped
  <1>9. CASE Rewrite(p)
    BY <1>1, <1>9 DEF Rewrite, Still, Goto, store, disk, Shaped
  <1>10. CASE Replace(p)
    BY <1>1, <1>10 DEF Replace, Still, Goto, store, disk, Shaped
  <1>11. CASE Prune(p)
    BY <1>1, <1>11 DEF Prune, Still, Goto, section, store, disk, Shaped
  <1>12. CASE CannotCertify(p)
    BY <1>1, <1>12 DEF CannotCertify, Still, Goto, section, store, disk, Shaped
  <1>13. CASE Crash(p)
    BY <1>1, <1>13 DEF Crash, Still, Goto, store, Shaped
  <1>14. CASE WriteFails(p)
    BY <1>1, <1>14 DEF WriteFails, Still, Goto, store, Shaped
  <1> QED BY <1>2, <1>3, <1>4, <1>5, <1>6, <1>7, <1>8, <1>9, <1>10, <1>11, <1>12, <1>13, <1>14

\* What stands does so whatever the mirror becomes.
LEMMA StandingLedger ==
    ASSUME NEW p, MirrorAlone(p), Still(p)
    PROVE  /\ LedgerTyped' /\ CertTyped' /\ CertificateHolds' /\ Line' = Line /\ Given' = Given
           /\ load \in Loads /\ load' = load /\ load.procs = {p}
           /\ (Certificate' <=> Certificate)
           /\ TopSeq' = TopSeq
  <1>1. Line' = Line /\ Given' = Given /\ LedgerTyped'
    BY DEF Line, Given, MirrorAlone, MirrorTyped, LedgerTyped, Still
  <1>2. CertTyped' /\ CertificateHolds' /\ (Certificate' <=> Certificate) /\ TopSeq' = TopSeq
    BY <1>1 DEF MirrorAlone, MirrorTyped, CertTyped, CertificateHolds, Certificate, Still, TopSeq
  <1> QED BY <1>1, <1>2 DEF MirrorAlone, MirrorTyped, Still

\* The invariant after a step of the section, from what the step can disturb.
LEMMA SectionStands ==
    ASSUME NEW p, MirrorAlone(p), Still(p),
           FilesTyped', FragmentsClosed', SectionTyped(p)', Extended(p)', AtBoundary(p)', Section(p)'
    PROVE  MirrorAlone(p)'
  BY StandingLedger DEF MirrorAlone, MirrorTyped, Still

\* A boundary once captured is the boundary to the end.
LEMMA SameBoundary ==
    ASSUME NEW p, MirrorAlone(p), Still(p), pc[p] \in Captured, boundary' = boundary
    PROVE  AtBoundary(p)' /\ \A e \in rows : e.seq <= boundary[p].seq
  BY DEF MirrorAlone, AtBoundary, Still

LEMMA TrustedIs ==
    ASSUME NEW p, MirrorAlone(p), Trusted(p)
    PROVE  /\ Certificate /\ cert.files \in [DOMAIN cert.files -> Seq(Line)]
           /\ DOMAIN cert.files = DOMAIN files
           /\ \A k \in DOMAIN files : Len(files[k]) = Len(cert.files[k])
           /\ op[p] = "verify" => Verified
  BY DEF Trusted, Verified, InventoryMatches, Certificate, MirrorAlone, MirrorTyped, CertTyped

LEMMA CaptureMirror ==
    ASSUME NEW p, MirrorAlone(p), Capture(p)
    PROVE  MirrorAlone(p)'
  <1>1. Still(p) /\ Shaped /\ SectionTyped(p) /\ base[p] = NoSegments
    BY StepsStand DEF MirrorAlone, MirrorTyped, Extended, Capture
  <1>2. UNCHANGED <<rows, generation, lastSeq, committed, files, cert, op, todo>>
    BY DEF Capture, store, disk
  <1>3. FilesTyped' /\ FragmentsClosed'
    BY <1>2, Same
  <1>4. AtBoundary(p)'
    <2>1. boundary'[p] = [generation |-> generation, seq |-> TopSeq]
      BY <1>1 DEF Capture, Boundary, Shaped, Still
    <2>2. TopSeq \in 0..lastSeq /\ \A e \in rows : e.seq <= TopSeq
      BY TopIs DEF MirrorAlone, MirrorTyped
    <2> QED BY <1>2, <2>1, <2>2 DEF AtBoundary
  <1>5. CASE pc'[p] = "extending"
    <2>1. Trusted(p) /\ base'[p] = cert.files
      BY <1>1, <1>5 DEF Capture, Goto, Shaped, Still
    <2>2. SectionTyped(p)'
      BY <1>1, <1>2, <2>1, TrustedIs, StandingLedger DEF SectionTyped
    <2>3. Extended(p)'
      <3>1. ASSUME NEW k \in DOMAIN files PROVE Len(cert.files[k]) <= Len(files[k])
        <4>1. Len(files[k]) = Len(cert.files[k]) /\ Len(files[k]) \in Nat
          BY <2>1, TrustedIs DEF MirrorAlone, MirrorTyped, FilesTyped
        <4> QED BY <4>1
      <3> QED BY <1>2, <1>5, <2>1, <3>1, TrustedIs DEF Extended
    <2>4. Section(p)'
      BY <1>1, <1>2, <1>5, <2>1, TrustedIs, StandingLedger DEF Section
    <2> QED BY <1>1, <1>3, <1>4, <2>2, <2>3, <2>4, SectionStands
  <1>6. CASE pc'[p] # "extending"
    <2>1. base'[p] = NoSegments /\ pc'[p] \in {"rewriting", "repairing", "release"}
      BY <1>1, <1>6 DEF Capture, Goto, Shaped, Still
    <2>2. SectionTyped(p)' /\ Extended(p)' /\ Section(p)'
      BY <1>1, <1>2, <2>1, NoSegmentsIs, StandingLedger DEF SectionTyped, Extended, Section
    <2> QED BY <1>1, <1>3, <1>4, <2>2, SectionStands
  <1> QED BY <1>5, <1>6

LEMMA ExtendMirror ==
    ASSUME NEW p, MirrorAlone(p), Extend(p)
    PROVE  MirrorAlone(p)'
  <1> DEFINE S == {e \in rows : e.seq > cert.seq /\ e.seq <= boundary[p].seq}
  <1>1. Still(p) /\ Shaped /\ SectionTyped(p) /\ Extended(p) /\ pc[p] = "extending"
    BY StepsStand DEF MirrorAlone, MirrorTyped, Extend
  <1>2. UNCHANGED <<rows, generation, lastSeq, committed, files, cert, base, boundary>>
    BY DEF Extend, store, disk
  <1>3. todo'[p] = SortBySeq(S) /\ pc'[p] = "writing"
    BY <1>1 DEF Extend, Goto, Shaped, Still
  <1>4. S \subseteq Given /\ committed \in Nat
    BY DEF MirrorAlone, MirrorTyped, LedgerTyped
  <1> HIDE DEF S
  <1>5. SectionTyped(p)' /\ Extended(p)'
    BY <1>1, <1>2, <1>3, <1>4, TodoIs, StandingLedger DEF SectionTyped, Extended
  <1>6. Section(p)'
    <2>1. ASSUME NEW e \in rows PROVE (e \in Todo(p) \/ Covered(p, e))'
      <3>1. e.seq \in Nat /\ cert.seq \in Nat /\ e.seq <= boundary[p].seq
        BY <1>1 DEF MirrorAlone, MirrorTyped, LedgerTyped, Given, CertTyped, Section, Certificate, AtBoundary, Captured
      <3>2. CASE e.seq > cert.seq
        <4>1. Todo(p)' = S
          BY <1>3, <1>4, TodoIs DEF Todo
        <4>2. e \in S
          BY <3>1, <3>2 DEF S
        <4> QED BY <4>1, <4>2
      <3>3. CASE e.seq <= cert.seq
        <4>1. PICK k \in DOMAIN cert.files : e \in Lines(cert.files[k])
          BY <1>1, <3>3 DEF MirrorAlone, Section, CertificateHolds
        <4> QED BY <1>1, <1>2, <4>1 DEF MirrorAlone, Section, Covered
      <3> QED BY <3>1, <3>2, <3>3
    <2> QED BY <1>2, <1>3, <2>1 DEF Section
  <1>7. AtBoundary(p)'
    BY <1>1, <1>2, SameBoundary DEF Captured
  <1> QED BY <1>1, <1>2, <1>5, <1>6, <1>7, Same, SectionStands

\* Without a certificate to extend every line of the mirror counts.
LEMMA CoveredAfresh ==
    ASSUME NEW p, base[p] = NoSegments, FilesTyped
    PROVE  \A e : Covered(p, e) <=> \E k \in DOMAIN files : \E i \in DOMAIN files[k] : files[k][i] = e
  <1>1. ASSUME NEW k \in DOMAIN files, NEW i \in DOMAIN files[k] PROVE i > Len(OldSegment(p, k))
    BY NoSegmentsIs DEF OldSegment, FilesTyped
  <1> QED BY <1>1, NoSegmentsIs DEF Covered

LEMMA RepairMirror ==
    ASSUME NEW p, MirrorAlone(p), Repair(p)
    PROVE  MirrorAlone(p)'
  <1>1. Still(p) /\ Shaped /\ SectionTyped(p) /\ pc[p] = "repairing" /\ base[p] = NoSegments
    BY StepsStand DEF MirrorAlone, MirrorTyped, Repair, Extended
  <1>2. UNCHANGED <<rows, generation, lastSeq, committed, files, cert, base, boundary>>
    BY DEF Repair, store, disk
  <1>3. Missing(p) \subseteq Given /\ committed \in Nat /\ FilesTyped /\ FragmentsClosed
    BY DEF MirrorAlone, MirrorTyped, LedgerTyped, Missing
  <1>4. AtBoundary(p)' /\ \A e \in rows : e.seq <= boundary[p].seq
    BY <1>1, <1>2, SameBoundary DEF Captured
  <1>5. CASE HasGap(p)
    <2>1. todo' = todo /\ pc'[p] = "rewriting"
      BY <1>1, <1>5 DEF Repair, Goto, Shaped, Still
    <2>2. SectionTyped(p)' /\ Extended(p)' /\ Section(p)'
      BY <1>1, <1>2, <2>1, StandingLedger DEF SectionTyped, Extended, Section
    <2> QED BY <1>1, <1>2, <1>4, <2>2, Same, SectionStands
  <1>6. CASE ~HasGap(p)
    <2>1. todo'[p] = SortBySeq(Missing(p)) /\ pc'[p] = "writing"
      BY <1>1, <1>6 DEF Repair, Goto, Shaped, Still
    <2>2. SectionTyped(p)' /\ Extended(p)'
      <3>1. todo'[p] \in Seq(Given)
        BY <1>3, <2>1, TodoIs
      <3>2. base'[p] = base[p] /\ Line' = Line /\ Given' = Given
        BY <1>1, <1>2, StandingLedger
      <3>3. SectionTyped(p)'
        BY <1>1, <3>1, <3>2 DEF SectionTyped
      <3>4. Extended(p)'
        BY <1>1, <3>2, NoSegmentsIs DEF Extended
      <3> QED BY <3>3, <3>4
    <2>3. Section(p)'
      <3>1. ASSUME NEW e \in rows PROVE (e \in Todo(p) \/ Covered(p, e))'
        <4>1. CASE e \in OnDisk
          <5>1. \E k \in DOMAIN files : \E i \in DOMAIN files[k] : files[k][i] = e
            BY <1>3, <4>1, OnDiskIs
          <5>2. Covered(p, e)
            BY <1>1, <1>3, <5>1, CoveredAfresh
          <5>3. Covered(p, e)'
            BY <1>2, <5>2 DEF Covered, OldSegment
          <5> QED BY <5>3
        <4>2. CASE e \notin OnDisk
          <5>1. e \in Missing(p)
            BY <1>4, <4>2 DEF Missing
          <5> QED BY <1>3, <2>1, <5>1, TodoIs DEF Todo
        <4> QED BY <4>1, <4>2
      <3> QED BY <1>2, <2>1, <3>1 DEF Section
    <2> QED BY <1>1, <1>2, <1>4, <2>2, <2>3, Same, SectionStands
  <1> QED BY <1>5, <1>6
\* What a longer mirror still covers and extends.
LEMMA GrowsCovers ==
    ASSUME NEW p, MirrorAlone(p), FilesTyped', Grows, base' = base, pc' = pc
    PROVE  /\ Extended(p)'
           /\ \A e : Covered(p, e) => Covered(p, e)'
  <1>1. \A k : OldSegment(p, k)' = OldSegment(p, k)
    BY DEF OldSegment
  <1>2. \A e : Covered(p, e) => Covered(p, e)'
    <2>1. ASSUME NEW e, NEW k \in DOMAIN files, NEW i \in DOMAIN files[k], i > Len(OldSegment(p, k)), files[k][i] = e
          PROVE  Covered(p, e)'
      <3>1. k \in DOMAIN files' /\ i \in DOMAIN files'[k] /\ files'[k][i] = e
        BY <2>1 DEF Grows
      <3> QED BY <1>1, <2>1, <3>1 DEF Covered
    <2> QED BY <2>1 DEF Covered
  <1>3. Extended(p)'
    <2>1. ASSUME pc[p] \in {"extending", "writing", "certifying"}, NEW k \in DOMAIN base[p]
          PROVE  Len(base[p][k]) <= Len(files'[k])
      <3>1. /\ k \in DOMAIN files /\ k \in DOMAIN files' /\ Len(base[p][k]) <= Len(files[k])
            /\ Len(files[k]) <= Len(files'[k])
        BY <2>1 DEF MirrorAlone, Extended, Grows
      <3>2. Len(base[p][k]) \in Nat /\ Len(files[k]) \in Nat /\ Len(files'[k]) \in Nat
        BY <2>1, <3>1 DEF MirrorAlone, MirrorTyped, SectionTyped, FilesTyped
      <3> QED BY <3>1, <3>2
    <2> QED BY <2>1 DEF MirrorAlone, Extended, Grows
  <1> QED BY <1>2, <1>3

LEMMA FragmentClosed ==
    ASSUME NEW p, CloseFragment(p)
    PROVE  WithLine(NewLine)
  <1>1. Active \in DOMAIN files
    BY DEF CloseFragment, EndsWithFrag
  <1>2. files' = [files EXCEPT ![Active] = Append(files[Active], NewLine)]
    BY DEF CloseFragment
  <1>3. files' = [k \in DOMAIN files \cup {Active} |-> IF k # Active THEN files[k] ELSE Append(files[Active], NewLine)]
    BY <1>1, <1>2
  <1> QED BY <1>1, <1>3 DEF WithLine

LEMMA CloseFragmentMirror ==
    ASSUME NEW p, MirrorAlone(p), CloseFragment(p)
    PROVE  MirrorAlone(p)'
  <1>1. Still(p) /\ Shaped /\ SectionTyped(p) /\ pc[p] = "writing" /\ committed \in Nat /\ FilesTyped /\ FragmentsClosed
    BY StepsStand DEF MirrorAlone, MirrorTyped, CloseFragment, LedgerTyped
  <1>2. UNCHANGED <<rows, committed, cert, base, boundary, pc, todo>>
    BY DEF CloseFragment, store, section
  <1>3. NewLine \in Line /\ NewLine.id = 0
    BY DEF Line, NewLine
  <1>4. FilesTyped' /\ FragmentsClosed' /\ Grows
    BY <1>1, <1>2, <1>3, FragmentClosed, LineAdded
  <1>5. SectionTyped(p)'
    BY <1>1, <1>2, StandingLedger DEF SectionTyped
  <1>6. Section(p)'
    BY <1>1, <1>2, <1>4, GrowsCovers DEF MirrorAlone, Section, Todo
  <1> QED BY <1>1, <1>2, <1>4, <1>5, <1>6, GrowsCovers, SameBoundary, SectionStands DEF Captured

\* The first of some lines, and the others.
LEMMA HeadAndTail ==
    ASSUME NEW S, NEW s \in Seq(S), s # <<>>
    PROVE  /\ Head(s) \in S /\ Tail(s) \in Seq(S) /\ 1 \in DOMAIN s /\ Head(s) = s[1]
           /\ DOMAIN Tail(s) = 1..(Len(s) - 1) /\ Len(s) \in Nat \ {0} /\ DOMAIN s = 1..Len(s)
           /\ \A i \in DOMAIN Tail(s) : i + 1 \in DOMAIN s /\ Tail(s)[i] = s[i + 1]
           /\ \A i \in DOMAIN s : s[i] = Head(s) \/ (i - 1 \in DOMAIN Tail(s) /\ s[i] = Tail(s)[i - 1])
  <1>1. Len(s) \in Nat \ {0}
    OBVIOUS
  <1>2. Tail(s) \in Seq(S) /\ Len(Tail(s)) = Len(s) - 1 /\ \A i \in 1..(Len(s) - 1) : Tail(s)[i] = s[i + 1]
    OBVIOUS
  <1> QED BY <1>1, <1>2

\* An event of the given ones is no mark.
LEMMA GivenIs ==
    ASSUME NEW l \in Given
    PROVE  l \in Line /\ l.id > 0 /\ l # Frag /\ l # NewLine /\ l # Junk
  BY DEF Given, Line, Frag, NewLine, Junk

LEMMA WriteLineMirror ==
    ASSUME NEW p, MirrorAlone(p), WriteLine(p)
    PROVE  MirrorAlone(p)'
  <1>0. PICK l : l = Head(todo[p])
    OBVIOUS
  <1>1. Still(p) /\ Shaped /\ SectionTyped(p) /\ pc[p] = "writing" /\ committed \in Nat /\ FilesTyped /\ FragmentsClosed
    BY StepsStand DEF MirrorAlone, MirrorTyped, WriteLine, LedgerTyped
  <1>2. UNCHANGED <<rows, committed, cert, base, boundary, pc>> /\ todo'[p] = Tail(todo[p])
    BY <1>1 DEF WriteLine, store, Shaped, Still
  <1>3. todo[p] \in Seq(Given) /\ todo[p] # <<>> /\ WithLine(l) /\ ~EndsWithFrag
    BY <1>0 DEF MirrorAlone, MirrorTyped, SectionTyped, WriteLine
  <1>4. l \in Line /\ l \in Given /\ Tail(todo[p]) \in Seq(Given)
    BY <1>0, <1>3, HeadAndTail, GivenIs
  <1>5. /\ FilesTyped' /\ FragmentsClosed' /\ Grows
        /\ DOMAIN files' = DOMAIN files \cup {Active}
        /\ Active \in DOMAIN files => Len(files'[Active]) = Len(files[Active]) + 1
        /\ Active \notin DOMAIN files => Len(files'[Active]) = 1
        /\ files'[Active][Len(files'[Active])] = l
        /\ Len(files'[Active]) \in DOMAIN files'[Active]
    BY <1>1, <1>2, <1>3, <1>4, LineAdded
  <1>6. SectionTyped(p)'
    BY <1>1, <1>2, <1>4, StandingLedger DEF SectionTyped
  <1>7. Covered(p, l)'
    <2>1. Len(OldSegment(p, Active)) < Len(files'[Active])
      <3>1. CASE Active \in DOMAIN base[p]
        <4>1. Active \in DOMAIN files /\ Len(base[p][Active]) <= Len(files[Active])
          BY <1>1, <3>1 DEF MirrorAlone, Extended
        <4>2. Len(base[p][Active]) \in Nat /\ Len(files[Active]) \in Nat
          BY <1>1, <3>1, <4>1 DEF SectionTyped, FilesTyped
        <4> QED BY <1>5, <3>1, <4>1, <4>2 DEF OldSegment
      <3>2. CASE Active \notin DOMAIN base[p]
        <4>1. OldSegment(p, Active) = <<>>
          BY <3>2 DEF OldSegment
        <4>2. Active \in DOMAIN files => Len(files[Active]) \in Nat
          BY <1>1 DEF FilesTyped
        <4> QED BY <1>5, <4>1, <4>2
      <3> QED BY <3>1, <3>2
    <2>2. Len(OldSegment(p, Active))' = Len(OldSegment(p, Active))
      BY <1>2 DEF OldSegment
    <2> QED BY <1>5, <2>1, <2>2 DEF Covered
  <1>8. Section(p)'
    <2>1. ASSUME NEW e \in rows PROVE (e \in Todo(p) \/ Covered(p, e))'
      <3>1. CASE Covered(p, e)
        BY <1>2, <1>5, <3>1, GrowsCovers
      <3>2. CASE e \in Todo(p)
        <4>1. PICK i \in DOMAIN todo[p] : todo[p][i] = e
          BY <3>2 DEF Todo
        <4>2. e = l \/ (i - 1 \in DOMAIN Tail(todo[p]) /\ e = Tail(todo[p])[i - 1])
          BY <1>0, <1>3, <4>1, HeadAndTail
        <4>3. CASE e = l
          BY <1>7, <4>3
        <4>4. CASE i - 1 \in DOMAIN Tail(todo[p]) /\ e = Tail(todo[p])[i - 1]
          BY <1>2, <4>4 DEF Todo
        <4> QED BY <4>2, <4>3, <4>4
      <3>3. e \in Todo(p) \/ Covered(p, e)
        BY <1>1 DEF MirrorAlone, Section
      <3> QED BY <3>1, <3>2, <3>3
    <2> QED BY <1>1, <1>2, <2>1 DEF Section
  <1> QED BY <1>1, <1>2, <1>5, <1>6, <1>8, GrowsCovers, SameBoundary, SectionStands DEF Captured

LEMMA WrittenMirror ==
    ASSUME NEW p, MirrorAlone(p), Written(p)
    PROVE  MirrorAlone(p)'
  <1>1. Still(p) /\ Shaped /\ SectionTyped(p) /\ pc[p] = "writing"
    BY StepsStand DEF MirrorAlone, MirrorTyped, Written
  <1>2. UNCHANGED <<rows, generation, lastSeq, committed, files, cert, base, boundary, todo>> /\ pc'[p] = "certifying"
    BY <1>1 DEF Written, store, disk, section, Goto, Shaped, Still
  <1>3. SectionTyped(p)' /\ Extended(p)'
    BY <1>1, <1>2, StandingLedger DEF SectionTyped, MirrorAlone, Extended
  <1>4. Section(p)'
    <2>1. Todo(p) = {}
      BY DEF Written, Todo
    <2>2. \A e : Covered(p, e)' <=> Covered(p, e)
      BY <1>2 DEF Covered, OldSegment
    <2> QED BY <1>1, <1>2, <2>1, <2>2 DEF Section, MirrorAlone
  <1> QED BY <1>1, <1>2, <1>3, <1>4, Same, SameBoundary, SectionStands DEF Captured

LEMMA RewriteMirror ==
    ASSUME NEW p, MirrorAlone(p), Rewrite(p)
    PROVE  MirrorAlone(p)'
  <1>1. Still(p) /\ Shaped /\ SectionTyped(p) /\ pc[p] = "rewriting" /\ base[p] = NoSegments
    BY StepsStand DEF MirrorAlone, MirrorTyped, Rewrite, Extended
  <1>2. UNCHANGED <<rows, generation, lastSeq, committed, files, cert, base, boundary>> /\ pc'[p] = "replacing"
    BY <1>1 DEF Rewrite, store, disk, Goto, Shaped, Still
  <1>3. AtBoundary(p)' /\ \A e \in rows : e.seq <= boundary[p].seq
    BY <1>1, <1>2, SameBoundary DEF Captured
  <1>4. todo'[p] = SortBySeq(rows)
    <2>1. {e \in rows : e.seq <= boundary[p].seq} = rows
      BY <1>3
    <2> QED BY <1>1, <2>1 DEF Rewrite, Shaped, Still
  <1>5. rows \subseteq Given /\ committed \in Nat
    BY DEF MirrorAlone, MirrorTyped, LedgerTyped
  <1>6. SectionTyped(p)' /\ Extended(p)'
    <2>1. todo'[p] \in Seq(Given)
      BY <1>4, <1>5, TodoIs
    <2> QED BY <1>1, <1>2, <2>1, StandingLedger DEF SectionTyped, Extended
  <1>7. Section(p)'
    <2>1. Todo(p)' = rows
      BY <1>4, <1>5, TodoIs DEF Todo
    <2> QED BY <1>2, <2>1 DEF Section
  <1> QED BY <1>1, <1>2, <1>3, <1>6, <1>7, Same, SectionStands

\* Given events make a segment.
LEMMA EventsSegment ==
    ASSUME NEW s \in Seq(Given)
    PROVE  /\ s \in Seq(Line) /\ Lines(s) = {s[i] : i \in DOMAIN s}
           /\ \A i \in DOMAIN s : s[i].id > 0 /\ s[i] # Frag
  <1>1. \A i \in DOMAIN s : s[i] \in Given
    OBVIOUS
  <1>2. \A i \in DOMAIN s : s[i].id > 0 /\ s[i] # Frag
    BY <1>1, GivenIs
  <1> QED BY <1>2 DEF Lines, Line

LEMMA ReplaceMirror ==
    ASSUME NEW p, MirrorAlone(p), Replace(p)
    PROVE  MirrorAlone(p)'
  <1>1. Still(p) /\ Shaped /\ SectionTyped(p) /\ pc[p] = "replacing" /\ base[p] = NoSegments /\ FilesTyped /\ FragmentsClosed
    BY StepsStand DEF MirrorAlone, MirrorTyped, Replace, Extended
  <1>2. UNCHANGED <<rows, generation, lastSeq, committed, cert, base, boundary>> /\ pc'[p] = "pruning" /\ todo'[p] = <<>>
    BY <1>1 DEF Replace, store, Goto, Shaped, Still
  <1>3. /\ DOMAIN files' = DOMAIN files \cup {Active} /\ files'[Active] = todo[p]
        /\ files' \in [DOMAIN files' -> {files'[k] : k \in DOMAIN files'}]
        /\ \A k \in DOMAIN files : k # Active => files'[k] = files[k]
    BY DEF Replace
  <1>4. todo[p] \in Seq(Given)
    BY <1>1 DEF SectionTyped
  <1>5. FilesTyped'
    <2>1. \A k \in DOMAIN files' : files'[k] \in Seq(Line)
      BY <1>1, <1>3, <1>4, EventsSegment DEF FilesTyped
    <2>2. IsFiniteSet(DOMAIN files \cup {Active}) /\ DOMAIN files \cup {Active} \subseteq Nat
      BY <1>1, FS_AddElement DEF FilesTyped, Active
    <2> QED BY <1>1, <1>3, <2>1, <2>2, StandingLedger DEF FilesTyped
  <1>6. FragmentsClosed'
    <2>1. ASSUME NEW k \in DOMAIN files', NEW i \in DOMAIN files'[k], i > 1, files'[k][i - 1] = Frag
          PROVE  files'[k][i].id = 0
      <3>1. CASE k = Active
        <4>1. i - 1 \in DOMAIN todo[p]
          BY <1>3, <1>4, <2>1, <3>1
        <4> QED BY <1>3, <1>4, <2>1, <3>1, <4>1, EventsSegment
      <3>2. CASE k # Active
        BY <1>1, <1>3, <2>1, <3>2 DEF FragmentsClosed
      <3> QED BY <3>1, <3>2
    <2> QED BY <2>1 DEF FragmentsClosed
  <1>7. SectionTyped(p)' /\ Extended(p)'
    BY <1>1, <1>2, StandingLedger DEF SectionTyped, Extended
  <1>8. Section(p)'
    BY <1>1, <1>2, <1>3, <1>4, EventsSegment DEF Section, Todo, MirrorAlone
  <1> QED BY <1>1, <1>2, <1>5, <1>6, <1>7, <1>8, SameBoundary, SectionStands DEF Captured
\* A least member of a set of numbers is one of them.
LEMMA MinIs ==
    ASSUME NEW S, S \subseteq Nat, S # {}
    PROVE  Min(S) \in S /\ \A n \in S : Min(S) <= n
  BY LeastExists DEF Min

\* A full active segment gets a number no segment has, in the mirror and in what is extended.
LEMMA RotateIs ==
    ASSUME NEW p, MirrorAlone(p), Rotate(p)
    PROVE  \E free \in Nat :
             /\ free \notin DOMAIN files /\ free # Active /\ Active \in DOMAIN files
             /\ DOMAIN files' = (DOMAIN files \ {Active}) \cup {free}
             /\ files' = [k \in DOMAIN files' |-> files'[k]]
             /\ files'[free] = files[Active]
             /\ \A k \in DOMAIN files \ {Active} : files'[k] = files[k]
             /\ 1..(free - 1) \subseteq DOMAIN files
             /\ Active \in DOMAIN base[p] =>
                    /\ DOMAIN base'[p] = (DOMAIN base[p] \ {Active}) \cup {free}
                    /\ base'[p] = [k \in DOMAIN base'[p] |-> base'[p][k]]
                    /\ base'[p][free] = base[p][Active]
                    /\ \A k \in DOMAIN base[p] \ {Active} : k # free => base'[p][k] = base[p][k]
             /\ Active \notin DOMAIN base[p] => base'[p] = base[p]
  <1> DEFINE F == (1..(Cardinality(DOMAIN files) + 1)) \ DOMAIN files
             Renamed(f, free) == [k \in (DOMAIN f \ {Active}) \cup {free} |-> IF k = free THEN f[Active] ELSE f[k]]
  <1>1. F \subseteq Nat /\ F # {}
    <2> DEFINE n == Cardinality(DOMAIN files)
    <2>1. IsFiniteSet(DOMAIN files) /\ n \in Nat
      BY FS_CardinalityType DEF MirrorAlone, MirrorTyped, FilesTyped
    <2>2. Cardinality(1..(n + 1)) = n + 1
      <3>1. Cardinality(1..(n + 1)) = IF 1 > n + 1 THEN 0 ELSE (n + 1) - 1 + 1
        BY <2>1, FS_Interval, 1 \in Int, n + 1 \in Int
      <3> HIDE DEF n
      <3> QED BY <2>1, <3>1
    <2>3. ~(1..(n + 1) \subseteq DOMAIN files)
      <3>1. ASSUME 1..(n + 1) \in SUBSET DOMAIN files PROVE FALSE
        <4>1. Cardinality(1..(n + 1)) <= n
          BY <2>1, <3>1, FS_Subset
        <4> HIDE DEF n
        <4> QED BY <2>1, <2>2, <4>1
      <3> HIDE DEF n
      <3> QED BY <3>1
    <2> QED BY <2>1, <2>3
  <1>2. PICK free : free = Min(F)
    OBVIOUS
  <1>3. free \in F /\ free \in Nat /\ free \notin DOMAIN files /\ free # Active /\ 1..(free - 1) \subseteq DOMAIN files
    <2>1. free \in F /\ \A n \in F : free <= n
      <3> HIDE DEF F
      <3> QED BY <1>1, <1>2, MinIs
    <2>2. Cardinality(DOMAIN files) \in Nat
      BY FS_CardinalityType DEF MirrorAlone, MirrorTyped, FilesTyped
    <2> QED BY <2>1, <2>2 DEF Active
  <1>4. files' = Renamed(files, free) /\ Active \in DOMAIN files
    BY <1>2 DEF Rotate, Full
  <1>5. p \in Procs /\ DOMAIN base = Procs
    BY DEF MirrorAlone, MirrorTyped, Shaped
  <1>6. base'[p] = IF Active \in DOMAIN base[p] THEN Renamed(base[p], free) ELSE base[p]
    BY <1>2, <1>5 DEF Rotate
  <1>7. /\ DOMAIN files' = (DOMAIN files \ {Active}) \cup {free}
        /\ files' = [k \in DOMAIN files' |-> files'[k]]
        /\ files'[free] = files[Active]
        /\ \A k \in DOMAIN files \ {Active} : files'[k] = files[k]
    BY <1>3, <1>4
  <1>8. Active \in DOMAIN base[p] =>
            /\ DOMAIN base'[p] = (DOMAIN base[p] \ {Active}) \cup {free}
            /\ base'[p] = [k \in DOMAIN base'[p] |-> base'[p][k]]
            /\ base'[p][free] = base[p][Active]
            /\ \A k \in DOMAIN base[p] \ {Active} : k # free => base'[p][k] = base[p][k]
    BY <1>6
  <1>9. Active \notin DOMAIN base[p] => base'[p] = base[p]
    BY <1>6
  <1> HIDE DEF F, Renamed
  <1> QED BY <1>3, <1>4, <1>7, <1>8, <1>9

LEMMA RotateMirror ==
    ASSUME NEW p, MirrorAlone(p), Rotate(p)
    PROVE  MirrorAlone(p)'
  <1>1. Still(p) /\ Shaped /\ SectionTyped(p) /\ pc[p] = "writing" /\ FilesTyped /\ FragmentsClosed
    BY StepsStand DEF MirrorAlone, MirrorTyped, Rotate
  <1>2. UNCHANGED <<rows, committed, cert, boundary, pc, todo>>
    BY DEF Rotate, store
  <1>3. PICK free \in Nat :
             /\ free \notin DOMAIN files /\ free # Active /\ Active \in DOMAIN files
             /\ DOMAIN files' = (DOMAIN files \ {Active}) \cup {free}
             /\ files' = [k \in DOMAIN files' |-> files'[k]]
             /\ files'[free] = files[Active]
             /\ \A k \in DOMAIN files \ {Active} : files'[k] = files[k]
             /\ Active \in DOMAIN base[p] =>
                    /\ DOMAIN base'[p] = (DOMAIN base[p] \ {Active}) \cup {free}
                    /\ base'[p] = [k \in DOMAIN base'[p] |-> base'[p][k]]
                    /\ base'[p][free] = base[p][Active]
                    /\ \A k \in DOMAIN base[p] \ {Active} : k # free => base'[p][k] = base[p][k]
             /\ Active \notin DOMAIN base[p] => base'[p] = base[p]
    BY RotateIs
  <1>4. DOMAIN base[p] \subseteq DOMAIN files /\ free \notin DOMAIN base[p]
    BY <1>1, <1>3 DEF MirrorAlone, Extended
  \* Where a segment is now.
  <1> DEFINE Now(k) == IF k = Active THEN free ELSE k
  <1>5. \A k \in DOMAIN files : Now(k) \in DOMAIN files' /\ files'[Now(k)] = files[k]
    BY <1>3
  <1>6. \A k \in DOMAIN base[p] : Now(k) \in DOMAIN base'[p] /\ base'[p][Now(k)] = base[p][k]
    <2>1. CASE Active \in DOMAIN base[p]
      BY <1>3, <1>4, <2>1
    <2>2. CASE Active \notin DOMAIN base[p]
      BY <1>3, <2>2
    <2> QED BY <2>1, <2>2
  <1>7. \A k \in DOMAIN files' : \E j \in DOMAIN files : k = Now(j)
    BY <1>3
  <1>8. \A k \in DOMAIN base'[p] : \E j \in DOMAIN base[p] : k = Now(j)
    <2>1. CASE Active \in DOMAIN base[p]
      BY <1>3, <2>1
    <2>2. CASE Active \notin DOMAIN base[p]
      BY <1>3, <2>2
    <2> QED BY <2>1, <2>2
  <1>9. \A j \in DOMAIN files : Now(j) \in DOMAIN base'[p] => j \in DOMAIN base[p]
    BY <1>3, <1>4, <1>8
  <1> HIDE DEF Now
  <1>10. FilesTyped'
    <2>1. \A k \in DOMAIN files' : files'[k] \in Seq(Line)
      BY <1>1, <1>5, <1>7 DEF FilesTyped
    <2>2. IsFiniteSet(DOMAIN files')
      <3>1. IsFiniteSet(DOMAIN files \ {Active})
        BY <1>1, FS_RemoveElement DEF FilesTyped
      <3> QED BY <1>3, <3>1, FS_AddElement
    <2> QED BY <1>1, <1>3, <2>1, <2>2, StandingLedger DEF FilesTyped
  <1>11. FragmentsClosed'
    BY <1>1, <1>5, <1>7 DEF FragmentsClosed
  <1>12. base'[p] \in [DOMAIN base'[p] -> Seq(Line)]
    <2>1. base'[p] = [k \in DOMAIN base'[p] |-> base'[p][k]]
      BY <1>1, <1>3 DEF SectionTyped
    <2>2. \A k \in DOMAIN base'[p] : base'[p][k] \in Seq(Line)
      BY <1>1, <1>6, <1>8 DEF SectionTyped
    <2> QED BY <2>1, <2>2
  <1>13. SectionTyped(p)'
    BY <1>1, <1>2, <1>12, StandingLedger DEF SectionTyped
  <1>14. Extended(p)'
    <2>1. ASSUME NEW k \in DOMAIN base'[p]
          PROVE  k \in DOMAIN files' /\ Len(base'[p][k]) <= Len(files'[k])
      <3>1. PICK j \in DOMAIN base[p] : k = Now(j)
        BY <1>8
      <3> QED BY <1>1, <1>4, <1>5, <1>6, <3>1 DEF MirrorAlone, Extended
    <2> QED BY <1>1, <1>2, <2>1 DEF Extended
  <1>15. Section(p)'
    <2>1. ASSUME NEW e, Covered(p, e) PROVE Covered(p, e)'
      <3>1. CASE \E k \in DOMAIN base[p] : e \in Lines(base[p][k])
        BY <1>6, <3>1 DEF Covered
      <3>2. CASE \E k \in DOMAIN files : \E i \in DOMAIN files[k] : i > Len(OldSegment(p, k)) /\ files[k][i] = e
        <4>0. PICK k \in DOMAIN files : \E i \in DOMAIN files[k] : i > Len(OldSegment(p, k)) /\ files[k][i] = e
          BY <3>2
        <4>1. PICK i \in DOMAIN files[k] : i > Len(OldSegment(p, k)) /\ files[k][i] = e
          BY <4>0
        <4>2. OldSegment(p, Now(k))' = OldSegment(p, k)
          <5>1. CASE k \in DOMAIN base[p]
            BY <1>6, <5>1 DEF OldSegment
          <5>2. CASE k \notin DOMAIN base[p]
            BY <1>9, <5>2 DEF OldSegment
          <5> QED BY <5>1, <5>2
        <4>3. /\ Now(k) \in DOMAIN files' /\ i \in DOMAIN files'[Now(k)] /\ files'[Now(k)][i] = e
              /\ i > Len(OldSegment(p, Now(k)))'
          BY <1>5, <4>1, <4>2
        <4> QED BY <4>3 DEF Covered
      <3> QED BY <2>1, <3>1, <3>2 DEF Covered
    <2> QED BY <1>1, <1>2, <2>1 DEF Section, Todo, MirrorAlone
  <1> QED BY <1>1, <1>2, <1>10, <1>11, <1>13, <1>14, <1>15, SameBoundary, SectionStands DEF Captured

LEMMA PruneMirror ==
    ASSUME NEW p, MirrorAlone(p), Prune(p)
    PROVE  MirrorAlone(p)'
  <1>1. Still(p) /\ Shaped /\ SectionTyped(p) /\ pc[p] = "pruning" /\ base[p] = NoSegments /\ FilesTyped /\ FragmentsClosed
    BY StepsStand DEF MirrorAlone, MirrorTyped, Prune, Extended
  <1>2. UNCHANGED <<rows, generation, lastSeq, committed, cert, base, boundary, todo>>
    BY DEF Prune, store, section
  <1>3. SectionTyped(p)'
    BY <1>1, <1>2, StandingLedger DEF SectionTyped
  <1>4. Active \in DOMAIN files /\ rows \subseteq Lines(files[Active])
    BY <1>1 DEF MirrorAlone, Section
  <1>5. CASE DOMAIN files \subseteq {Active}
    <2>1. files' = files /\ pc'[p] = "certifying"
      BY <1>1, <1>5 DEF Prune, Goto, Shaped, Still
    <2>2. Extended(p)'
      BY <1>1, <1>2, <2>1, NoSegmentsIs DEF Extended
    <2>3. Section(p)'
      <3>1. ASSUME NEW e \in rows PROVE Covered(p, e)'
        <4>1. \E k \in DOMAIN files : \E i \in DOMAIN files[k] : files[k][i] = e
          BY <1>4 DEF Lines
        <4>2. Covered(p, e)
          BY <1>1, <4>1, CoveredAfresh
        <4> QED BY <1>2, <2>1, <4>2 DEF Covered, OldSegment
      <3> QED BY <1>2, <2>1, <3>1 DEF Section
    <2> QED BY <1>1, <1>2, <1>3, <2>1, <2>2, <2>3, Same, SameBoundary, SectionStands DEF Captured
  <1>6. CASE ~(DOMAIN files \subseteq {Active})
    <2>1. PICK old : old = Min(DOMAIN files \ {Active})
      OBVIOUS
    <2>2. old \in DOMAIN files /\ old # Active
      <3>1. DOMAIN files \ {Active} \subseteq Nat /\ DOMAIN files \ {Active} # {}
        BY <1>1, <1>6 DEF FilesTyped
      <3>2. old \in DOMAIN files \ {Active}
        BY <2>1, <3>1, MinIs
      <3> QED BY <3>2
    <2>3. files' = [k \in DOMAIN files \ {old} |-> files[k]] /\ pc' = pc
      BY <1>6, <2>1 DEF Prune
    <2>4. FilesTyped' /\ FragmentsClosed'
      <3>1. IsFiniteSet(DOMAIN files \ {old})
        BY <1>1, FS_RemoveElement DEF FilesTyped
      <3>2. DOMAIN files' = DOMAIN files \ {old} /\ \A k \in DOMAIN files' : files'[k] = files[k]
        BY <2>3
      <3>3. files' \in [DOMAIN files' -> Seq(Line)]
        BY <1>1, <2>3 DEF FilesTyped
      <3> QED BY <1>1, <3>1, <3>2, <3>3, StandingLedger DEF FilesTyped, FragmentsClosed
    <2>5. Extended(p)' /\ Section(p)'
      BY <1>1, <1>2, <1>4, <2>2, <2>3 DEF Extended, Section
    <2> QED BY <1>1, <1>2, <1>3, <2>3, <2>4, <2>5, SameBoundary, SectionStands DEF Captured
  <1> QED BY <1>5, <1>6
\* A certificate says of the boundary what the section has mirrored.
LEMMA CertifyMirror ==
    ASSUME NEW p, MirrorAlone(p), Certify(p)
    PROVE  /\ MirrorAlone(p)'
           /\ DOMAIN cert'.files = DOMAIN files
           /\ \A k \in DOMAIN files : cert'.files[k] = IF k \in DOMAIN base[p] THEN Digest(files[k], base[p][k]) ELSE files[k]
  <1>1. p \in Procs /\ Shaped /\ SectionTyped(p) /\ pc[p] = "certifying" /\ FilesTyped /\ FragmentsClosed /\ Extended(p)
    BY DEF MirrorAlone, MirrorTyped, Certify
  <1>2. UNCHANGED <<load, rows, generation, lastSeq, committed, files, base, todo>> /\ pc'[p] = "release" /\ Shaped'
    BY <1>1 DEF Certify, store, section, Goto, Shaped
  <1>3. Line' = Line /\ Given' = Given
    BY <1>2 DEF Line, Given
  <1>4. FilesTyped' /\ FragmentsClosed' /\ SectionTyped(p)'
    BY <1>1, <1>2, <1>3 DEF FilesTyped, FragmentsClosed, SectionTyped
  <1>5. /\ cert'.generation = boundary[p].generation /\ cert'.seq = boundary[p].seq
        /\ cert'.files = [k \in DOMAIN files |->
                            IF k \in DOMAIN base[p] THEN Digest(files[k], base[p][k]) ELSE files[k]]
    BY DEF Certify
  <1>6. boundary[p].generation = generation /\ boundary[p].seq \in 0..lastSeq /\ generation \in Nat /\ lastSeq \in Nat
    BY <1>1 DEF MirrorAlone, MirrorTyped, LedgerTyped, AtBoundary, Captured
  <1>7. ASSUME NEW k \in DOMAIN files, k \in DOMAIN base[p]
        PROVE  /\ Digest(files[k], base[p][k]) \in Seq(Line) /\ Len(Digest(files[k], base[p][k])) = Len(files[k])
               /\ Len(base[p][k]) <= Len(files[k]) /\ Len(base[p][k]) \in Nat /\ Len(files[k]) \in Nat
               /\ \A i \in 1..Len(base[p][k]) : Digest(files[k], base[p][k])[i] = base[p][k][i]
               /\ \A i \in 1..Len(files[k]) : i > Len(base[p][k]) => Digest(files[k], base[p][k])[i] = files[k][i]
    <2>1. Extends(files[k], base[p][k])
      BY <1>7 DEF Certify, OldSegment
    <2>2. files[k] \in Seq(Line) /\ base[p][k] \in Seq(Line)
      BY <1>1, <1>7 DEF FilesTyped, SectionTyped
    <2> QED BY <2>1, <2>2, DigestIs
  <1>8. CertTyped'
    <2>1. \A k \in DOMAIN files : cert'.files[k] \in Seq(Line)
      BY <1>1, <1>5, <1>7 DEF FilesTyped
    <2>2. DOMAIN cert'.files = DOMAIN files /\ cert'.files = [k \in DOMAIN files |-> cert'.files[k]]
      BY <1>5
    <2>3. cert'.files \in [DOMAIN files -> Seq(Line)]
      BY <2>1, <2>2
    <2> QED BY <1>3, <1>5, <1>6, <2>2, <2>3 DEF CertTyped
  <1>9. ASSUME NEW e \in rows PROVE \E k \in DOMAIN cert'.files : e \in Lines(cert'.files[k])
    <2>1. e.id > 0
      BY GivenIs DEF MirrorAlone, MirrorTyped, LedgerTyped
    <2>2. Covered(p, e)
      BY <1>1 DEF MirrorAlone, Section
    <2>3. CASE \E k \in DOMAIN base[p] : e \in Lines(base[p][k])
      <3>1. PICK k \in DOMAIN base[p] : e \in Lines(base[p][k])
        BY <2>3
      <3>2. PICK i \in DOMAIN base[p][k] : base[p][k][i] = e
        BY <3>1 DEF Lines
      <3>3. k \in DOMAIN files /\ cert'.files[k] = Digest(files[k], base[p][k]) /\ base[p][k] \in Seq(Line)
        BY <1>1, <1>5 DEF Extended, SectionTyped
      <3>4. i \in DOMAIN cert'.files[k] /\ cert'.files[k][i] = e
        BY <1>7, <3>2, <3>3
      <3> QED BY <1>5, <2>1, <3>3, <3>4 DEF Lines
    <2>4. CASE \E k \in DOMAIN files : \E i \in DOMAIN files[k] : i > Len(OldSegment(p, k)) /\ files[k][i] = e
      <3>1. PICK k \in DOMAIN files : \E i \in DOMAIN files[k] : i > Len(OldSegment(p, k)) /\ files[k][i] = e
        BY <2>4
      <3>2. PICK i \in DOMAIN files[k] : i > Len(OldSegment(p, k)) /\ files[k][i] = e
        BY <3>1
      <3>3. files[k] \in Seq(Line)
        BY <1>1 DEF FilesTyped
      <3>4. i \in DOMAIN cert'.files[k] /\ cert'.files[k][i] = e
        <4>1. CASE k \in DOMAIN base[p]
          BY <1>5, <1>7, <3>2, <3>3, <4>1 DEF OldSegment
        <4>2. CASE k \notin DOMAIN base[p]
          BY <1>5, <3>2, <4>2
        <4> QED BY <4>1, <4>2
      <3> QED BY <1>5, <2>1, <3>4 DEF Lines
    <2> QED BY <2>2, <2>3, <2>4 DEF Covered
  <1>10. CertificateHolds'
    BY <1>2, <1>5, <1>6, <1>9 DEF CertificateHolds, Certificate
  <1>11. MirrorAlone(p)'
    BY <1>2, <1>4, <1>8, <1>10, Leaves DEF Captured
  <1> QED BY <1>5, <1>11

LEMMA CannotCertifyMirror ==
    ASSUME NEW p, MirrorAlone(p), CannotCertify(p)
    PROVE  MirrorAlone(p)'
  <1>1. Still(p) /\ Shaped /\ SectionTyped(p)
    BY StepsStand DEF MirrorAlone, MirrorTyped
  <1>2. UNCHANGED <<load, rows, generation, lastSeq, committed, files, cert, base, todo>> /\ pc'[p] = "release" /\ Shaped'
    BY <1>1 DEF CannotCertify, store, disk, section, Goto, Shaped, Still
  <1>3. SectionTyped(p)'
    BY <1>1, <1>2, StandingLedger DEF SectionTyped
  <1> QED BY <1>2, <1>3, Same, Leaves DEF Captured

LEMMA SectionStepMirror ==
    ASSUME NEW p, MirrorAlone(p), SectionStep(p)
    PROVE  MirrorAlone(p)'
  BY CaptureMirror, ExtendMirror, RepairMirror, CloseFragmentMirror, RotateMirror, WriteLineMirror, WrittenMirror,
     RewriteMirror, ReplaceMirror, PruneMirror, CertifyMirror, CannotCertifyMirror DEF SectionStep

\* A write that is cut off leaves the mirror or a fragment.
LEMMA CutOff ==
    ASSUME NEW p, MirrorAlone(p), Still(p), files' = files \/ (~EndsWithFrag /\ WithLine(Frag))
    PROVE  FilesTyped' /\ FragmentsClosed' /\ Grows /\ OnDisk' = OnDisk
  <1>1. committed \in Nat /\ FilesTyped /\ FragmentsClosed /\ Frag \in Line /\ Frag.id = 0 /\ committed' = committed
    BY DEF MirrorAlone, MirrorTyped, LedgerTyped, Line, Frag, Still
  <1>2. CASE files' = files
    <2>1. FilesTyped' /\ FragmentsClosed' /\ OnDisk' = OnDisk
      BY <1>2, Same DEF Still
    <2>2. \A k \in DOMAIN files : Len(files[k]) \in Nat
      BY <1>1 DEF FilesTyped
    <2>3. Grows
      BY <1>2, <2>2 DEF Grows
    <2> QED BY <2>1, <2>3
  <1>3. CASE ~EndsWithFrag /\ WithLine(Frag)
    <2>1. /\ FilesTyped' /\ FragmentsClosed' /\ Grows
          /\ \A k \in DOMAIN files' : \A i \in DOMAIN files'[k] :
                files'[k][i] = Frag \/ (k \in DOMAIN files /\ i \in DOMAIN files[k] /\ files'[k][i] = files[k][i])
      BY <1>1, <1>3, LineAdded
    <2>2. Given' = Given /\ Frag \notin Given
      BY <1>1, GivenIs DEF Given
    <2>3. ASSUME NEW e PROVE e \in OnDisk' <=> e \in OnDisk
      <3>1. e \in OnDisk <=> e \in Given /\ \E k \in DOMAIN files : \E i \in DOMAIN files[k] : files[k][i] = e
        BY <1>1, OnDiskIs
      <3>2. e \in OnDisk' <=> e \in Given /\ \E k \in DOMAIN files' : \E i \in DOMAIN files'[k] : files'[k][i] = e
        BY <1>1, <2>1, OnDiskNextIs
      <3> QED BY <2>1, <2>2, <3>1, <3>2 DEF Grows
    <2> QED BY <2>1, <2>3
  <1> QED BY <1>2, <1>3

LEMMA CrashMirror ==
    ASSUME NEW p, MirrorAlone(p), Crash(p)
    PROVE  MirrorAlone(p)' /\ OnDisk' = OnDisk /\ Grows
  <1>1. Still(p) /\ Shaped /\ SectionTyped(p)
    BY StepsStand DEF MirrorAlone, MirrorTyped
  <1>2. /\ UNCHANGED <<load, rows, generation, lastSeq, committed, cert>> /\ Shaped'
        /\ pc'[p] = "down" /\ base'[p] = NoSegments /\ todo'[p] = <<>>
    BY <1>1 DEF Crash, store, Goto, Shaped, Still
  <1>3. files' = files \/ (~EndsWithFrag /\ WithLine(Frag))
    BY DEF Crash
  <1>4. FilesTyped' /\ FragmentsClosed' /\ CertTyped' /\ CertificateHolds' /\ OnDisk' = OnDisk /\ Grows
    BY <1>1, <1>3, CutOff, StandingLedger
  <1>5. SectionTyped(p)'
    BY <1>2, NoSegmentsIs DEF SectionTyped
  <1> QED BY <1>2, <1>4, <1>5, Leaves DEF Captured

LEMMA WriteFailsMirror ==
    ASSUME NEW p, MirrorAlone(p), WriteFails(p)
    PROVE  MirrorAlone(p)'
  <1>1. Still(p) /\ Shaped /\ SectionTyped(p)
    BY StepsStand DEF MirrorAlone, MirrorTyped
  <1>2. /\ UNCHANGED <<load, rows, generation, lastSeq, committed, cert>> /\ Shaped'
        /\ pc'[p] = "release" /\ base' = base /\ todo'[p] = <<>>
    BY <1>1 DEF WriteFails, store, Goto, Shaped, Still
  <1>3. files' = files \/ (~EndsWithFrag /\ WithLine(Frag))
    BY DEF WriteFails
  <1>4. FilesTyped' /\ FragmentsClosed' /\ CertTyped' /\ CertificateHolds'
    BY <1>1, <1>3, CutOff, StandingLedger
  <1>5. SectionTyped(p)'
    BY <1>1, <1>2, StandingLedger DEF SectionTyped
  <1> QED BY <1>2, <1>4, <1>5, Leaves DEF Captured

LEMMA DamageMirror ==
    ASSUME NEW p, MirrorAlone(p), Damage
    PROVE  MirrorAlone(p)'
  <1>1. p \in Procs /\ Shaped /\ SectionTyped(p) /\ FilesTyped /\ FragmentsClosed
    BY DEF MirrorAlone, MirrorTyped
  <1>2. /\ UNCHANGED <<load, rows, generation, lastSeq, committed, cert, pc, base, todo, boundary, op, tries>>
        /\ pc[p] = "down"
    BY <1>1 DEF Damage, store, section
  <1>3. Line' = Line /\ Given' = Given /\ CertTyped' /\ CertificateHolds'
    BY <1>2 DEF Line, Given, MirrorAlone, MirrorTyped, CertTyped, CertificateHolds, Certificate
  <1>4. PICK k \in DOMAIN files : \E i \in DOMAIN files[k] : files' = [files EXCEPT ![k][i] = Junk]
    BY DEF Damage
  <1>5. PICK i \in DOMAIN files[k] : files' = [files EXCEPT ![k][i] = Junk]
    BY <1>4
  <1>6. /\ DOMAIN files' = DOMAIN files /\ files' = [j \in DOMAIN files |-> files'[j]]
        /\ \A j \in DOMAIN files : j # k => files'[j] = files[j]
        /\ files'[k] = [files[k] EXCEPT ![i] = Junk]
    BY <1>5
  <1>7. Junk \in Line /\ Junk.id = 0 /\ Junk # Frag
    BY DEF Line, Junk, Frag
  <1>8. files[k] \in Seq(Line) /\ files'[k] \in Seq(Line) /\ DOMAIN files'[k] = DOMAIN files[k]
    BY <1>1, <1>6, <1>7 DEF FilesTyped
  <1>9. FilesTyped'
    <2>1. \A j \in DOMAIN files : files'[j] \in Seq(Line)
      BY <1>1, <1>6, <1>8 DEF FilesTyped
    <2> QED BY <1>1, <1>3, <1>6, <2>1 DEF FilesTyped
  <1>10. FragmentsClosed'
    <2>1. \A j \in DOMAIN files[k] : files'[k][j] = IF j = i THEN Junk ELSE files[k][j]
      BY <1>6
    <2>2. ASSUME NEW j \in DOMAIN files[k], j > 1, files'[k][j - 1] = Frag PROVE files'[k][j].id = 0
      <3>1. j - 1 \in DOMAIN files[k] /\ j \in Int
        BY <1>8, <2>2
      <3>2. files[k][j - 1] = Frag
        BY <1>7, <2>1, <2>2, <3>1
      <3> QED BY <1>1, <1>7, <2>1, <2>2, <3>2 DEF FragmentsClosed
    <2> QED BY <1>1, <1>6, <1>8, <2>2 DEF FragmentsClosed
  <1>11. Shaped' /\ SectionTyped(p)' /\ base'[p] = NoSegments
    BY <1>1, <1>2, <1>3 DEF Shaped, SectionTyped, MirrorAlone, Extended
  <1> QED BY <1>2, <1>3, <1>9, <1>10, <1>11, Leaves DEF Captured
\* A change of the ledger between two sections.
LEMMA NewLedger ==
    ASSUME NEW p, MirrorAlone(p), load' = load, files' = files, cert' = cert, base' = base,
           pc[p] \in {"idle", "clearing", "reinserting"}, committed' \in {committed, committed + 1},
           Shaped', LedgerTyped', CertificateHolds', todo'[p] \in Seq(Given),
           pc'[p] \in {"want", "reinserting"}, pc'[p] = "reinserting" => ~Certificate'
    PROVE  MirrorAlone(p)'
  <1>1. committed \in Nat /\ FilesTyped /\ FragmentsClosed /\ CertTyped /\ SectionTyped(p) /\ base[p] = NoSegments
    BY DEF MirrorAlone, MirrorTyped, LedgerTyped, Extended
  <1>2. Given \subseteq Given'
    <2>1. 1..committed \subseteq 1..committed'
      BY <1>1
    <2> QED BY <2>1 DEF Given
  <1>3. Seq(Line) \subseteq Seq(Line') /\ Seq(Given) \subseteq Seq(Given')
    BY <1>2 DEF Line
  <1>4. FilesTyped' /\ FragmentsClosed' /\ CertTyped' /\ SectionTyped(p)'
    BY <1>1, <1>3 DEF FilesTyped, FragmentsClosed, CertTyped, SectionTyped
  <1>5. Extended(p)' /\ AtBoundary(p)' /\ Section(p)'
    BY <1>1 DEF Extended, AtBoundary, Section, Captured
  <1> QED BY <1>4, <1>5 DEF MirrorAlone, MirrorTyped

LEMMA AppendMirror ==
    ASSUME NEW p, MirrorAlone(p), AppendEvent(p)
    PROVE  MirrorAlone(p)'
  <1>1. p \in Procs /\ Shaped /\ LedgerTyped /\ CertTyped /\ CertificateHolds /\ SectionTyped(p) /\ pc[p] = "idle"
    BY DEF MirrorAlone, MirrorTyped, AppendEvent
  <1>2. /\ UNCHANGED <<load, generation, files, cert, base, todo>> /\ committed' = committed + 1 /\ lastSeq' = lastSeq + 1
        /\ rows' = rows \cup {[id |-> committed + 1, seq |-> lastSeq + 1]}
        /\ pc'[p] = "want" /\ Shaped'
    BY <1>1 DEF AppendEvent, Commit, Ask, Goto, disk, section, Shaped
  <1>3. LedgerTyped'
    <2>1. [id |-> committed + 1, seq |-> lastSeq + 1] \in Given'
      BY <1>1, <1>2 DEF LedgerTyped, Given
    <2>2. \A e \in rows : e \in Given' /\ e.seq <= lastSeq + 1
      BY <1>1, <1>2 DEF LedgerTyped, Given
    <2>3. committed' \in Nat /\ lastSeq' \in 0..committed' /\ generation' \in Nat
      BY <1>1, <1>2 DEF LedgerTyped
    <2> QED BY <1>2, <2>1, <2>2, <2>3 DEF LedgerTyped
  <1>4. CertificateHolds'
    <2>1. ASSUME Certificate PROVE cert.seq <= lastSeq + 1 /\ ~(lastSeq + 1 <= cert.seq)
      BY <1>1, <2>1 DEF CertificateHolds, Certificate, CertTyped, LedgerTyped
    <2> QED BY <1>1, <1>2, <2>1 DEF CertificateHolds, Certificate
  <1>5. todo'[p] \in Seq(Given)
    BY <1>1, <1>2 DEF SectionTyped
  <1> QED BY <1>1, <1>2, <1>3, <1>4, <1>5, NewLedger

LEMMA ClearMirror ==
    ASSUME NEW p, MirrorAlone(p), Clear(p)
    PROVE  MirrorAlone(p)'
  <1>1. p \in Procs /\ Shaped /\ LedgerTyped /\ CertTyped /\ CertificateHolds /\ SectionTyped(p) /\ pc[p] = "idle"
    BY DEF MirrorAlone, MirrorTyped, Clear
  <1>2. /\ UNCHANGED <<load, lastSeq, committed, files, cert, base, todo>> /\ generation' = generation + 1
        /\ rows' \subseteq rows /\ pc'[p] = "want" /\ Shaped'
    BY <1>1 DEF Clear, Ask, Goto, disk, section, Shaped
  <1>3. LedgerTyped' /\ todo'[p] \in Seq(Given)
    BY <1>1, <1>2 DEF LedgerTyped, Given, SectionTyped
  <1>4. CertificateHolds'
    BY <1>1, <1>2 DEF CertificateHolds, Certificate, CertTyped, LedgerTyped
  <1> QED BY <1>1, <1>2, <1>3, <1>4, NewLedger

LEMMA ClearAllMirror ==
    ASSUME NEW p, MirrorAlone(p), ClearAll(p)
    PROVE  MirrorAlone(p)'
  <1>1. p \in Procs /\ Shaped /\ LedgerTyped /\ CertTyped /\ CertificateHolds /\ SectionTyped(p) /\ pc[p] = "clearing"
    BY DEF MirrorAlone, MirrorTyped, ClearAll
  <1>2. /\ UNCHANGED <<load, committed, files, cert, base, todo>> /\ generation' = generation + 1
        /\ rows' = {} /\ lastSeq' = 0 /\ pc'[p] = "reinserting" /\ Shaped'
    BY <1>1 DEF ClearAll, Goto, disk, section, Shaped
  <1>3. LedgerTyped' /\ todo'[p] \in Seq(Given)
    BY <1>1, <1>2 DEF LedgerTyped, Given, SectionTyped
  <1>4. CertificateHolds' /\ ~Certificate'
    BY <1>1, <1>2 DEF CertificateHolds, Certificate, CertTyped, LedgerTyped
  <1> QED BY <1>1, <1>2, <1>3, <1>4, NewLedger

\* What comes back is what was read.
LEMMA ReinsertIs ==
    ASSUME NEW p, MirrorAlone(p), Reinsert(p)
    PROVE  /\ rows' = rows \cup Todo(p)
           /\ UNCHANGED <<load, generation, committed, cleared, files, cert, base>>
           /\ Todo(p) \subseteq Given /\ Todo(p)' = {}
           /\ pc'[p] = "want" /\ op'[p] = "repair" /\ Shaped' /\ LedgerTyped' /\ todo'[p] = <<>>
  <1>1. p \in Procs /\ Shaped /\ LedgerTyped /\ SectionTyped(p)
    BY DEF MirrorAlone, MirrorTyped
  <1>2. /\ UNCHANGED <<load, generation, committed, cleared, files, cert, base>>
        /\ rows' = rows \cup Todo(p) /\ lastSeq' = Max({lastSeq} \cup Seqs(Todo(p)))
        /\ pc'[p] = "want" /\ op'[p] = "repair" /\ Shaped' /\ todo'[p] = <<>>
    BY <1>1 DEF Reinsert, Ask, Goto, disk, Shaped, Todo
  <1>3. Todo(p) \subseteq Given
    BY <1>1 DEF SectionTyped, Todo
  <1>4. lastSeq' \in 0..committed /\ \A e \in rows \cup Todo(p) : e.seq <= lastSeq'
    <2> DEFINE S == {lastSeq} \cup Seqs(Todo(p))
    <2>1. S \subseteq 0..committed /\ S # {} /\ committed \in Nat
      BY <1>1, <1>3 DEF LedgerTyped, Given, Seqs
    <2>2. Max(S) \in S /\ \A y \in S : y <= Max(S)
      <3> HIDE DEF S
      <3> QED BY <2>1, MaxFacts
    <2>3. \A e \in Todo(p) : e.seq \in S
      BY DEF Seqs
    <2>4. lastSeq \in S /\ \A e \in rows : e.seq <= lastSeq /\ e.seq \in Int
      BY <1>1 DEF LedgerTyped, Given
    <2>5. lastSeq' = Max(S)
      BY <1>2
    <2> HIDE DEF S
    <2>6. PICK m : m = Max(S)
      OBVIOUS
    <2>7. m \in S /\ lastSeq <= m
      BY <2>2, <2>4, <2>6
    <2>8. m \in 0..committed /\ lastSeq \in 0..committed
      BY <2>1, <2>4, <2>7
    <2>9. ASSUME NEW e \in rows PROVE e.seq <= m
      <3>1. e.seq <= lastSeq /\ e.seq \in Int
        BY <2>4
      <3> QED BY <2>1, <2>7, <2>8, <3>1
    <2>10. ASSUME NEW e \in Todo(p) PROVE e.seq <= m
      BY <2>2, <2>3, <2>6
    <2> QED BY <2>5, <2>6, <2>8, <2>9, <2>10
  <1>5. LedgerTyped'
    <2>1. rows' \subseteq Given /\ Given' = Given
      BY <1>1, <1>2, <1>3 DEF LedgerTyped, Given
    <2> QED BY <1>1, <1>2, <1>4, <2>1 DEF LedgerTyped
  <1>6. Todo(p)' = {}
    BY <1>2 DEF Todo
  <1> QED BY <1>2, <1>3, <1>5, <1>6

LEMMA ReinsertMirror ==
    ASSUME NEW p, MirrorAlone(p), Reinsert(p)
    PROVE  MirrorAlone(p)'
  <1>1. pc[p] = "reinserting" /\ ~Certificate /\ CertificateHolds
    BY DEF MirrorAlone, Section, Reinsert
  <1>2. CertificateHolds'
    BY <1>1, ReinsertIs DEF CertificateHolds, Certificate
  <1>3. <<>> \in Seq(Given)
    OBVIOUS
  <1> QED BY <1>1, <1>2, <1>3, ReinsertIs, NewLedger

\* Opening, closing, and reading the mirror to take it back.
LEMMA OtherUses ==
    ASSUME NEW p, MirrorAlone(p), Open(p) \/ OpenEmpty(p) \/ Rebuild(p) \/ Close(p)
    PROVE  /\ MirrorAlone(p)'
           /\ UNCHANGED <<load, rows, generation, lastSeq, committed, cleared, files, cert, mishaps>>
           /\ pc'[p] = "clearing" => Todo(p)' = OnDisk
  <1>1. p \in Procs /\ Shaped /\ SectionTyped(p) /\ committed \in Nat /\ FilesTyped /\ FragmentsClosed
    BY DEF MirrorAlone, MirrorTyped, LedgerTyped
  <1>2. /\ SortBySeq(OnDisk) \in Seq(Given)
        /\ {SortBySeq(OnDisk)[i] : i \in DOMAIN SortBySeq(OnDisk)} = OnDisk
    BY <1>1, OnDiskIs, TodoIs
  <1>3. /\ UNCHANGED <<load, rows, generation, lastSeq, committed, cleared, files, cert, mishaps>>
        /\ Shaped' /\ base'[p] = NoSegments
        /\ \/ todo'[p] = todo[p] /\ pc'[p] \in {"want", "down"}
           \/ todo'[p] = SortBySeq(OnDisk) /\ pc'[p] = "clearing"
    <2>1. pc[p] \in {"down", "idle"} => base[p] = NoSegments
      BY DEF MirrorAlone, Extended
    <2>2. CASE Open(p)
      BY <1>1, <2>1, <2>2 DEF Open, Ask, Goto, store, disk, section, Shaped
    <2>3. CASE OpenEmpty(p)
      BY <1>1, <2>1, <2>3 DEF OpenEmpty, Ask, Goto, store, disk, Shaped
    <2>4. CASE Rebuild(p)
      BY <1>1, <2>1, <2>4 DEF Rebuild, Goto, store, disk, Shaped
    <2>5. CASE Close(p)
      BY <1>1, <2>1, <2>5 DEF Close, Goto, store, disk, section, bounds, Shaped
    <2> QED BY <2>2, <2>3, <2>4, <2>5
  <1>4. SectionTyped(p)'
    <2>1. todo'[p] \in Seq(Given)
      BY <1>1, <1>2, <1>3 DEF SectionTyped
    <2>2. Line' = Line /\ Given' = Given
      BY <1>3 DEF Line, Given
    <2> QED BY <1>3, <2>1, <2>2, NoSegmentsIs DEF SectionTyped
  <1>5. MirrorAlone(p)'
    BY <1>3, <1>4, Same, Leaves DEF Captured
  <1> QED BY <1>2, <1>3, <1>5 DEF Todo

LEMMA UseMirror ==
    ASSUME NEW p, MirrorAlone(p), Use(p)
    PROVE  MirrorAlone(p)'
  BY OtherUses, AppendMirror, ClearMirror, ClearAllMirror, ReinsertMirror DEF Use

LEMMA MirrorInitAlone ==
    ASSUME NEW p, MirrorInit, p \in Procs, load.procs = {p}
    PROVE  MirrorAlone(p)
  <1>1. FilesTyped /\ FragmentsClosed /\ CertTyped /\ CertificateHolds
    BY NoSegmentsIs, FS_EmptySet DEF MirrorInit, FilesTyped, FragmentsClosed, CertTyped, CertificateHolds, Certificate
  <1>2. Shaped /\ SectionTyped(p) /\ LedgerTyped
    BY NoSegmentsIs DEF MirrorInit, Shaped, SectionTyped, LedgerTyped
  <1>3. Extended(p) /\ AtBoundary(p) /\ Section(p)
    BY DEF MirrorInit, Extended, AtBoundary, Section, Captured
  <1> QED BY <1>1, <1>2, <1>3 DEF MirrorInit, MirrorAlone, MirrorTyped

\* A step of the only process, or damage from outside.
MirrorStep(p) == LockStep(p) \/ SectionStep(p) \/ Use(p) \/ Crash(p) \/ WriteFails(p) \/ Damage

LEMMA MirrorNextAlone ==
    ASSUME NEW p, load.procs = {p}, MirrorNext
    PROVE  MirrorStep(p)
  BY DEF MirrorNext, MirrorStep

LEMMA MirrorStepAlone ==
    ASSUME NEW p, MirrorAlone(p), MirrorStep(p)
    PROVE  MirrorAlone(p)'
  BY LockStepMirror, SectionStepMirror, UseMirror, CrashMirror, WriteFailsMirror, DamageMirror DEF MirrorStep

LEMMA MirrorAloneStutters ==
    ASSUME NEW p, MirrorAlone(p), UNCHANGED mirrorVars
    PROVE  MirrorAlone(p)'
  <1>1. p \in Procs /\ Shaped /\ SectionTyped(p)
    BY DEF MirrorAlone, MirrorTyped
  <1>2. UNCHANGED <<load, rows, generation, lastSeq, files, cert, pc, op, tries, boundary, base, todo, committed>>
    BY DEF mirrorVars
  <1>3. Still(p)
    BY <1>1, <1>2 DEF Still, Shaped
  <1>4. \A e : Covered(p, e)' <=> Covered(p, e)
    BY <1>2 DEF Covered, OldSegment
  <1>5. SectionTyped(p)' /\ Extended(p)' /\ AtBoundary(p)'
    BY <1>1, <1>2, <1>3, StandingLedger DEF SectionTyped, MirrorAlone, Extended, AtBoundary
  <1>6. Section(p)'
    BY <1>2, <1>3, <1>4, StandingLedger DEF MirrorAlone, Section, Todo
  <1> QED BY <1>2, <1>3, <1>5, <1>6, Same, SectionStands

\* A certificate that is accepted, byte for byte, covers the rows it names.
LEMMA CertifiedByInvariant ==
    ASSUME NEW p, MirrorAlone(p)
    PROVE  CertifiedIsMirrored
  <1>1. committed \in Nat /\ FilesTyped /\ FragmentsClosed /\ CertificateHolds /\ rows \subseteq Given
    BY DEF MirrorAlone, MirrorTyped, LedgerTyped
  <1>2. ASSUME Verified, NEW e \in rows, e.seq <= cert.seq PROVE e \in OnDisk
    <2>1. PICK k \in DOMAIN files : e \in Lines(files[k])
      BY <1>1, <1>2 DEF Verified, CertificateHolds, Certificate
    <2>2. \E i \in DOMAIN files[k] : files[k][i] = e
      BY <2>1 DEF Lines
    <2> QED BY <1>1, <2>2, OnDiskIs
  <1> QED BY <1>2 DEF CertifiedIsMirrored

\* The only process that uses the store.
LEMMA AloneIs ==
    ASSUME load \in Loads
    PROVE  Cardinality(load.procs) = 1 => \E p \in Procs : load.procs = {p}
  <1>1. load.procs \subseteq Procs
    BY MirrorAssumption
  <1>2. IsFiniteSet(load.procs)
    BY <1>1, MirrorAssumption, FS_Subset
  <1> QED BY <1>1, <1>2, FS_Singleton

\* A behaviour keeps its load.
LEMMA LoadStays ==
    ASSUME [MirrorNext]_mirrorVars
    PROVE  load' = load
  <1>1. ASSUME NEW p, LockStep(p) PROVE load' = load
    BY <1>1 DEF LockStep, Create, WriteOwner, Blocked, ReadOwner, Steal, GiveUp, Release, store
  <1>2. ASSUME NEW p, SectionStep(p) PROVE load' = load
    BY <1>2 DEF SectionStep, Capture, Extend, Repair, CloseFragment, Rotate, WriteLine, Written, Rewrite,
       Replace, Prune, Certify, CannotCertify, store
  <1>3. ASSUME NEW p, Use(p) PROVE load' = load
    BY <1>3 DEF Use, Open, OpenEmpty, AppendEvent, Clear, Rebuild, ClearAll, Reinsert, Close, store
  <1>4. ASSUME NEW p, Crash(p) \/ WriteFails(p) PROVE load' = load
    BY <1>4 DEF Crash, WriteFails, store
  <1>5. Damage => load' = load
    BY DEF Damage, store
  <1> QED BY <1>1, <1>2, <1>3, <1>4, <1>5 DEF MirrorNext, mirrorVars

\* Every load with one process, whatever others do.
MirrorHolds == load \in Loads /\ \A p \in Procs : load.procs = {p} => MirrorAlone(p)

LEMMA MirrorHoldsAlways == MirrorSpec => []MirrorHolds
  <1>1. MirrorInit => MirrorHolds
    BY MirrorInitAlone DEF MirrorHolds, MirrorInit
  <1>2. MirrorHolds /\ [MirrorNext]_mirrorVars => MirrorHolds'
    <2> SUFFICES ASSUME MirrorHolds, [MirrorNext]_mirrorVars PROVE MirrorHolds'
      OBVIOUS
    <2>1. load' = load
      BY LoadStays
    <2>2. ASSUME NEW p \in Procs, load.procs = {p} PROVE MirrorAlone(p)'
      <3>1. MirrorAlone(p)
        BY <2>2 DEF MirrorHolds
      <3>2. CASE MirrorNext
        BY <2>2, <3>1, <3>2, MirrorNextAlone, MirrorStepAlone
      <3>3. CASE UNCHANGED mirrorVars
        BY <3>1, <3>3, MirrorAloneStutters
      <3> QED BY <3>2, <3>3
    <2> QED BY <2>1, <2>2 DEF MirrorHolds
  <1> QED BY <1>1, <1>2, PTL DEF MirrorSpec

\* When one process uses the store, a certificate that an open accepts never hides a row,
\* however it appended, cleared, rebuilt, crashed and failed, and whatever was damaged.
THEOREM CertifiedIsMirroredAlone ==
    MirrorSpec => [](Cardinality(load.procs) = 1 => CertifiedIsMirrored)
  <1>1. MirrorHolds => (Cardinality(load.procs) = 1 => CertifiedIsMirrored)
    <2> SUFFICES ASSUME MirrorHolds, Cardinality(load.procs) = 1 PROVE CertifiedIsMirrored
      OBVIOUS
    <2>1. PICK p \in Procs : load.procs = {p}
      BY AloneIs DEF MirrorHolds
    <2> QED BY <2>1, CertifiedByInvariant DEF MirrorHolds
  <1> QED BY <1>1, MirrorHoldsAlways, PTL
LEMMA LockingLockStep ==
    ASSUME NEW p, MirrorAlone(p), Locking(p), LockStep(p)
    PROVE  Locking(p)'
  <1>1. p \in Procs /\ DOMAIN pc = Procs /\ DOMAIN tries = Procs /\ p # Dead
    BY MirrorAssumption DEF MirrorAlone, MirrorTyped, Shaped
  <1>2. CASE Create(p)
    BY <1>1, <1>2 DEF Create, Locking, Goto
  <1>3. CASE WriteOwner(p)
    <2>2. pc[p] = "created" /\ pc'[p] = "locked" /\ tries' = tries
      BY <1>1, <1>3 DEF WriteOwner, Goto
    <2>3. lock # Absent => lock \in [by : {p, Dead}, written : BOOLEAN] /\ lock.by = p
      BY <2>2 DEF Locking
    <2>4. CASE lock = Absent
      BY <1>3, <2>2, <2>4 DEF WriteOwner, Locking
    <2>5. CASE lock # Absent
      <3>1. lock' = [lock EXCEPT !.written = TRUE]
        BY <1>3, <2>3, <2>5 DEF WriteOwner
      <3> QED BY <2>2, <2>3, <2>5, <3>1 DEF Locking
    <2> QED BY <2>4, <2>5
  <1>4. CASE Blocked(p)
    BY <1>1, <1>4 DEF Blocked, Locking, Goto
  <1>5. CASE ReadOwner(p)
    <2>1. Stale(lock) /\ tries[p] \in Nat /\ tries[p] >= 2
      BY <1>1, <1>5 DEF ReadOwner, Locking, Stale
    <2>2. pc'[p] = "stealing" /\ lock' = lock /\ tries'[p] = tries[p] - 1 /\ pc[p] = "blocked"
      BY <1>1, <1>5, <2>1 DEF ReadOwner, Goto
    <2> QED BY <2>1, <2>2 DEF Locking
  <1>6. CASE Steal(p)
    BY <1>1, <1>6 DEF Steal, Locking, Goto
  <1>7. CASE GiveUp(p)
    BY <1>1, <1>7 DEF GiveUp, Locking
  <1>8. CASE Release(p)
    BY <1>1, <1>8 DEF Release, Locking, Goto
  <1> QED BY <1>2, <1>3, <1>4, <1>5, <1>6, <1>7, <1>8 DEF LockStep

LEMMA LockingSectionStep ==
    ASSUME NEW p, MirrorAlone(p), Locking(p), SectionStep(p) \/ WriteFails(p)
    PROVE  Locking(p)'
  <1>1. p \in Procs /\ DOMAIN pc = Procs
    BY DEF MirrorAlone, MirrorTyped, Shaped
  <1>2. /\ lock' = lock /\ tries' = tries
        /\ pc[p] \in Captured \cup {"locked"} /\ pc'[p] \in Captured \cup {"release"}
    <2>1. CASE Capture(p)
      BY <1>1, <2>1 DEF Capture, Goto, Captured
    <2>2. CASE Extend(p)
      BY <1>1, <2>2 DEF Extend, Goto, Captured
    <2>3. CASE Repair(p)
      BY <1>1, <2>3 DEF Repair, Goto, Captured
    <2>4. CASE CloseFragment(p) \/ Rotate(p) \/ WriteLine(p) \/ Written(p)
      BY <1>1, <2>4 DEF CloseFragment, Rotate, WriteLine, Written, Goto, Captured
    <2>5. CASE Rewrite(p) \/ Replace(p) \/ Prune(p)
      BY <1>1, <2>5 DEF Rewrite, Replace, Prune, Goto, Captured
    <2>6. CASE Certify(p) \/ CannotCertify(p) \/ WriteFails(p)
      BY <1>1, <2>6 DEF Certify, CannotCertify, WriteFails, Goto, Captured
    <2> QED BY <2>1, <2>2, <2>3, <2>4, <2>5, <2>6 DEF SectionStep
  <1> QED BY <1>2 DEF Locking, Captured

LEMMA LockingOtherStep ==
    ASSUME NEW p, MirrorAlone(p), Locking(p), Undisturbed, Use(p) \/ Crash(p) \/ Damage
    PROVE  Locking(p)'
  <1>1. p \in Procs /\ DOMAIN pc = Procs /\ DOMAIN tries = Procs /\ MaxAttempts \in Nat /\ MaxAttempts >= 2
    BY MirrorAssumption DEF MirrorAlone, MirrorTyped, Shaped, Undisturbed
  <1>2. CASE Use(p)
    <2>1. /\ lock' = lock /\ pc[p] \in {"down", "idle", "clearing", "reinserting"}
          /\ \/ pc'[p] \in {"down", "clearing", "reinserting"}
             \/ pc'[p] = "want" /\ tries'[p] = MaxAttempts
      <3>1. CASE Open(p) \/ AppendEvent(p) \/ Clear(p) \/ Reinsert(p)
        BY <1>1, <3>1 DEF Open, AppendEvent, Clear, Reinsert, Ask, Goto
      <3>2. CASE OpenEmpty(p)
        BY <1>1, <3>2 DEF OpenEmpty, Ask, Goto
      <3>3. CASE Rebuild(p) \/ ClearAll(p) \/ Close(p)
        BY <1>1, <3>3 DEF Rebuild, ClearAll, Close, Goto
      <3> QED BY <1>2, <3>1, <3>2, <3>3 DEF Use
    <2> QED BY <1>1, <2>1 DEF Locking
  <1>3. CASE Crash(p)
    <2>1. pc[p] # "created" /\ pc'[p] = "down"
      BY <1>1, <1>3 DEF Crash, Goto, Undisturbed
    <2>2. \/ lock' = lock /\ ~(lock # Absent /\ lock.by = p)
          \/ lock # Absent /\ lock.by = p /\ lock' = [lock EXCEPT !.by = Dead]
      BY <1>3 DEF Crash
    <2>3. CASE lock' = lock /\ ~(lock # Absent /\ lock.by = p)
      BY <2>1, <2>3 DEF Locking
    <2>4. CASE lock # Absent /\ lock.by = p /\ lock' = [lock EXCEPT !.by = Dead]
      <3>1. lock.written /\ lock \in [by : {p, Dead}, written : BOOLEAN]
        BY <2>1, <2>4 DEF Locking
      <3>2. lock'.written /\ lock'.by = Dead /\ lock' \in [by : {p, Dead}, written : BOOLEAN]
        BY <2>4, <3>1
      <3> QED BY <2>1, <3>2 DEF Locking
    <2> QED BY <2>2, <2>3, <2>4
  <1>4. CASE Damage
    BY <1>4 DEF Damage, Locking
  <1> QED BY <1>2, <1>3, <1>4
Mishaps == {"crash", "write", "damage"}

\* The invariant of a store that its lock does not fail.
MirrorSure(p) == MirrorAlone(p) /\ Undisturbed /\ mishaps \in Seq(Mishaps) /\ Locking(p) /\ Kept(p)

\* What is covered, and extends what is there, is there.
LEMMA CoveredIsOnDisk ==
    ASSUME NEW p, MirrorAlone(p), pc[p] \in {"extending", "writing", "certifying"}, PrefixKept(p),
           NEW e \in rows, Covered(p, e)
    PROVE  e \in OnDisk
  <1>1. committed \in Nat /\ FilesTyped /\ FragmentsClosed /\ SectionTyped(p) /\ Extended(p) /\ e \in Given
    BY DEF MirrorAlone, MirrorTyped, LedgerTyped
  <1>2. \E k \in DOMAIN files : \E i \in DOMAIN files[k] : files[k][i] = e
    <2>1. CASE \E k \in DOMAIN base[p] : e \in Lines(base[p][k])
      <3>1. PICK k \in DOMAIN base[p] : e \in Lines(base[p][k])
        BY <2>1
      <3>2. PICK i \in DOMAIN base[p][k] : base[p][k][i] = e
        BY <3>1 DEF Lines
      <3>3. k \in DOMAIN files /\ files[k] \in Seq(Line) /\ base[p][k] \in Seq(Line) /\ Len(base[p][k]) <= Len(files[k])
        BY <1>1 DEF Extended, FilesTyped, SectionTyped
      <3>4. i \in DOMAIN files[k] /\ files[k][i] = e
        BY <3>2, <3>3 DEF PrefixKept
      <3> QED BY <3>3, <3>4
    <2> QED BY <2>1 DEF Covered
  <1> QED BY <1>1, <1>2, OnDiskIs

\* A step does not repair what others broke.
LEMMA StaysClean ==
    ASSUME UNCHANGED mishaps
    PROVE  Clean' <=> Clean
  BY DEF Clean, HasHappened

LEMMA AppendIs ==
    ASSUME NEW S, NEW s \in Seq(S), NEW x \in S
    PROVE  /\ Append(s, x) \in Seq(S) /\ Len(s) + 1 \in DOMAIN Append(s, x) /\ Append(s, x)[Len(s) + 1] = x
           /\ \A i \in DOMAIN s : i \in DOMAIN Append(s, x) /\ Append(s, x)[i] = s[i]
  OBVIOUS

LEMMA FailureIsNoted ==
    ASSUME NEW kind, mishaps' = Append(mishaps, kind), mishaps \in Seq(Mishaps), kind \in Mishaps
    PROVE  /\ Clean' => Clean
           /\ kind \in {"write", "damage"} => ~Clean'
           /\ mishaps' \in Seq(Mishaps)
  <1>1. /\ Len(mishaps) + 1 \in DOMAIN mishaps' /\ mishaps'[Len(mishaps) + 1] = kind
        /\ \A i \in DOMAIN mishaps : i \in DOMAIN mishaps' /\ mishaps'[i] = mishaps[i]
        /\ mishaps' \in Seq(Mishaps)
    BY AppendIs
  <1> QED BY <1>1 DEF Clean, HasHappened

LEMMA KeptLockStep ==
    ASSUME NEW p, MirrorSure(p), LockStep(p)
    PROVE  Kept(p)'
  <1>1. p \in Procs /\ DOMAIN pc = Procs /\ DOMAIN tries = Procs
    BY DEF MirrorSure, MirrorAlone, MirrorTyped, Shaped
  <1>2. UNCHANGED <<rows, generation, lastSeq, committed, files, cert, op, mishaps>>
    BY DEF LockStep, Create, WriteOwner, Blocked, ReadOwner, Steal, GiveUp, Release, store, disk, bounds
  <1>3. OnDisk' = OnDisk /\ (Clean' <=> Clean) /\ (Sure(p)' <=> Sure(p))
    BY <1>2, Same, StaysClean DEF MirrorSure, Sure
  <1>4. \/ pc[p] \in Queued /\ pc'[p] \in Queued
        \/ pc[p] = "release" /\ pc'[p] = "idle"
    <2>1. ~GiveUp(p)
      BY DEF MirrorSure, Locking, GiveUp
    <2> QED BY <1>1, <2>1 DEF LockStep, Create, WriteOwner, Blocked, ReadOwner, Steal, Release, Goto, Queued
  <1> QED BY <1>2, <1>3, <1>4 DEF MirrorSure, Kept, Queued

\* What a step leaves of the prefix when it only adds.
LEMMA GrowsKeeps ==
    ASSUME NEW p, MirrorAlone(p), pc[p] = "writing", Grows, base' = base, PrefixKept(p)
    PROVE  PrefixKept(p)'
  <1>1. ASSUME NEW k \in DOMAIN base[p], NEW i \in DOMAIN base[p][k] PROVE files'[k][i] = base[p][k][i]
    <2>1. k \in DOMAIN files /\ Len(base[p][k]) <= Len(files[k])
      BY DEF MirrorAlone, Extended
    <2>2. base[p][k] \in Seq(Line) /\ files[k] \in Seq(Line)
      BY <2>1 DEF MirrorAlone, MirrorTyped, SectionTyped, FilesTyped
    <2>3. i \in DOMAIN files[k] /\ files[k][i] = base[p][k][i]
      BY <2>1, <2>2 DEF PrefixKept
    <2> QED BY <2>1, <2>3 DEF Grows
  <1> QED BY <1>1 DEF PrefixKept

LEMMA RotateKeeps ==
    ASSUME NEW p, MirrorAlone(p), Rotate(p)
    PROVE  /\ PrefixKept(p) => PrefixKept(p)'
           /\ OnDisk' = OnDisk
  <1>1. PICK free \in Nat :
             /\ free \notin DOMAIN files /\ free # Active /\ Active \in DOMAIN files
             /\ DOMAIN files' = (DOMAIN files \ {Active}) \cup {free}
             /\ files' = [k \in DOMAIN files' |-> files'[k]]
             /\ files'[free] = files[Active]
             /\ \A k \in DOMAIN files \ {Active} : files'[k] = files[k]
             /\ Active \in DOMAIN base[p] =>
                    /\ DOMAIN base'[p] = (DOMAIN base[p] \ {Active}) \cup {free}
                    /\ base'[p] = [k \in DOMAIN base'[p] |-> base'[p][k]]
                    /\ base'[p][free] = base[p][Active]
                    /\ \A k \in DOMAIN base[p] \ {Active} : k # free => base'[p][k] = base[p][k]
             /\ Active \notin DOMAIN base[p] => base'[p] = base[p]
    BY RotateIs
  <1>2. DOMAIN base[p] \subseteq DOMAIN files
    BY DEF MirrorAlone, Extended, Rotate
  <1>3. ASSUME PrefixKept(p), NEW k \in DOMAIN base'[p], NEW i \in DOMAIN base'[p][k]
        PROVE  files'[k][i] = base'[p][k][i]
    <2>1. CASE Active \in DOMAIN base[p] /\ k = free
      BY <1>1, <1>3, <2>1 DEF PrefixKept
    <2>2. CASE Active \in DOMAIN base[p] /\ k # free
      BY <1>1, <1>2, <1>3, <2>2 DEF PrefixKept
    <2>3. CASE Active \notin DOMAIN base[p]
      BY <1>1, <1>2, <1>3, <2>3 DEF PrefixKept
    <2> QED BY <2>1, <2>2, <2>3
  <1>4. PrefixKept(p) => PrefixKept(p)'
    BY <1>3 DEF PrefixKept
  <1>5. {EventsIn(files'[k]) : k \in DOMAIN files'} = {EventsIn(files[k]) : k \in DOMAIN files}
    BY <1>1
  <1> QED BY <1>4, <1>5 DEF OnDisk

LEMMA KeptCapture ==
    ASSUME NEW p, MirrorSure(p), Capture(p)
    PROVE  Kept(p)'
  <1>1. p \in Procs /\ Shaped /\ base[p] = NoSegments /\ MirrorAlone(p) /\ pc[p] = "locked"
    BY DEF MirrorSure, MirrorAlone, MirrorTyped, Extended, Capture
  <1>2. UNCHANGED <<rows, generation, lastSeq, committed, files, cert, op, mishaps>>
    BY DEF Capture, store, disk, bounds
  <1>3. OnDisk' = OnDisk /\ (Clean' <=> Clean) /\ (Sure(p)' <=> Sure(p))
    BY <1>1, <1>2, Same, StaysClean DEF Sure
  <1>4. CASE pc'[p] = "extending"
    <2>1. Trusted(p) /\ base'[p] = cert.files /\ op[p] \in {"verify", "mirror"}
      BY <1>1, <1>4 DEF Capture, Goto, Shaped
    <2>2. Sure(p) => cert.files = files
      <3>1. op[p] = "verify" => cert.files = files
        BY <1>1, <2>1, TrustedIs DEF Verified
      <3>2. Clean /\ op[p] = "mirror" => cert.files = files
        BY <1>1, <2>1, TrustedIs DEF MirrorSure, Kept, Queued, Certificate
      <3> QED BY <2>1, <3>1, <3>2 DEF Sure
    <2>3. Sure(p) => PrefixKept(p)'
      BY <1>2, <2>1, <2>2 DEF PrefixKept
    <2> QED BY <1>2, <1>3, <1>4, <2>2, <2>3 DEF Kept, Queued
  <1>5. CASE pc'[p] = "release"
    <2>1. Verified /\ cert.seq = TopSeq
      BY <1>1, <1>5 DEF Capture, Goto, Shaped, Trusted
    <2>2. \A e \in rows : e.seq <= TopSeq
      BY <1>1, TopIs DEF MirrorAlone, MirrorTyped
    <2>3. rows \subseteq OnDisk
      BY <1>1, <2>1, <2>2, CertifiedByInvariant DEF CertifiedIsMirrored
    <2> QED BY <1>2, <1>3, <1>5, <2>1, <2>3 DEF Kept, Verified
  <1>6. CASE pc'[p] \in {"rewriting", "repairing"}
    BY <1>6 DEF Kept, Queued
  <1>7. pc'[p] \in {"extending", "release", "rewriting", "repairing"}
    BY <1>1 DEF Capture, Goto, Shaped
  <1> QED BY <1>4, <1>5, <1>6, <1>7

\* A certificate over a prefix that is still there is one of the mirror as it is.
LEMMA KeptCertify ==
    ASSUME NEW p, MirrorSure(p), Certify(p)
    PROVE  Kept(p)'
  <1>1. p \in Procs /\ Shaped /\ SectionTyped(p) /\ Extended(p) /\ FilesTyped /\ MirrorAlone(p) /\ pc[p] = "certifying"
    BY DEF MirrorSure, MirrorAlone, MirrorTyped, Certify
  <1>2. UNCHANGED <<rows, files, op, mishaps>> /\ pc'[p] = "release"
    BY <1>1 DEF Certify, store, bounds, Goto, Shaped
  <1>3. OnDisk' = OnDisk /\ (Clean' <=> Clean) /\ (Sure(p)' <=> Sure(p))
    BY <1>2, StaysClean DEF Sure, OnDisk
  <1>4. ASSUME Sure(p) PROVE rows \subseteq OnDisk /\ cert'.files = files
    <2>1. PrefixKept(p)
      BY <1>1, <1>4 DEF MirrorSure, Kept
    <2>2. rows \subseteq OnDisk
      BY <1>1, <2>1, CoveredIsOnDisk DEF MirrorAlone, Section
    <2>3. ASSUME NEW k \in DOMAIN files, k \in DOMAIN base[p] PROVE Digest(files[k], base[p][k]) = files[k]
      <3>1. files[k] \in Seq(Line) /\ base[p][k] \in Seq(Line) /\ Extends(files[k], base[p][k])
        BY <1>1, <2>3 DEF FilesTyped, SectionTyped, Certify, OldSegment
      <3>2. /\ Digest(files[k], base[p][k]) \in Seq(Line) /\ Len(Digest(files[k], base[p][k])) = Len(files[k])
            /\ Len(base[p][k]) <= Len(files[k])
            /\ \A i \in 1..Len(base[p][k]) : Digest(files[k], base[p][k])[i] = base[p][k][i]
            /\ \A i \in 1..Len(files[k]) : i > Len(base[p][k]) => Digest(files[k], base[p][k])[i] = files[k][i]
        BY <3>1, DigestIs
      <3>3. \A i \in 1..Len(base[p][k]) : base[p][k][i] = files[k][i]
        BY <2>1, <2>3, <3>1 DEF PrefixKept
      <3>4. \A i \in 1..Len(files[k]) : Digest(files[k], base[p][k])[i] = files[k][i]
        BY <3>1, <3>2, <3>3
      <3> QED BY <3>1, <3>2, <3>4
    <2>4. cert'.files = [k \in DOMAIN files |-> files[k]]
      <3>1. cert'.files = [k \in DOMAIN files |->
                             IF k \in DOMAIN base[p] THEN Digest(files[k], base[p][k]) ELSE files[k]]
        BY DEF Certify
      <3> QED BY <2>3, <3>1
    <2>5. files = [k \in DOMAIN files |-> files[k]]
      BY <1>1 DEF FilesTyped
    <2> QED BY <2>2, <2>4, <2>5
  <1> QED BY <1>2, <1>3, <1>4 DEF Kept, Sure

LEMMA KeptCannotCertify ==
    ASSUME NEW p, MirrorSure(p), CannotCertify(p)
    PROVE  Kept(p)'
  <1>1. p \in Procs /\ Shaped /\ SectionTyped(p) /\ Extended(p) /\ FilesTyped /\ MirrorAlone(p) /\ pc[p] = "certifying"
    BY DEF MirrorSure, MirrorAlone, MirrorTyped, CannotCertify
  <1>2. op'[p] # "verify" /\ mishaps' = mishaps /\ pc'[p] = "release"
    BY <1>1 DEF CannotCertify, Unrepaired, bounds, Goto, Shaped
  <1>3. SameGeneration(p)
    BY <1>1 DEF MirrorAlone, AtBoundary, Captured, SameGeneration
  <1>4. ASSUME Sure(p), NEW k \in DOMAIN files PROVE Extends(files[k], OldSegment(p, k))
    <2>1. PrefixKept(p)
      BY <1>1, <1>4 DEF MirrorSure, Kept
    <2>2. CASE k \in DOMAIN base[p]
      <3>1. OldSegment(p, k) = base[p][k] /\ base[p][k] \in Seq(Line) /\ files[k] \in Seq(Line)
            /\ Len(base[p][k]) <= Len(files[k])
        BY <1>1, <2>2 DEF OldSegment, SectionTyped, FilesTyped, Extended
      <3>2. Completed(base[p][k]) \in Nat
        <4>1. ChunkLines \in Nat \ {0}
          BY MirrorAssumption
        <4>2. Len(base[p][k]) \in Nat
          BY <3>1
        <4>3. \A n \in Nat, m \in Nat \ {0} : (n \div m) * m \in Nat
          OBVIOUS
        <4> QED BY <4>1, <4>2, <4>3 DEF Completed
      <3>3. ASSUME NEW i \in (Completed(base[p][k]) + 1)..Len(base[p][k]) PROVE files[k][i] = base[p][k][i]
        <4>1. i \in DOMAIN base[p][k]
          BY <3>1, <3>2
        <4> QED BY <2>1, <2>2, <4>1 DEF PrefixKept
      <3> QED BY <3>1, <3>3 DEF Extends
    <2>3. CASE k \notin DOMAIN base[p]
      <3>1. OldSegment(p, k) = <<>> /\ Len(files[k]) \in Nat
        BY <1>1, <2>3 DEF OldSegment, FilesTyped
      <3>2. Completed(<<>>) = 0
        <4>1. ChunkLines \in Nat \ {0}
          BY MirrorAssumption
        <4>2. \A m \in Nat \ {0} : (0 \div m) * m = 0
          OBVIOUS
        <4> QED BY <4>1, <4>2 DEF Completed
      <3> QED BY <3>1, <3>2 DEF Extends
    <2> QED BY <2>2, <2>3
  <1>5. ~Sure(p)
    BY <1>3, <1>4 DEF CannotCertify
  <1> QED BY <1>2, <1>5, StaysClean DEF Kept, Sure
LEMMA KeptWriting ==
    ASSUME NEW p, MirrorSure(p),
           Extend(p) \/ Repair(p) \/ CloseFragment(p) \/ Rotate(p) \/ WriteLine(p) \/ Written(p)
           \/ Rewrite(p) \/ Replace(p) \/ Prune(p)
    PROVE  Kept(p)'
  <1>1. p \in Procs /\ Shaped /\ MirrorAlone(p) /\ Extended(p)
    BY DEF MirrorSure, MirrorAlone, MirrorTyped
  <1>2. /\ UNCHANGED <<op, mishaps>>
        /\ pc[p] \in Captured /\ pc'[p] \in Captured \ {"extending"}
    <2>1. CASE Extend(p) \/ Repair(p)
      BY <1>1, <2>1 DEF Extend, Repair, bounds, Goto, Captured, Shaped
    <2>2. CASE CloseFragment(p) \/ Rotate(p) \/ WriteLine(p) \/ Written(p)
      BY <1>1, <2>2 DEF CloseFragment, Rotate, WriteLine, Written, bounds, Goto, Captured, Shaped
    <2>3. CASE Rewrite(p) \/ Replace(p) \/ Prune(p)
      BY <1>1, <2>3 DEF Rewrite, Replace, Prune, bounds, Goto, Captured, Shaped
    <2> QED BY <2>1, <2>2, <2>3
  <1>3. (Clean' <=> Clean) /\ (Sure(p)' <=> Sure(p))
    BY <1>2, StaysClean DEF Sure
  <1>4. Sure(p) /\ pc'[p] \in {"writing", "certifying"} => PrefixKept(p)'
    <2>1. CASE Extend(p) \/ Written(p)
      <3>1. pc[p] \in {"extending", "writing"} /\ UNCHANGED <<base, files>>
        BY <2>1 DEF Extend, Written, disk, section
      <3> QED BY <3>1 DEF MirrorSure, Kept, PrefixKept
    <2>2. CASE Repair(p) \/ Rewrite(p) \/ Replace(p) \/ Prune(p)
      <3>1. pc[p] \notin {"extending", "writing", "certifying", "release"} /\ base' = base
        BY <2>2 DEF Repair, Rewrite, Replace, Prune, section
      <3>2. base'[p] = NoSegments
        BY <1>1, <3>1 DEF Extended
      <3> QED BY <3>2, NoSegmentsIs DEF PrefixKept
    <2>3. CASE CloseFragment(p)
      <3>1. pc[p] = "writing" /\ base' = base /\ WithLine(NewLine)
        BY <2>3, FragmentClosed DEF CloseFragment, section
      <3>2. Grows
        <4>1. committed \in Nat /\ FilesTyped /\ FragmentsClosed /\ NewLine \in Line /\ NewLine.id = 0 /\ committed' = committed
          BY <1>1, <2>3 DEF MirrorAlone, MirrorTyped, LedgerTyped, Line, NewLine, CloseFragment, store
        <4> QED BY <3>1, <4>1, LineAdded
      <3> QED BY <1>1, <3>1, <3>2, GrowsKeeps DEF MirrorSure, Kept
    <2>4. CASE WriteLine(p)
      <3>1. pc[p] = "writing" /\ base' = base
        BY <2>4 DEF WriteLine
      <3>2. Grows
        <4>1. /\ committed \in Nat /\ FilesTyped /\ FragmentsClosed /\ committed' = committed
              /\ todo[p] \in Seq(Given) /\ todo[p] # <<>> /\ ~EndsWithFrag /\ WithLine(Head(todo[p]))
          BY <1>1, <2>4 DEF MirrorAlone, MirrorTyped, LedgerTyped, SectionTyped, WriteLine, store
        <4>2. Head(todo[p]) \in Line
          BY <4>1, HeadAndTail, GivenIs
        <4> QED BY <4>1, <4>2, LineAdded
      <3> QED BY <1>1, <3>1, <3>2, GrowsKeeps DEF MirrorSure, Kept
    <2>5. CASE Rotate(p)
      <3>1. pc[p] = "writing"
        BY <2>5 DEF Rotate
      <3> QED BY <1>1, <2>5, <3>1, RotateKeeps DEF MirrorSure, Kept
    <2> QED BY <2>1, <2>2, <2>3, <2>4, <2>5
  <1> QED BY <1>2, <1>3, <1>4 DEF Kept, Captured, Queued

LEMMA KeptUse ==
    ASSUME NEW p, MirrorSure(p), Use(p)
    PROVE  Kept(p)' /\ mishaps' = mishaps
  <1>1. p \in Procs /\ Shaped /\ MirrorAlone(p)
    BY DEF MirrorSure, MirrorAlone, MirrorTyped
  <1>2. /\ UNCHANGED <<files, cert, mishaps>>
        /\ \/ pc'[p] \in {"clearing", "reinserting", "down"}
           \/ pc'[p] = "want" /\ op'[p] # "mirror"
           \/ pc'[p] = "want" /\ pc[p] = "idle"
    <2>1. CASE Open(p) \/ AppendEvent(p) \/ Clear(p) \/ Reinsert(p)
      BY <1>1, <2>1 DEF Open, AppendEvent, Clear, Reinsert, Ask, Goto, disk, Shaped
    <2>2. CASE OpenEmpty(p)
      BY <1>1, <2>2 DEF OpenEmpty, Ask, Goto, disk, Shaped
    <2>3. CASE Rebuild(p) \/ ClearAll(p) \/ Close(p)
      BY <1>1, <2>3 DEF Rebuild, ClearAll, Close, Goto, disk, bounds, Shaped
    <2> QED BY <2>1, <2>2, <2>3 DEF Use
  <1>3. Clean' <=> Clean
    BY <1>2, StaysClean
  <1> QED BY <1>2, <1>3 DEF MirrorSure, Kept, Queued

LEMMA KeptFailure ==
    ASSUME NEW p, MirrorSure(p), Crash(p) \/ WriteFails(p) \/ Damage
    PROVE  Kept(p)' /\ mishaps' \in Seq(Mishaps) /\ (Clean' => Clean)
  <1>1. p \in Procs /\ Shaped /\ MirrorAlone(p) /\ mishaps \in Seq(Mishaps)
    BY DEF MirrorSure, MirrorAlone, MirrorTyped
  <1>2. CASE Crash(p)
    <2>1. pc'[p] = "down" /\ mishaps' = Append(mishaps, "crash")
      BY <1>1, <1>2 DEF Crash, Goto, Shaped
    <2> QED BY <1>1, <2>1, FailureIsNoted DEF Mishaps, Kept, Queued
  <1>3. CASE WriteFails(p)
    <2>1. pc'[p] = "release" /\ mishaps' = Append(mishaps, "write") /\ op'[p] # "verify"
      BY <1>1, <1>3 DEF WriteFails, Unrepaired, Goto, Shaped
    <2> QED BY <1>1, <2>1, FailureIsNoted DEF Mishaps, Kept, Sure
  <1>4. CASE Damage
    <2>1. pc'[p] = "down" /\ mishaps' = Append(mishaps, "damage")
      BY <1>1, <1>4 DEF Damage
    <2> QED BY <1>1, <2>1, FailureIsNoted DEF Mishaps, Kept, Queued
  <1> QED BY <1>2, <1>3, <1>4

LEMMA MirrorSureStep ==
    ASSUME NEW p, MirrorSure(p), MirrorStep(p), load' = load
    PROVE  MirrorSure(p)' /\ (Clean' => Clean)
  <1>1. MirrorAlone(p) /\ Locking(p) /\ Undisturbed /\ mishaps \in Seq(Mishaps)
    BY DEF MirrorSure
  <1>2. MirrorAlone(p)' /\ Undisturbed'
    BY <1>1, MirrorStepAlone DEF Undisturbed
  <1>3. CASE LockStep(p)
    <2>1. mishaps' = mishaps
      BY <1>3 DEF LockStep, Create, WriteOwner, Blocked, ReadOwner, Steal, GiveUp, Release, bounds
    <2> QED BY <1>1, <1>2, <1>3, <2>1, LockingLockStep, KeptLockStep, StaysClean DEF MirrorSure
  <1>4. CASE SectionStep(p)
    <2>1. mishaps' = mishaps
      BY <1>4 DEF SectionStep, Capture, Extend, Repair, CloseFragment, Rotate, WriteLine, Written, Rewrite,
         Replace, Prune, Certify, CannotCertify, bounds
    <2>2. Kept(p)'
      BY <1>4, KeptCapture, KeptWriting, KeptCertify, KeptCannotCertify DEF SectionStep
    <2> QED BY <1>1, <1>2, <1>4, <2>1, <2>2, LockingSectionStep, StaysClean DEF MirrorSure
  <1>5. CASE Use(p)
    BY <1>1, <1>2, <1>5, LockingOtherStep, KeptUse, StaysClean DEF MirrorSure
  <1>6. CASE Crash(p) \/ Damage
    BY <1>1, <1>2, <1>6, LockingOtherStep, KeptFailure DEF MirrorSure
  <1>7. CASE WriteFails(p)
    BY <1>1, <1>2, <1>7, LockingSectionStep, KeptFailure DEF MirrorSure
  <1> QED BY <1>3, <1>4, <1>5, <1>6, <1>7 DEF MirrorStep

LEMMA MirrorSureInit ==
    ASSUME NEW p, MirrorInit, p \in Procs, load.procs = {p}, Undisturbed
    PROVE  MirrorSure(p)
  <1>1. Locking(p) /\ Kept(p) /\ mishaps \in Seq(Mishaps)
    BY DEF MirrorInit, Locking, Kept, Queued
  <1> QED BY <1>1, MirrorInitAlone DEF MirrorSure

LEMMA MirrorSureStutters ==
    ASSUME NEW p, MirrorSure(p), UNCHANGED mirrorVars
    PROVE  MirrorSure(p)'
  <1>1. UNCHANGED <<load, rows, generation, lastSeq, files, cert, lock, pc, op, tries, base, committed, mishaps>>
    BY DEF mirrorVars
  <1>2. MirrorAlone(p)' /\ OnDisk' = OnDisk
    BY <1>1, MirrorAloneStutters DEF MirrorSure, OnDisk
  <1>3. Locking(p)' /\ Undisturbed' /\ (Clean' <=> Clean)
    BY <1>1, StaysClean DEF MirrorSure, Locking, Undisturbed
  <1>4. Kept(p)'
    BY <1>1, <1>2, <1>3 DEF MirrorSure, Kept, Sure, PrefixKept
  <1> QED BY <1>1, <1>2, <1>3, <1>4 DEF MirrorSure

\* Every load with one process that is not disturbed.
SureHolds == load \in Loads /\ \A p \in Procs : load.procs = {p} /\ Undisturbed => MirrorSure(p)

LEMMA SureHoldsAlways == MirrorSpec => []SureHolds
  <1>1. MirrorInit => SureHolds
    BY MirrorSureInit DEF SureHolds, MirrorInit
  <1>2. SureHolds /\ [MirrorNext]_mirrorVars => SureHolds'
    <2> SUFFICES ASSUME SureHolds, [MirrorNext]_mirrorVars PROVE SureHolds'
      OBVIOUS
    <2>1. load' = load
      BY LoadStays
    <2>2. ASSUME NEW p \in Procs, load.procs = {p}, Undisturbed PROVE MirrorSure(p)'
      <3>1. MirrorSure(p)
        BY <2>2 DEF SureHolds
      <3>2. CASE MirrorNext
        BY <2>1, <2>2, <3>1, <3>2, MirrorNextAlone, MirrorSureStep
      <3>3. CASE UNCHANGED mirrorVars
        BY <3>1, <3>3, MirrorSureStutters
      <3> QED BY <3>2, <3>3
    <2> QED BY <2>1, <2>2 DEF SureHolds, Undisturbed
  <1> QED BY <1>1, <1>2, PTL DEF MirrorSpec

\* Only one process does anything.
LEMMA OthersRest ==
    ASSUME NEW p, MirrorStep(p), DOMAIN pc = Procs
    PROVE  DOMAIN pc' = Procs /\ \A q \in Procs \ {p} : pc'[q] = pc[q]
  <1>1. CASE LockStep(p)
    BY <1>1 DEF LockStep, Create, WriteOwner, Blocked, ReadOwner, Steal, GiveUp, Release, Goto
  <1>2. CASE SectionStep(p)
    BY <1>2 DEF SectionStep, Capture, Extend, Repair, CloseFragment, Rotate, WriteLine, Written, Rewrite,
       Replace, Prune, Certify, CannotCertify, Goto
  <1>3. CASE Use(p)
    BY <1>3 DEF Use, Open, OpenEmpty, AppendEvent, Clear, Rebuild, ClearAll, Reinsert, Close, Ask, Goto
  <1>4. CASE Crash(p) \/ WriteFails(p) \/ Damage
    BY <1>4 DEF Crash, WriteFails, Damage, Goto
  <1> QED BY <1>1, <1>2, <1>3, <1>4 DEF MirrorStep

OthersDown == \A p \in Procs : load.procs = {p} => DOMAIN pc = Procs /\ \A q \in Procs \ {p} : pc[q] = "down"

LEMMA OthersDownAlways == MirrorSpec => []OthersDown
  <1>1. MirrorInit => OthersDown
    BY DEF MirrorInit, OthersDown
  <1>2. OthersDown /\ [MirrorNext]_mirrorVars => OthersDown'
    <2> SUFFICES ASSUME OthersDown, [MirrorNext]_mirrorVars PROVE OthersDown'
      OBVIOUS
    <2>1. load' = load
      BY LoadStays
    <2>2. ASSUME NEW p \in Procs, load.procs = {p} PROVE DOMAIN pc' = Procs /\ \A q \in Procs \ {p} : pc'[q] = "down"
      <3>1. DOMAIN pc = Procs /\ \A q \in Procs \ {p} : pc[q] = "down"
        BY <2>2 DEF OthersDown
      <3>2. CASE MirrorNext
        BY <2>2, <3>1, <3>2, MirrorNextAlone, OthersRest
      <3>3. CASE UNCHANGED mirrorVars
        BY <3>1, <3>3 DEF mirrorVars
      <3> QED BY <3>2, <3>3
    <2> QED BY <2>1, <2>2 DEF OthersDown
  <1> QED BY <1>1, <1>2, PTL DEF MirrorSpec

\* When one process uses the store and does not die between creating the lock file and
\* writing its name into it, an open that comes to its end, reporting no failure, leaves
\* every canonical row mirrored, whatever died, failed or was damaged before.
THEOREM OpenRepairsAlone ==
    MirrorSpec => [](Cardinality(load.procs) = 1 /\ "created" \notin load.crashAt /\ MaxAttempts >= 2 => OpenRepairs)
  <1>1. SureHolds /\ OthersDown
            => (Cardinality(load.procs) = 1 /\ "created" \notin load.crashAt /\ MaxAttempts >= 2 => OpenRepairs)
    <2> SUFFICES ASSUME SureHolds, OthersDown, Cardinality(load.procs) = 1, Undisturbed PROVE OpenRepairs
      BY DEF Undisturbed
    <2>1. PICK p \in Procs : load.procs = {p}
      BY AloneIs DEF SureHolds
    <2>2. pc[p] = "idle" /\ op[p] = "verify" => rows \subseteq OnDisk
      BY <2>1 DEF SureHolds, MirrorSure, Kept, Sure
    <2> QED BY <2>1, <2>2 DEF OpenRepairs, OthersDown
  <1> QED BY <1>1, SureHoldsAlways, OthersDownAlways, PTL
-----------------------------------------------------------------------------
(* What is committed is kept *)

\* Steps that leave the ledger and the mirror alone, and have nothing to write yet.
LEMMA SavedQuiet ==
    ASSUME NEW p, Saved(p), UNCHANGED <<rows, generation, committed, cleared, files, cert, mishaps>>,
           pc'[p] \notin {"writing", "clearing", "reinserting"},
           pc[p] \notin {"down", "clearing", "reinserting"} \/ pc'[p] = "down"
    PROVE  Saved(p)'
  <1>1. OnDisk' = OnDisk /\ (Clean' <=> Clean) /\ (Certificate' <=> Certificate)
    BY StaysClean DEF OnDisk, Certificate
  <1>2. Rereading(p)'
    BY <1>1 DEF Saved, Rereading
  <1>3. Clean => WritesNew(p)' /\ HasActive' /\ Survives(p)'
    BY <1>1 DEF Saved, WritesNew, HasActive, Survives
  <1> QED BY <1>1, <1>2, <1>3 DEF Saved

\* Steps of a section that work on the mirror.
LEMMA SavedWorking ==
    ASSUME NEW p, Saved(p), UNCHANGED <<rows, generation, committed, cleared, cert, mishaps>>,
           pc[p] \in Captured, pc'[p] \in Captured, pc[p] # "down",
           Clean => WritesNew(p)',
           Clean => Active \in DOMAIN files' \/ ~(rows \subseteq OnDisk')
    PROVE  Saved(p)'
  <1>1. (Clean' <=> Clean) /\ (Certificate' <=> Certificate)
    BY StaysClean DEF Certificate
  <1>2. Rereading(p)'
    BY <1>1 DEF Saved, Rereading, Captured
  <1>3. Clean => HasActive' /\ Survives(p)'
    BY <1>1 DEF Saved, HasActive, Survives, Captured
  <1> QED BY <1>1, <1>2, <1>3 DEF Saved

LEMMA SavedLockStep ==
    ASSUME NEW p, MirrorSure(p), Saved(p), LockStep(p)
    PROVE  Saved(p)'
  <1>1. p \in Procs /\ DOMAIN pc = Procs
    BY DEF MirrorSure, MirrorAlone, MirrorTyped, Shaped
  <1>2. UNCHANGED <<rows, generation, committed, cleared, files, cert, mishaps>>
    BY DEF LockStep, Create, WriteOwner, Blocked, ReadOwner, Steal, GiveUp, Release, store, disk, bounds
  <1>3. pc[p] \notin {"down", "clearing", "reinserting"} /\ pc'[p] \notin {"writing", "clearing", "reinserting"}
    BY <1>1 DEF LockStep, Create, WriteOwner, Blocked, ReadOwner, Steal, GiveUp, Release, Goto
  <1> QED BY <1>2, <1>3, SavedQuiet

\* The events a section has to write are rows the mirror does not have.
LEMMA SavedTodo ==
    ASSUME NEW p, MirrorSure(p), Saved(p), UNCHANGED <<rows, generation, committed, cleared, files, cert, mishaps>>,
           pc[p] \in Captured, pc'[p] = "writing",
           NEW S, S \subseteq rows, todo'[p] = SortBySeq(S), Clean => S \cap OnDisk = {}
    PROVE  Saved(p)'
  <1>1. committed \in Nat /\ S \subseteq Given
    BY DEF MirrorSure, MirrorAlone, MirrorTyped, LedgerTyped
  <1>2. /\ Todo(p)' = S
        /\ \A i, j \in DOMAIN todo'[p] : todo'[p][i] = todo'[p][j] => i = j
    BY <1>1, TodoIs DEF Todo
  <1>3. OnDisk' = OnDisk /\ (Clean' <=> Clean) /\ (Certificate' <=> Certificate)
    BY StaysClean DEF OnDisk, Certificate
  <1>4. Clean => WritesNew(p)'
    BY <1>2, <1>3 DEF WritesNew
  <1>5. Rereading(p)'
    BY <1>3 DEF Saved, Rereading
  <1>6. Clean => HasActive' /\ Survives(p)'
    BY <1>3 DEF Saved, HasActive, Survives, Captured
  <1> QED BY <1>3, <1>4, <1>5, <1>6 DEF Saved

LEMMA SavedExtend ==
    ASSUME NEW p, MirrorSure(p), Saved(p), Extend(p)
    PROVE  Saved(p)'
  <1> DEFINE S == {e \in rows : e.seq > cert.seq /\ e.seq <= boundary[p].seq}
  <1>1. /\ p \in Procs /\ Shaped /\ MirrorAlone(p) /\ pc[p] = "extending"
        /\ committed \in Nat /\ FilesTyped /\ FragmentsClosed /\ rows \subseteq Given
    BY DEF MirrorSure, MirrorAlone, MirrorTyped, LedgerTyped, Extend
  <1>2. /\ UNCHANGED <<rows, generation, committed, cleared, files, cert, mishaps>>
        /\ todo'[p] = SortBySeq(S) /\ pc'[p] = "writing"
    BY <1>1 DEF Extend, store, disk, bounds, Goto, Shaped
  <1>3. ASSUME Clean, NEW e \in S PROVE e \notin OnDisk
    <2>1. Certificate /\ cert.files = files
      BY <1>1, <1>3 DEF MirrorSure, Kept, Sure, MirrorAlone, Section
    <2>2. ASSUME e \in OnDisk PROVE FALSE
      <3>1. PICK k \in DOMAIN files : \E i \in DOMAIN files[k] : files[k][i] = e
        BY <1>1, <2>2, OnDiskIs
      <3>2. e.id > 0
        BY <1>1, GivenIs
      <3>3. e \in Lines(cert.files[k]) /\ k \in DOMAIN cert.files
        BY <2>1, <3>1, <3>2 DEF Lines
      <3>4. e.seq <= cert.seq
        BY <2>1, <3>3 DEF Saved, Rereading
      <3>5. e.seq \in Nat /\ cert.seq \in Nat
        BY <1>1, <2>1 DEF Given, Certificate, MirrorAlone, MirrorTyped, CertTyped
      <3> QED BY <3>4, <3>5
    <2> QED BY <2>2
  <1>4. S \subseteq rows /\ (Clean => S \cap OnDisk = {}) /\ pc[p] \in Captured
    BY <1>1, <1>3 DEF Captured
  <1> HIDE DEF S
  <1> QED BY <1>2, <1>4, SavedTodo

LEMMA SavedRepair ==
    ASSUME NEW p, MirrorSure(p), Saved(p), Repair(p)
    PROVE  Saved(p)'
  <1>1. p \in Procs /\ Shaped /\ pc[p] = "repairing"
    BY DEF MirrorSure, MirrorAlone, MirrorTyped, Repair
  <1>2. UNCHANGED <<rows, generation, committed, cleared, files, cert, mishaps>>
    BY DEF Repair, store, disk, bounds
  <1>3. CASE HasGap(p)
    <2>1. pc'[p] = "rewriting"
      BY <1>1, <1>3 DEF Repair, Goto, Shaped
    <2> QED BY <1>1, <1>2, <2>1, SavedQuiet
  <1>4. CASE ~HasGap(p)
    <2>1. pc'[p] = "writing" /\ todo'[p] = SortBySeq(Missing(p))
      BY <1>1, <1>4 DEF Repair, Goto, Shaped
    <2>2. Missing(p) \subseteq rows /\ Missing(p) \cap OnDisk = {} /\ pc[p] \in Captured
      BY <1>1 DEF Missing, Captured
    <2> QED BY <1>2, <2>1, <2>2, SavedTodo
  <1> QED BY <1>3, <1>4

\* What is read of a mirror to which a line was added.
LEMMA LineReads ==
    ASSUME committed \in Nat, FilesTyped, FragmentsClosed, NEW l \in Line, WithLine(l), committed' = committed,
           ~EndsWithFrag \/ l.id = 0
    PROVE  \A e : e \in OnDisk' <=> e \in OnDisk \/ (e = l /\ l \in Given)
  <1>1. /\ FilesTyped' /\ FragmentsClosed' /\ Grows
        /\ \A k \in DOMAIN files' : \A i \in DOMAIN files'[k] :
              files'[k][i] = l \/ (k \in DOMAIN files /\ i \in DOMAIN files[k] /\ files'[k][i] = files[k][i])
        /\ Active \in DOMAIN files' /\ Len(files'[Active]) \in DOMAIN files'[Active]
        /\ files'[Active][Len(files'[Active])] = l
    BY LineAdded
  <1>2. ASSUME NEW e PROVE e \in OnDisk' <=> e \in OnDisk \/ (e = l /\ l \in Given)
    <2>1. e \in OnDisk' <=> e \in Given /\ \E k \in DOMAIN files' : \E i \in DOMAIN files'[k] : files'[k][i] = e
      BY <1>1, OnDiskNextIs
    <2>2. e \in OnDisk <=> e \in Given /\ \E k \in DOMAIN files : \E i \in DOMAIN files[k] : files[k][i] = e
      BY OnDiskIs
    <2> QED BY <1>1, <2>1, <2>2 DEF Grows
  <1> QED BY <1>2

LEMMA SavedCloseFragment ==
    ASSUME NEW p, MirrorSure(p), Saved(p), CloseFragment(p)
    PROVE  Saved(p)'
  <1>1. /\ p \in Procs /\ Shaped /\ MirrorAlone(p) /\ pc[p] = "writing"
        /\ committed \in Nat /\ FilesTyped /\ FragmentsClosed
    BY DEF MirrorSure, MirrorAlone, MirrorTyped, LedgerTyped, CloseFragment
  <1>2. /\ UNCHANGED <<rows, generation, committed, cleared, cert, mishaps, pc, todo>>
        /\ WithLine(NewLine) /\ NewLine \in Line /\ NewLine.id = 0
    BY FragmentClosed DEF CloseFragment, store, section, bounds, Line, NewLine
  <1>3. NewLine \notin Given
    BY GivenIs
  <1>4. OnDisk' \subseteq OnDisk
    BY <1>1, <1>2, <1>3, LineReads
  <1>5. Active \in DOMAIN files'
    BY <1>1, <1>2, LineAdded
  <1>6. Clean => WritesNew(p)'
    <2>1. Todo(p)' = Todo(p)
      BY <1>2 DEF Todo
    <2> QED BY <1>1, <1>2, <1>4, <2>1 DEF Saved, WritesNew
  <1> QED BY <1>1, <1>2, <1>5, <1>6, SavedWorking DEF Captured

LEMMA SavedWriteLine ==
    ASSUME NEW p, MirrorSure(p), Saved(p), WriteLine(p)
    PROVE  Saved(p)'
  <1>1. /\ p \in Procs /\ Shaped /\ MirrorAlone(p) /\ pc[p] = "writing"
        /\ committed \in Nat /\ FilesTyped /\ FragmentsClosed /\ todo[p] \in Seq(Given) /\ todo[p] # <<>>
    BY DEF MirrorSure, MirrorAlone, MirrorTyped, LedgerTyped, SectionTyped, WriteLine
  <1>2. /\ UNCHANGED <<rows, generation, committed, cleared, cert, mishaps, pc>>
        /\ WithLine(Head(todo[p])) /\ ~EndsWithFrag /\ todo'[p] = Tail(todo[p])
    BY <1>1 DEF WriteLine, store, bounds, Shaped
  <1>3. /\ Head(todo[p]) \in Line /\ 1 \in DOMAIN todo[p] /\ Head(todo[p]) = todo[p][1]
        /\ DOMAIN Tail(todo[p]) \subseteq Nat \ {0}
        /\ \A i \in DOMAIN Tail(todo[p]) : i + 1 \in DOMAIN todo[p] /\ Tail(todo[p])[i] = todo[p][i + 1]
    BY <1>1, HeadAndTail, GivenIs
  <1>4. \A e : e \in OnDisk' => e \in OnDisk \/ e = todo[p][1]
    BY <1>1, <1>2, <1>3, LineReads
  <1>5. Active \in DOMAIN files'
    BY <1>1, <1>2, <1>3, LineAdded
  <1>6. ASSUME Clean PROVE WritesNew(p)'
    <2>1. /\ Todo(p) \subseteq rows \ OnDisk
          /\ \A i, j \in DOMAIN todo[p] : todo[p][i] = todo[p][j] => i = j
      BY <1>1, <1>6 DEF Saved, WritesNew
    <2>2. ASSUME NEW i \in DOMAIN todo'[p] PROVE todo'[p][i] \in rows /\ todo'[p][i] \notin OnDisk'
      <3>1. i \in Nat \ {0} /\ i + 1 \in DOMAIN todo[p] /\ todo'[p][i] = todo[p][i + 1]
        BY <1>2, <1>3, <2>2
      <3>2. todo[p][i + 1] \in rows \ OnDisk
        BY <2>1, <3>1 DEF Todo
      <3>3. todo[p][i + 1] # todo[p][1]
        BY <1>3, <2>1, <3>1
      <3> QED BY <1>4, <3>1, <3>2, <3>3
    <2>3. Todo(p)' \subseteq rows \ OnDisk'
      BY <2>2 DEF Todo
    <2>4. ASSUME NEW i \in DOMAIN todo'[p], NEW j \in DOMAIN todo'[p], todo'[p][i] = todo'[p][j] PROVE i = j
      <3>1. /\ i \in Nat /\ i + 1 \in DOMAIN todo[p] /\ todo'[p][i] = todo[p][i + 1]
            /\ j \in Nat /\ j + 1 \in DOMAIN todo[p] /\ todo'[p][j] = todo[p][j + 1]
        BY <1>2, <1>3, <2>4
      <3>2. i + 1 = j + 1
        BY <2>1, <2>4, <3>1
      <3> QED BY <3>1, <3>2
    <2> QED BY <1>1, <1>2, <2>3, <2>4 DEF WritesNew
  <1> QED BY <1>1, <1>2, <1>5, <1>6, SavedWorking DEF Captured

LEMMA SavedRotate ==
    ASSUME NEW p, MirrorSure(p), Saved(p), Rotate(p)
    PROVE  Saved(p)'
  <1>1. /\ p \in Procs /\ Shaped /\ MirrorAlone(p) /\ pc[p] = "writing"
        /\ todo[p] \in Seq(Given) /\ todo[p] # <<>>
    BY DEF MirrorSure, MirrorAlone, MirrorTyped, SectionTyped, Rotate
  <1>2. UNCHANGED <<rows, generation, committed, cleared, cert, mishaps, pc, todo>>
    BY DEF Rotate, store, bounds
  <1>3. OnDisk' = OnDisk
    BY <1>1, RotateKeeps
  <1>4. Todo(p)' = Todo(p) /\ todo[p][1] \in Todo(p)
    BY <1>1, <1>2, HeadAndTail DEF Todo
  <1>5. Clean => WritesNew(p)' /\ ~(rows \subseteq OnDisk')
    BY <1>1, <1>2, <1>3, <1>4 DEF Saved, WritesNew
  <1> QED BY <1>1, <1>2, <1>5, SavedWorking DEF Captured

LEMMA SavedReplacePrune ==
    ASSUME NEW p, MirrorSure(p), Saved(p), Replace(p) \/ Prune(p)
    PROVE  Saved(p)'
  <1>1. p \in Procs /\ Shaped /\ MirrorAlone(p) /\ FilesTyped
    BY DEF MirrorSure, MirrorAlone, MirrorTyped
  <1>2. /\ UNCHANGED <<rows, generation, committed, cleared, cert, mishaps>>
        /\ pc[p] \in {"replacing", "pruning"} /\ pc'[p] \in {"pruning", "certifying"}
    BY <1>1 DEF Replace, Prune, store, bounds, Goto, Shaped
  <1>3. Active \in DOMAIN files'
    <2>1. CASE Replace(p)
      BY <2>1 DEF Replace
    <2>2. CASE Prune(p)
      <3>1. Active \in DOMAIN files
        BY <1>1, <2>2 DEF Prune, MirrorAlone, Section
      <3>2. CASE DOMAIN files \subseteq {Active}
        BY <2>2, <3>1, <3>2 DEF Prune
      <3>3. CASE ~(DOMAIN files \subseteq {Active})
        <4>1. Min(DOMAIN files \ {Active}) \in DOMAIN files \ {Active}
          BY <1>1, <3>3, MinIs DEF FilesTyped
        <4> QED BY <2>2, <3>1, <3>3, <4>1 DEF Prune
      <3> QED BY <3>2, <3>3
    <2> QED BY <2>1, <2>2
  <1>4. WritesNew(p)'
    BY <1>2 DEF WritesNew
  <1> QED BY <1>2, <1>3, <1>4, SavedWorking DEF Captured

LEMMA SavedCertify ==
    ASSUME NEW p, MirrorSure(p), Saved(p), Certify(p)
    PROVE  Saved(p)'
  <1>1. p \in Procs /\ Shaped /\ MirrorAlone(p) /\ pc[p] = "certifying"
    BY DEF MirrorSure, MirrorAlone, MirrorTyped, Certify
  <1>2. /\ UNCHANGED <<rows, generation, committed, cleared, files, mishaps>>
        /\ pc'[p] = "release" /\ cert'.seq = boundary[p].seq
    BY <1>1 DEF Certify, store, bounds, Goto, Shaped
  <1>3. \A e \in rows : e.seq <= boundary[p].seq
    BY <1>1 DEF MirrorAlone, AtBoundary, Captured
  <1>4. OnDisk' = OnDisk /\ (Clean' <=> Clean)
    BY <1>2, StaysClean DEF OnDisk
  <1>5. Rereading(p)'
    BY <1>2, <1>3 DEF Rereading
  <1>6. Clean => WritesNew(p)' /\ HasActive' /\ Survives(p)'
    BY <1>1, <1>2, <1>4 DEF Saved, WritesNew, HasActive, Survives
  <1> QED BY <1>4, <1>5, <1>6 DEF Saved

LEMMA SavedSectionStep ==
    ASSUME NEW p, MirrorSure(p), Saved(p), SectionStep(p)
    PROVE  Saved(p)'
  <1>1. p \in Procs /\ Shaped
    BY DEF MirrorSure, MirrorAlone, MirrorTyped
  <1>2. CASE Capture(p) \/ Written(p) \/ Rewrite(p) \/ CannotCertify(p)
    <2>1. UNCHANGED <<rows, generation, committed, cleared, files, cert, mishaps>>
      BY <1>2 DEF Capture, Written, Rewrite, CannotCertify, store, disk, bounds
    <2>2. /\ pc[p] \in {"locked", "writing", "rewriting", "certifying"}
          /\ pc'[p] \in {"rewriting", "repairing", "release", "extending", "certifying", "replacing"}
      BY <1>1, <1>2 DEF Capture, Written, Rewrite, CannotCertify, Goto, Shaped
    <2> QED BY <2>1, <2>2, SavedQuiet
  <1> QED BY <1>2, SavedExtend, SavedRepair, SavedCloseFragment, SavedWriteLine, SavedRotate, SavedReplacePrune,
             SavedCertify DEF SectionStep

LEMMA SavedFailure ==
    ASSUME NEW p, MirrorSure(p), Saved(p), Crash(p) \/ WriteFails(p) \/ Damage
    PROVE  Saved(p)'
  <1>1. p \in Procs /\ Shaped /\ MirrorAlone(p) /\ mishaps \in Seq(Mishaps)
    BY DEF MirrorSure, MirrorAlone, MirrorTyped
  <1>2. UNCHANGED <<rows, generation, committed, cleared, cert>> /\ pc'[p] \in {"down", "release"}
    BY <1>1 DEF Crash, WriteFails, Damage, store, Goto, Shaped
  <1>3. Rereading(p)'
    BY <1>2 DEF Saved, Rereading, Certificate
  <1>4. CASE Crash(p)
    <2>1. mishaps' = Append(mishaps, "crash") /\ pc'[p] = "down"
      BY <1>1, <1>4 DEF Crash, Goto, Shaped
    <2>2. Clean' => Clean
      BY <1>1, <2>1, FailureIsNoted DEF Mishaps
    <2>3. OnDisk' = OnDisk /\ DOMAIN files \subseteq DOMAIN files'
      BY <1>1, <1>4, CrashMirror DEF Grows
    <2>4. files' = files \/ Active \in DOMAIN files'
      BY <1>4 DEF Crash, WithLine
    <2>5. Clean => WritesNew(p)' /\ HasActive' /\ Survives(p)'
      BY <1>2, <2>1, <2>3, <2>4 DEF Saved, WritesNew, HasActive, Survives
    <2> QED BY <1>3, <2>2, <2>5 DEF Saved
  <1>5. CASE WriteFails(p) \/ Damage
    <2>1. mishaps' = Append(mishaps, "write") \/ mishaps' = Append(mishaps, "damage")
      BY <1>5 DEF WriteFails, Damage
    <2>2. ~Clean'
      BY <1>1, <2>1, FailureIsNoted DEF Mishaps
    <2> QED BY <1>3, <2>2 DEF Saved
  <1> QED BY <1>4, <1>5

LEMMA SavedOtherUses ==
    ASSUME NEW p, MirrorSure(p), Saved(p), Open(p) \/ OpenEmpty(p) \/ Rebuild(p) \/ Close(p)
    PROVE  Saved(p)'
  <1>1. p \in Procs /\ Shaped /\ MirrorAlone(p) /\ committed \in Nat
    BY DEF MirrorSure, MirrorAlone, MirrorTyped, LedgerTyped
  <1>2. /\ UNCHANGED <<rows, generation, committed, cleared, files, cert, mishaps>>
        /\ pc'[p] = "clearing" => Todo(p)' = OnDisk
    BY <1>1, OtherUses
  <1>3. OnDisk' = OnDisk /\ (Clean' <=> Clean) /\ (Certificate' <=> Certificate)
    BY <1>2, StaysClean DEF OnDisk, Certificate
  <1>4. \/ pc'[p] = "down"
        \/ pc'[p] = "want" /\ (rows # {} \/ Active \notin DOMAIN files \/ OnDisk = {})
        \/ pc'[p] = "clearing" /\ (rows = {} \/ pc[p] = "idle")
    <2>1. CASE Open(p)
      BY <1>1, <2>1 DEF Open, Ask, Goto, Shaped
    <2>2. CASE OpenEmpty(p)
      BY <1>1, <2>2 DEF OpenEmpty, Ask, Goto, Shaped
    <2>3. CASE Rebuild(p) \/ Close(p)
      BY <1>1, <2>3 DEF Rebuild, Close, Goto, Shaped
    <2> QED BY <2>1, <2>2, <2>3
  <1>5. Rereading(p)'
    BY <1>2, <1>3, <1>4 DEF Saved, Rereading
  <1>6. ASSUME Clean PROVE WritesNew(p)'
    <2>1. pc[p] = "idle" => rows \subseteq OnDisk
      BY <1>6 DEF MirrorSure, Kept, Sure
    <2> QED BY <1>2, <1>3, <1>4, <2>1 DEF WritesNew
  <1>7. Clean => HasActive' /\ Survives(p)'
    BY <1>2, <1>3, <1>4 DEF Saved, HasActive, Survives
  <1> QED BY <1>3, <1>5, <1>6, <1>7 DEF Saved

LEMMA SavedAppend ==
    ASSUME NEW p, MirrorSure(p), Saved(p), AppendEvent(p)
    PROVE  Saved(p)'
  <1> DEFINE new == [id |-> committed + 1, seq |-> lastSeq + 1]
  <1>1. /\ p \in Procs /\ Shaped /\ MirrorAlone(p) /\ pc[p] = "idle"
        /\ committed \in Nat /\ FilesTyped /\ FragmentsClosed /\ CertTyped
    BY DEF MirrorSure, MirrorAlone, MirrorTyped, LedgerTyped, AppendEvent
  <1>2. /\ rows' = rows \cup {new} /\ committed' = committed + 1
        /\ UNCHANGED <<generation, cleared, files, cert, mishaps>> /\ pc'[p] = "want"
    BY <1>1 DEF AppendEvent, Commit, Ask, disk, Goto, Shaped
  <1>3. new \notin Given /\ new.id = committed + 1
    BY <1>1 DEF Given
  <1>4. OnDisk' = OnDisk /\ new \notin OnDisk /\ (Clean' <=> Clean) /\ (Certificate' <=> Certificate)
    <2>1. OnDisk' = OnDisk /\ (Clean' <=> Clean) /\ (Certificate' <=> Certificate)
      BY <1>2, StaysClean DEF OnDisk, Certificate
    <2> QED BY <1>1, <1>3, <2>1, OnDiskIs
  <1>5. Rereading(p)'
    <2>1. ASSUME Certificate, NEW k \in DOMAIN cert.files, new \in Lines(cert.files[k]) PROVE FALSE
      <3>1. cert.files[k] \in Seq(Line)
        BY <1>1, <2>1 DEF CertTyped, Certificate
      <3>2. PICK i \in DOMAIN cert.files[k] : cert.files[k][i] = new
        BY <2>1 DEF Lines
      <3>3. new \in Line
        BY <3>1, <3>2
      <3>4. new.id > 0
        BY <1>1, <1>3
      <3> QED BY <1>1, <1>3, <3>3, <3>4, LineIs
    <2> HIDE DEF new
    <2> QED BY <1>2, <1>4, <2>1 DEF Saved, Rereading
  <1>6. ASSUME Clean, NEW n \in (1..committed') \ cleared' PROVE \E e \in rows' : e.id = n
    <2>1. CASE n = committed + 1
      BY <1>2, <1>3, <2>1
    <2>2. CASE n # committed + 1
      <3>1. n \in (1..committed) \ cleared
        BY <1>1, <1>2, <2>2
      <3>2. \E e \in rows : e.id = n
        BY <1>1, <1>6, <3>1 DEF Saved, Survives
      <3> QED BY <1>2, <3>2
    <2> QED BY <2>1, <2>2
  <1>7. Clean => WritesNew(p)' /\ HasActive' /\ Survives(p)'
    BY <1>2, <1>4, <1>6 DEF WritesNew, HasActive, Survives
  <1> QED BY <1>4, <1>5, <1>7 DEF Saved

LEMMA SavedClear ==
    ASSUME NEW p, MirrorSure(p), Saved(p), Clear(p)
    PROVE  Saved(p)'
  <1>1. /\ p \in Procs /\ Shaped /\ MirrorAlone(p) /\ pc[p] = "idle" /\ CertTyped /\ CertificateHolds
        /\ generation \in Nat
    BY DEF MirrorSure, MirrorAlone, MirrorTyped, LedgerTyped, Clear
  <1>2. PICK run \in SUBSET rows : rows' = rows \ run /\ cleared' = cleared \cup {e.id : e \in run}
    BY DEF Clear
  <1>3. /\ UNCHANGED <<committed, files, cert, mishaps>> /\ pc'[p] = "want" /\ generation' = generation + 1
    BY <1>1 DEF Clear, Ask, disk, Goto, Shaped
  <1>4. OnDisk' = OnDisk /\ (Clean' <=> Clean)
    BY <1>3, StaysClean DEF OnDisk
  <1>5. ~Certificate'
    BY <1>1, <1>3 DEF Certificate, CertTyped, CertificateHolds
  <1>6. Rereading(p)'
    BY <1>3, <1>5 DEF Rereading
  <1>7. ASSUME Clean PROVE HasActive'
    <2>1. rows \subseteq OnDisk
      BY <1>1, <1>7 DEF MirrorSure, Kept, Sure
    <2> QED BY <1>3, <1>7, <2>1 DEF Saved, HasActive
  <1>8. ASSUME Clean, NEW n \in (1..committed) \ cleared' PROVE \E e \in rows' : e.id = n
    <2>1. PICK e \in rows : e.id = n
      BY <1>1, <1>2, <1>8 DEF Saved, Survives
    <2> QED BY <1>2, <1>8, <2>1
  <1>9. Clean => WritesNew(p)' /\ Survives(p)'
    BY <1>3, <1>8 DEF WritesNew, Survives
  <1> QED BY <1>4, <1>6, <1>7, <1>9 DEF Saved

\* The ledger is emptied when its live rows are in the mirror.
LEMMA SavedClearAll ==
    ASSUME NEW p, MirrorSure(p), Saved(p), ClearAll(p)
    PROVE  Saved(p)'
  <1>1. /\ p \in Procs /\ Shaped /\ MirrorAlone(p) /\ pc[p] = "clearing" /\ CertTyped /\ CertificateHolds
        /\ generation \in Nat
    BY DEF MirrorSure, MirrorAlone, MirrorTyped, LedgerTyped, ClearAll
  <1>2. /\ UNCHANGED <<committed, cleared, files, cert, mishaps, todo>> /\ pc'[p] = "reinserting"
        /\ rows' = {} /\ generation' = generation + 1
    BY <1>1 DEF ClearAll, disk, section, bounds, Goto, Shaped
  <1>3. OnDisk' = OnDisk /\ (Clean' <=> Clean) /\ Todo(p)' = Todo(p)
    BY <1>2, StaysClean DEF OnDisk, Todo
  <1>4. ~Certificate'
    BY <1>1, <1>2 DEF Certificate, CertTyped, CertificateHolds
  <1>5. Rereading(p)'
    BY <1>1, <1>2, <1>3, <1>4 DEF Saved, Rereading
  <1>6. ASSUME Clean, NEW n \in (1..committed) \ cleared
        PROVE  Active \in DOMAIN files /\ \E e \in OnDisk : e.id = n
    <2>1. CASE \E e \in rows : e.id = n
      <3>1. PICK e \in rows : e.id = n
        BY <2>1
      <3>2. rows \subseteq OnDisk /\ DOMAIN files # {}
        BY <1>1, <1>6, <3>1 DEF Saved, WritesNew, OnDisk
      <3> QED BY <1>6, <3>1, <3>2 DEF Saved, HasActive
    <2>2. CASE ~\E e \in rows : e.id = n
      BY <1>6, <2>2 DEF Saved, Survives
    <2> QED BY <2>1, <2>2
  <1>7. Clean /\ DOMAIN files # {} => Active \in DOMAIN files
    BY <1>1 DEF Saved, WritesNew, HasActive
  <1>8. Clean => WritesNew(p)' /\ HasActive' /\ Survives(p)'
    BY <1>2, <1>3, <1>6, <1>7 DEF WritesNew, HasActive, Survives
  <1> QED BY <1>3, <1>5, <1>8 DEF Saved

LEMMA SavedReinsert ==
    ASSUME NEW p, MirrorSure(p), Saved(p), Reinsert(p)
    PROVE  Saved(p)'
  <1>1. /\ p \in Procs /\ Shaped /\ MirrorAlone(p) /\ pc[p] = "reinserting" /\ committed \in Nat
        /\ FilesTyped /\ FragmentsClosed
    BY DEF MirrorSure, MirrorAlone, MirrorTyped, LedgerTyped, Reinsert
  <1>2. /\ UNCHANGED <<generation, committed, cleared, files, cert, mishaps>> /\ pc'[p] = "want"
        /\ rows' = OnDisk /\ rows = {}
    <2>1. rows = {} /\ Todo(p) = OnDisk
      BY <1>1 DEF Saved, Rereading
    <2>2. mishaps' = mishaps
      BY DEF Reinsert, Ask
    <2> QED BY <1>1, <2>1, <2>2, ReinsertIs
  <1>3. OnDisk' = OnDisk /\ (Clean' <=> Clean)
    BY <1>2, StaysClean DEF OnDisk
  <1>4. ~Certificate'
    BY <1>1, <1>2 DEF Certificate, MirrorAlone, Section
  <1>5. Rereading(p)'
    BY <1>2, <1>4 DEF Rereading
  <1>6. Clean /\ DOMAIN files # {} => Active \in DOMAIN files
    BY <1>2 DEF Saved, HasActive
  <1>7. ASSUME Clean, NEW n \in (1..committed) \ cleared PROVE \E e \in OnDisk : e.id = n
    BY <1>2, <1>7 DEF Saved, Survives
  <1>8. Clean => WritesNew(p)' /\ HasActive' /\ Survives(p)'
    BY <1>2, <1>6, <1>7 DEF WritesNew, HasActive, Survives
  <1> QED BY <1>3, <1>5, <1>8 DEF Saved

LEMMA SavedStep ==
    ASSUME NEW p, MirrorSure(p), Saved(p), MirrorStep(p)
    PROVE  Saved(p)'
  <1>1. CASE Use(p)
    BY <1>1, SavedOtherUses, SavedAppend, SavedClear, SavedClearAll, SavedReinsert DEF Use
  <1> QED BY <1>1, SavedLockStep, SavedSectionStep, SavedFailure DEF MirrorStep

LEMMA SavedInit ==
    ASSUME NEW p, MirrorInit, p \in Procs
    PROVE  Saved(p)
  <1>1. rows = {} /\ committed = 0 /\ pc[p] = "down"
    BY DEF MirrorInit
  <1>2. 1..committed = {} /\ DOMAIN files = {}
    BY <1>1 DEF MirrorInit, NoSegments
  <1>3. Rereading(p)
    BY <1>1 DEF Rereading
  <1>4. WritesNew(p) /\ HasActive /\ Survives(p)
    BY <1>1, <1>2 DEF WritesNew, HasActive, Survives
  <1> QED BY <1>3, <1>4 DEF Saved

LEMMA SavedStutters ==
    ASSUME NEW p, Saved(p), UNCHANGED mirrorVars
    PROVE  Saved(p)'
  <1>1. UNCHANGED <<rows, generation, files, cert, pc, todo, committed, cleared, mishaps>>
    BY DEF mirrorVars
  <1>2. /\ OnDisk' = OnDisk /\ Todo(p)' = Todo(p)
        /\ (Clean' <=> Clean) /\ (Certificate' <=> Certificate)
    BY <1>1, StaysClean DEF OnDisk, Todo, Certificate
  <1> QED BY <1>1, <1>2 DEF Saved, Rereading, WritesNew, HasActive, Survives

SavedHolds == \A p \in Procs : load.procs = {p} /\ Undisturbed => Saved(p)

LEMMA SavedHoldsAlways == MirrorSpec => []SavedHolds
  <1>1. MirrorInit => SavedHolds
    BY SavedInit DEF SavedHolds
  <1>2. SureHolds /\ SavedHolds /\ [MirrorNext]_mirrorVars => SavedHolds'
    <2> SUFFICES ASSUME SureHolds, SavedHolds, [MirrorNext]_mirrorVars PROVE SavedHolds'
      OBVIOUS
    <2>1. load' = load
      BY LoadStays
    <2>2. ASSUME NEW p \in Procs, load.procs = {p}, Undisturbed PROVE Saved(p)'
      <3>1. MirrorSure(p) /\ Saved(p)
        BY <2>2 DEF SureHolds, SavedHolds
      <3>2. CASE MirrorNext
        BY <2>2, <3>1, <3>2, MirrorNextAlone, SavedStep
      <3>3. CASE UNCHANGED mirrorVars
        BY <3>1, <3>3, SavedStutters
      <3> QED BY <3>2, <3>3
    <2> QED BY <2>1, <2>2 DEF SavedHolds, Undisturbed
  <1> QED BY <1>1, <1>2, SureHoldsAlways, PTL DEF MirrorSpec

\* When one process uses the store and does not die between creating the lock file and
\* writing its name into it, an event that was committed and not cleared is in the ledger,
\* on its way back into it, or in the mirror from which an open fills an empty ledger,
\* wherever else the process dies, as long as no write failed and no line was damaged.
THEOREM CommittedSurvivesAlone ==
    MirrorSpec =>
        [](Cardinality(load.procs) = 1 /\ "created" \notin load.crashAt /\ MaxAttempts >= 2 => CommittedSurvives)
  <1>1. SureHolds /\ SavedHolds
            => (Cardinality(load.procs) = 1 /\ "created" \notin load.crashAt /\ MaxAttempts >= 2 => CommittedSurvives)
    <2> SUFFICES ASSUME SureHolds, SavedHolds, Cardinality(load.procs) = 1, Undisturbed PROVE CommittedSurvives
      BY DEF Undisturbed
    <2>1. PICK p \in Procs : load.procs = {p}
      BY AloneIs DEF SureHolds
    <2>2. Clean => Survives(p)
      BY <2>1 DEF SavedHolds, Saved
    <2> QED BY <2>2 DEF CommittedSurvives, Survives
  <1> QED BY <1>1, SureHoldsAlways, SavedHoldsAlways, PTL
-----------------------------------------------------------------------------
(* The mirror is in order *)

\* The events of a mirror stand in the order of the ledger.
InOrder ==
    \A k, l \in DOMAIN files : \A i \in DOMAIN files[k], j \in DOMAIN files[l] :
        files[k][i].id > 0 /\ files[l][j].id > 0 /\ (Precedes(k, l) \/ (k = l /\ i < j)) => files[k][i].seq < files[l][j].seq

\* So do events that are to be written.
Sorted(s) == \A i, j \in DOMAIN s : i < j => s[i].seq < s[j].seq

\* Rotated segments have the numbers from 1 on.
Numbered == \E m \in Nat : DOMAIN files \ {Active} = 1..m

\* The ledger may be empty and count anew.
Between == {"down", "clearing", "reinserting"}

\* Every row the mirror lacks belongs at its end.
Neat(p) ==
    /\ pc[p] # "pruning" => InOrder /\ Numbered
    /\ pc[p] = "pruning" => Active \in DOMAIN files /\ Sorted(files[Active])
    /\ \A e \in rows \ OnDisk, f \in OnDisk : f.seq < e.seq
    /\ \A e, f \in rows : e.seq = f.seq => e = f
    /\ rows # {} \/ pc[p] \notin Between => \A f \in OnDisk : f.seq <= lastSeq
    /\ pc[p] \in {"writing", "replacing"} => Sorted(todo[p]) /\ Todo(p) \subseteq rows

LEMMA SortedTodo ==
    ASSUME committed \in Nat, NEW S, S \subseteq Given, \A e, f \in S : e.seq = f.seq => e = f
    PROVE  Sorted(SortBySeq(S))
  <1>1. /\ SortBySeq(S) \in Seq(S)
        /\ \A i, j \in DOMAIN SortBySeq(S) : i < j => Before(SortBySeq(S)[i], SortBySeq(S)[j])
    <2>1. IsFiniteSet(S) /\ S \subseteq Tokens
      BY TodoIs DEF Given, Tokens
    <2> QED BY <2>1, SortedIs
  <1>2. ASSUME NEW i \in DOMAIN SortBySeq(S), NEW j \in DOMAIN SortBySeq(S), i < j
        PROVE  SortBySeq(S)[i].seq < SortBySeq(S)[j].seq
    <2>1. SortBySeq(S)[i] \in S /\ SortBySeq(S)[j] \in S
      BY <1>1
    <2>2. Before(SortBySeq(S)[i], SortBySeq(S)[j])
      BY <1>1, <1>2
    <2>3. SortBySeq(S)[i].seq # SortBySeq(S)[j].seq
      <3>1. ASSUME SortBySeq(S)[i].seq = SortBySeq(S)[j].seq PROVE FALSE
        <4>1. SortBySeq(S)[i] = SortBySeq(S)[j] /\ SortBySeq(S)[i] \in Tokens
          BY <2>1, <3>1 DEF Given, Tokens
        <4>2. ~Before(SortBySeq(S)[i], SortBySeq(S)[i])
          BY <4>1, BeforeIsTotal
        <4> QED BY <2>2, <4>1, <4>2
      <3> QED BY <3>1
    <2> QED BY <2>2, <2>3 DEF Before
  <1> QED BY <1>2 DEF Sorted

\* A line that is no event, or one beyond all that are there, keeps the order at the end.
LEMMA LineInOrder ==
    ASSUME committed \in Nat, FilesTyped, FragmentsClosed, NEW l \in Line, WithLine(l), committed' = committed,
           ~EndsWithFrag \/ l.id = 0, InOrder, Numbered,
           l.id = 0 \/ \A f \in OnDisk : f.seq < l.seq
    PROVE  InOrder' /\ Numbered'
  <1>1. /\ FilesTyped' /\ FragmentsClosed' /\ Grows /\ DOMAIN files' = DOMAIN files \cup {Active}
        /\ \A k \in DOMAIN files : k # Active => files'[k] = files[k]
        /\ Active \in DOMAIN files => Len(files'[Active]) = Len(files[Active]) + 1
        /\ Active \notin DOMAIN files => Len(files'[Active]) = 1
        /\ files'[Active][Len(files'[Active])] = l
    BY LineAdded
  <1> DEFINE n == Len(files'[Active])
  <1>2. files'[Active] \in Seq(Line') /\ n \in Nat /\ DOMAIN files'[Active] = 1..n
    BY <1>1 DEF FilesTyped
  <1>3. ASSUME NEW k \in DOMAIN files', NEW i \in DOMAIN files'[k], ~(k = Active /\ i = n)
        PROVE  k \in DOMAIN files /\ i \in DOMAIN files[k] /\ files'[k][i] = files[k][i]
    <2>1. CASE k # Active
      BY <1>1, <1>3, <2>1
    <2>2. CASE k = Active /\ Active \in DOMAIN files
      <3>1. files[Active] \in Seq(Line) /\ DOMAIN files[Active] = 1..Len(files[Active]) /\ n = Len(files[Active]) + 1
        BY <1>1, <2>2 DEF FilesTyped
      <3>2. i \in 1..Len(files[Active])
        <4> HIDE DEF n
        <4> QED BY <1>2, <1>3, <2>2, <3>1
      <3> QED BY <1>1, <2>2, <3>1, <3>2 DEF Grows
    <2>3. CASE k = Active /\ Active \notin DOMAIN files
      <3>1. n = 1
        BY <1>1, <2>3
      <3> HIDE DEF n
      <3> QED BY <1>2, <1>3, <2>3, <3>1
    <2> QED BY <2>1, <2>2, <2>3
  <1>4. ASSUME NEW k \in DOMAIN files, NEW i \in DOMAIN files[k], files[k][i].id > 0 PROVE files[k][i] \in OnDisk
    <2>1. files[k][i] \in Line
      BY <1>4 DEF FilesTyped
    <2> QED BY <1>4, <2>1, LineIs, OnDiskIs
  <1>5. files'[Active][n] = l
    BY <1>1
  <1> HIDE DEF n
  <1>6. ASSUME NEW k \in DOMAIN files', NEW m \in DOMAIN files', NEW i \in DOMAIN files'[k], NEW j \in DOMAIN files'[m],
               files'[k][i].id > 0, files'[m][j].id > 0, Precedes(k, m) \/ (k = m /\ i < j)
        PROVE  files'[k][i].seq < files'[m][j].seq
    <2>1. ~(k = Active /\ i = n)
      <3>1. ASSUME k = Active, i = n PROVE FALSE
        <4>1. m = Active /\ i < j
          BY <1>6, <3>1 DEF Precedes
        <4> QED BY <1>2, <3>1, <4>1
      <3> QED BY <3>1
    <2>2. k \in DOMAIN files /\ i \in DOMAIN files[k] /\ files'[k][i] = files[k][i]
      BY <1>3, <2>1
    <2>3. CASE m = Active /\ j = n
      BY <1>4, <1>5, <1>6, <2>2, <2>3
    <2>4. CASE ~(m = Active /\ j = n)
      <3>1. m \in DOMAIN files /\ j \in DOMAIN files[m] /\ files'[m][j] = files[m][j]
        BY <1>3, <2>4
      <3> QED BY <1>6, <2>2, <3>1 DEF InOrder
    <2> QED BY <2>3, <2>4
  <1>7. Numbered'
    BY <1>1 DEF Numbered
  <1> QED BY <1>6, <1>7 DEF InOrder

\* A segment that is rotated gets the next number, and stays behind all that were rotated.
LEMMA RotateInOrder ==
    ASSUME NEW p, MirrorAlone(p), Rotate(p), InOrder, Numbered
    PROVE  InOrder' /\ Numbered'
  <1>1. PICK free \in Nat :
             /\ free \notin DOMAIN files /\ free # Active /\ Active \in DOMAIN files
             /\ DOMAIN files' = (DOMAIN files \ {Active}) \cup {free}
             /\ files'[free] = files[Active]
             /\ \A k \in DOMAIN files \ {Active} : files'[k] = files[k]
             /\ 1..(free - 1) \subseteq DOMAIN files
    BY RotateIs
  <1>2. PICK m \in Nat : DOMAIN files \ {Active} = 1..m
    BY DEF Numbered
  <1>3. free = m + 1
    <2>1. free \notin 1..m /\ free # 0
      BY <1>1, <1>2 DEF Active
    <2>2. free > m
      BY <2>1
    <2>3. free > m + 1 => m + 1 \in 1..(free - 1)
      OBVIOUS
    <2>4. m + 1 \notin DOMAIN files
      BY <1>2 DEF Active
    <2> QED BY <1>1, <2>2, <2>3, <2>4
  <1>4. DOMAIN files' = 1..(m + 1) /\ Active \notin DOMAIN files'
    BY <1>1, <1>2, <1>3 DEF Active
  <1>5. Numbered'
    BY <1>4 DEF Numbered
  <1> DEFINE Was(k) == IF k = free THEN Active ELSE k
  <1>6. ASSUME NEW k \in DOMAIN files' PROVE Was(k) \in DOMAIN files /\ files'[k] = files[Was(k)]
    BY <1>1, <1>6
  <1>7. ASSUME NEW k \in DOMAIN files', NEW l \in DOMAIN files', Precedes(k, l) PROVE Precedes(Was(k), Was(l))
    <2>1. k \in 1..(m + 1) /\ l \in 1..(m + 1) /\ k < l
      BY <1>4, <1>7 DEF Precedes, Active
    <2>2. k # free /\ k # Active
      BY <1>3, <2>1 DEF Active
    <2> QED BY <1>7, <2>1, <2>2 DEF Precedes
  <1> HIDE DEF Was
  <1>8. ASSUME NEW k \in DOMAIN files', NEW l \in DOMAIN files', NEW i \in DOMAIN files'[k], NEW j \in DOMAIN files'[l],
               files'[k][i].id > 0, files'[l][j].id > 0, Precedes(k, l) \/ (k = l /\ i < j)
        PROVE  files'[k][i].seq < files'[l][j].seq
    <2>1. Was(k) \in DOMAIN files /\ Was(l) \in DOMAIN files /\ files'[k] = files[Was(k)] /\ files'[l] = files[Was(l)]
      BY <1>6
    <2>2. Precedes(Was(k), Was(l)) \/ (Was(k) = Was(l) /\ i < j)
      BY <1>7, <1>8
    <2> QED BY <1>8, <2>1, <2>2 DEF InOrder
  <1> QED BY <1>5, <1>8 DEF InOrder

\* An order has one event at a place.
LEMMA OrderIsStrict ==
    ASSUME committed \in Nat, FilesTyped, FragmentsClosed, InOrder
    PROVE  \A e, f \in OnDisk : e.seq = f.seq => e = f
  <1> SUFFICES ASSUME NEW e \in OnDisk, NEW f \in OnDisk, e.seq = f.seq PROVE e = f
    OBVIOUS
  <1>1. e \in Given /\ f \in Given /\ e.id > 0 /\ f.id > 0 /\ e.seq \in Nat
    BY OnDiskIs, GivenIs DEF Given
  <1>2. PICK k \in DOMAIN files : \E i \in DOMAIN files[k] : files[k][i] = e
    BY OnDiskIs
  <1>3. PICK i \in DOMAIN files[k] : files[k][i] = e
    BY <1>2
  <1>4. PICK l \in DOMAIN files : \E j \in DOMAIN files[l] : files[l][j] = f
    BY OnDiskIs
  <1>5. PICK j \in DOMAIN files[l] : files[l][j] = f
    BY <1>4
  <1>6. k \in Nat /\ l \in Nat
    BY DEF FilesTyped
  <1>7. CASE k # l
    <2>1. Precedes(k, l) \/ Precedes(l, k)
      BY <1>6, <1>7 DEF Precedes
    <2> QED BY <1>1, <1>3, <1>5, <2>1 DEF InOrder
  <1>8. CASE k = l
    <2>1. i \in Int /\ j \in Int
      BY <1>8 DEF FilesTyped
    <2>2. ~(i < j) /\ ~(j < i)
      BY <1>1, <1>3, <1>5, <1>8 DEF InOrder
    <2> QED BY <1>3, <1>5, <1>8, <2>1, <2>2
  <1> QED BY <1>7, <1>8

\* Steps that leave the ledger's rows and the mirror alone.
LEMMA NeatQuiet ==
    ASSUME NEW p, Neat(p), UNCHANGED <<rows, lastSeq, files>>,
           pc[p] # "pruning", pc'[p] # "pruning",
           rows = {} /\ pc[p] \in Between => pc'[p] \in Between \/ OnDisk = {},
           pc'[p] \in {"writing", "replacing"} => Sorted(todo'[p]) /\ Todo(p)' \subseteq rows
    PROVE  Neat(p)'
  <1>1. OnDisk' = OnDisk
    BY DEF OnDisk
  <1>2. InOrder' /\ Numbered'
    BY DEF Neat, InOrder, Numbered
  <1>3. rows' # {} \/ pc'[p] \notin Between => \A f \in OnDisk' : f.seq <= lastSeq'
    BY <1>1 DEF Neat
  <1> QED BY <1>1, <1>2, <1>3 DEF Neat

LEMMA NeatLockStep ==
    ASSUME NEW p, MirrorSure(p), Neat(p), LockStep(p)
    PROVE  Neat(p)'
  <1>1. p \in Procs /\ DOMAIN pc = Procs
    BY DEF MirrorSure, MirrorAlone, MirrorTyped, Shaped
  <1>2. UNCHANGED <<rows, lastSeq, files>>
    BY DEF LockStep, Create, WriteOwner, Blocked, ReadOwner, Steal, GiveUp, Release, store, disk
  <1>3. /\ pc[p] \in {"want", "created", "blocked", "stealing", "release"}
        /\ pc'[p] \in {"created", "locked", "blocked", "stealing", "want", "idle"}
    BY <1>1 DEF LockStep, Create, WriteOwner, Blocked, ReadOwner, Steal, GiveUp, Release, Goto
  <1> QED BY <1>2, <1>3, NeatQuiet DEF Between

\* Rows that are to be written are written in order.
LEMMA NeatTodo ==
    ASSUME NEW p, MirrorSure(p), Neat(p), UNCHANGED <<rows, lastSeq, files>>,
           pc[p] \in Captured \ {"pruning"}, pc'[p] \in {"writing", "replacing"},
           NEW S, S \subseteq rows, todo'[p] = SortBySeq(S)
    PROVE  Neat(p)'
  <1>1. committed \in Nat /\ S \subseteq Given /\ \A e, f \in S : e.seq = f.seq => e = f
    BY DEF MirrorSure, MirrorAlone, MirrorTyped, LedgerTyped, Neat
  <1>2. Sorted(SortBySeq(S)) /\ {SortBySeq(S)[i] : i \in DOMAIN SortBySeq(S)} = S
    BY <1>1, SortedTodo, TodoIs
  <1>3. Sorted(todo'[p]) /\ Todo(p)' \subseteq rows
    BY <1>2 DEF Todo
  <1> QED BY <1>3, NeatQuiet DEF Captured, Between

LEMMA NeatPlanning ==
    ASSUME NEW p, MirrorSure(p), Neat(p), Extend(p) \/ Repair(p) \/ Rewrite(p)
    PROVE  Neat(p)'
  <1>1. p \in Procs /\ Shaped
    BY DEF MirrorSure, MirrorAlone, MirrorTyped
  <1>2. CASE Extend(p)
    <2> DEFINE S == {e \in rows : e.seq > cert.seq /\ e.seq <= boundary[p].seq}
    <2>1. /\ UNCHANGED <<rows, lastSeq, files>> /\ pc[p] = "extending" /\ pc'[p] = "writing"
          /\ todo'[p] = SortBySeq(S)
      BY <1>1, <1>2 DEF Extend, store, disk, Goto, Shaped
    <2>2. S \subseteq rows
      OBVIOUS
    <2> HIDE DEF S
    <2> QED BY <2>1, <2>2, NeatTodo DEF Captured
  <1>3. CASE Repair(p) /\ HasGap(p)
    <2>1. UNCHANGED <<rows, lastSeq, files>> /\ pc[p] = "repairing" /\ pc'[p] = "rewriting"
      BY <1>1, <1>3 DEF Repair, store, disk, Goto, Shaped
    <2> QED BY <2>1, NeatQuiet DEF Between
  <1>4. CASE Repair(p) /\ ~HasGap(p)
    <2>1. /\ UNCHANGED <<rows, lastSeq, files>> /\ pc[p] = "repairing" /\ pc'[p] = "writing"
          /\ todo'[p] = SortBySeq(Missing(p))
      BY <1>1, <1>4 DEF Repair, store, disk, Goto, Shaped
    <2>2. Missing(p) \subseteq rows
      BY DEF Missing
    <2> QED BY <2>1, <2>2, NeatTodo DEF Captured
  <1>5. CASE Rewrite(p)
    <2> DEFINE S == {e \in rows : e.seq <= boundary[p].seq}
    <2>1. /\ UNCHANGED <<rows, lastSeq, files>> /\ pc[p] = "rewriting" /\ pc'[p] = "replacing"
          /\ todo'[p] = SortBySeq(S)
      BY <1>1, <1>5 DEF Rewrite, store, disk, Goto, Shaped
    <2>2. S \subseteq rows
      OBVIOUS
    <2> HIDE DEF S
    <2> QED BY <2>1, <2>2, NeatTodo DEF Captured
  <1> QED BY <1>2, <1>3, <1>4, <1>5

\* What is not on disk while a section writes is what it still has to write.
LEMMA MissingIsTodo ==
    ASSUME NEW p, MirrorSure(p), Clean, pc[p] = "writing"
    PROVE  rows \ OnDisk \subseteq Todo(p)
  <1>1. MirrorAlone(p) /\ PrefixKept(p)
    BY DEF MirrorSure, Kept, Sure
  <1>2. \A e \in rows : e \in Todo(p) \/ Covered(p, e)
    BY <1>1 DEF MirrorAlone, Section
  <1> QED BY <1>1, <1>2, CoveredIsOnDisk

LEMMA NeatCloseFragment ==
    ASSUME NEW p, MirrorSure(p), Neat(p), CloseFragment(p)
    PROVE  Neat(p)'
  <1>1. /\ p \in Procs /\ Shaped /\ MirrorAlone(p) /\ pc[p] = "writing"
        /\ committed \in Nat /\ FilesTyped /\ FragmentsClosed
    BY DEF MirrorSure, MirrorAlone, MirrorTyped, LedgerTyped, CloseFragment
  <1>2. /\ UNCHANGED <<rows, lastSeq, committed, pc, todo>>
        /\ WithLine(NewLine) /\ NewLine \in Line /\ NewLine.id = 0 /\ NewLine \notin Given
    BY FragmentClosed, GivenIs DEF CloseFragment, store, section, Line, NewLine
  <1>3. \A e : e \in OnDisk' <=> e \in OnDisk
    BY <1>1, <1>2, LineReads
  <1>4. OnDisk' = OnDisk
    BY <1>3
  <1>5. InOrder' /\ Numbered'
    BY <1>1, <1>2, LineInOrder DEF Neat
  <1>6. Todo(p)' = Todo(p)
    BY <1>2 DEF Todo
  <1>7. \A f \in OnDisk : f.seq <= lastSeq
    BY <1>1 DEF Neat, Between
  <1> QED BY <1>1, <1>2, <1>4, <1>5, <1>6, <1>7 DEF Neat

LEMMA NeatWriteLine ==
    ASSUME NEW p, MirrorSure(p), Saved(p), Clean, Neat(p), WriteLine(p)
    PROVE  Neat(p)'
  <1>1. /\ p \in Procs /\ Shaped /\ MirrorAlone(p) /\ pc[p] = "writing"
        /\ committed \in Nat /\ FilesTyped /\ FragmentsClosed /\ todo[p] \in Seq(Given) /\ todo[p] # <<>>
        /\ \A e \in rows : e.seq <= lastSeq
    BY DEF MirrorSure, MirrorAlone, MirrorTyped, LedgerTyped, SectionTyped, WriteLine
  <1>2. /\ UNCHANGED <<rows, lastSeq, committed, pc>>
        /\ WithLine(Head(todo[p])) /\ ~EndsWithFrag /\ todo'[p] = Tail(todo[p])
    BY <1>1 DEF WriteLine, store, Shaped
  <1> DEFINE l == Head(todo[p])
  <1>3. /\ l \in Given /\ l \in Line /\ 1 \in DOMAIN todo[p] /\ l = todo[p][1] /\ DOMAIN todo[p] \subseteq Nat \ {0}
        /\ DOMAIN Tail(todo[p]) \subseteq Nat \ {0}
        /\ \A i \in DOMAIN Tail(todo[p]) : i + 1 \in DOMAIN todo[p] /\ Tail(todo[p])[i] = todo[p][i + 1]
    BY <1>1, HeadAndTail, GivenIs
  <1>4. Sorted(todo[p]) /\ Todo(p) \subseteq rows /\ Todo(p) \subseteq rows \ OnDisk
    BY <1>1 DEF Neat, Saved, WritesNew
  <1>5. l \in rows \ OnDisk
    BY <1>3, <1>4 DEF Todo
  <1> HIDE DEF l
  <1>6. \A f \in OnDisk : f.seq < l.seq
    BY <1>5 DEF Neat
  <1>7. WithLine(l)
    BY <1>2 DEF l
  <1>8. InOrder' /\ Numbered'
    BY <1>1, <1>2, <1>3, <1>6, <1>7, LineInOrder DEF Neat
  <1>9. \A e : e \in OnDisk' <=> e \in OnDisk \/ e = l
    BY <1>1, <1>2, <1>3, <1>7, LineReads
  <1>10. ASSUME NEW e \in rows \ OnDisk', NEW f \in OnDisk' PROVE f.seq < e.seq
    <2>1. e \in rows \ OnDisk /\ e # l
      BY <1>9, <1>10
    <2>2. CASE f \in OnDisk
      BY <2>1, <2>2 DEF Neat
    <2>3. CASE f = l
      <3>1. PICK i \in DOMAIN todo[p] : todo[p][i] = e
        BY <1>1, <2>1, MissingIsTodo DEF Todo
      <3>2. i > 1
        BY <1>3, <2>1, <3>1
      <3> QED BY <1>3, <1>4, <2>3, <3>1, <3>2 DEF Sorted
    <2> QED BY <1>9, <2>2, <2>3
  <1>11. \A f \in OnDisk' : f.seq <= lastSeq
    BY <1>1, <1>5, <1>9 DEF Neat, Between
  <1>12. Sorted(todo'[p])
    <2>1. ASSUME NEW i \in DOMAIN Tail(todo[p]), NEW j \in DOMAIN Tail(todo[p]), i < j
          PROVE  Tail(todo[p])[i].seq < Tail(todo[p])[j].seq
      <3>1. i + 1 \in DOMAIN todo[p] /\ j + 1 \in DOMAIN todo[p] /\ i + 1 < j + 1
        BY <1>3, <2>1
      <3> QED BY <1>3, <1>4, <3>1 DEF Sorted
    <2> QED BY <1>2, <2>1 DEF Sorted
  <1>13. Todo(p)' \subseteq rows
    BY <1>2, <1>3, <1>4 DEF Todo
  <1> QED BY <1>1, <1>2, <1>8, <1>10, <1>11, <1>12, <1>13 DEF Neat

LEMMA NeatRotate ==
    ASSUME NEW p, MirrorSure(p), Neat(p), Rotate(p)
    PROVE  Neat(p)'
  <1>1. MirrorAlone(p) /\ pc[p] = "writing"
    BY DEF MirrorSure, Rotate
  <1>2. UNCHANGED <<rows, lastSeq, pc, todo>>
    BY DEF Rotate, store
  <1>3. OnDisk' = OnDisk /\ InOrder' /\ Numbered'
    BY <1>1, RotateKeeps, RotateInOrder DEF Neat
  <1>4. Todo(p)' = Todo(p)
    BY <1>2 DEF Todo
  <1>5. \A f \in OnDisk : f.seq <= lastSeq
    BY <1>1 DEF Neat, Between
  <1> QED BY <1>1, <1>2, <1>3, <1>4, <1>5 DEF Neat

LEMMA NeatReplace ==
    ASSUME NEW p, MirrorSure(p), Neat(p), Replace(p)
    PROVE  Neat(p)'
  <1>1. /\ p \in Procs /\ Shaped /\ MirrorAlone(p) /\ pc[p] = "replacing" /\ MirrorAlone(p)'
        /\ committed \in Nat /\ FilesTyped /\ FragmentsClosed /\ \A e \in rows : e.seq <= lastSeq /\ e \in Given
    BY ReplaceMirror DEF MirrorSure, MirrorAlone, MirrorTyped, LedgerTyped, Replace
  <1>2. /\ UNCHANGED <<rows, lastSeq, committed>> /\ pc'[p] = "pruning"
        /\ Active \in DOMAIN files' /\ files'[Active] = todo[p]
        /\ \A k \in DOMAIN files' : k # Active => k \in DOMAIN files /\ files'[k] = files[k]
    BY <1>1 DEF Replace, store, Goto, Shaped
  <1>3. FilesTyped' /\ FragmentsClosed' /\ rows \subseteq Lines(files'[Active])
    BY <1>1, <1>2 DEF MirrorAlone, MirrorTyped, Section
  <1>4. \A e : e \in OnDisk' <=> e \in Given /\ \E k \in DOMAIN files' : \E i \in DOMAIN files'[k] : files'[k][i] = e
    BY <1>1, <1>2, <1>3, OnDiskNextIs
  <1>5. rows \subseteq OnDisk'
    <2>1. ASSUME NEW e \in rows PROVE e \in OnDisk'
      <3>1. PICK i \in DOMAIN files'[Active] : files'[Active][i] = e
        BY <1>3, <2>1 DEF Lines
      <3> QED BY <1>1, <1>2, <1>4, <3>1
    <2> QED BY <2>1
  <1>6. ASSUME NEW f \in OnDisk' PROVE f.seq <= lastSeq
    <2>1. PICK k \in DOMAIN files' : \E i \in DOMAIN files'[k] : files'[k][i] = f
      BY <1>4
    <2>2. CASE k = Active
      BY <1>1, <1>2, <2>1, <2>2 DEF Neat, Todo
    <2>3. CASE k # Active
      <3>1. f \in OnDisk
        BY <1>1, <1>2, <1>4, <2>1, <2>3, OnDiskIs
      <3> QED BY <1>1, <3>1 DEF Neat, Between
    <2> QED BY <2>2, <2>3
  <1>7. Sorted(files'[Active])
    BY <1>1, <1>2 DEF Neat
  <1> QED BY <1>1, <1>2, <1>5, <1>6, <1>7 DEF Neat

LEMMA NeatPrune ==
    ASSUME NEW p, MirrorSure(p), Neat(p), Prune(p)
    PROVE  Neat(p)'
  <1>1. /\ p \in Procs /\ Shaped /\ MirrorAlone(p) /\ pc[p] = "pruning" /\ MirrorAlone(p)'
        /\ committed \in Nat /\ FilesTyped /\ FragmentsClosed /\ rows \subseteq Given
    BY PruneMirror DEF MirrorSure, MirrorAlone, MirrorTyped, LedgerTyped, Prune
  <1>2. /\ UNCHANGED <<rows, lastSeq, committed>> /\ FilesTyped' /\ FragmentsClosed'
        /\ Active \in DOMAIN files /\ rows \subseteq Lines(files[Active]) /\ Sorted(files[Active])
    BY <1>1 DEF Prune, store, MirrorAlone, MirrorTyped, Section, Neat
  <1>3. /\ Active \in DOMAIN files' /\ files'[Active] = files[Active]
        /\ \A k \in DOMAIN files' : k \in DOMAIN files /\ files'[k] = files[k]
        /\ pc'[p] = "pruning" \/ (pc'[p] = "certifying" /\ DOMAIN files' = {Active})
    <2>1. CASE DOMAIN files \subseteq {Active}
      BY <1>1, <1>2, <2>1 DEF Prune, Goto, Shaped
    <2>2. CASE ~(DOMAIN files \subseteq {Active})
      <3>1. Min(DOMAIN files \ {Active}) \in DOMAIN files \ {Active}
        BY <1>1, <2>2, MinIs DEF FilesTyped
      <3>2. files' = [k \in DOMAIN files \ {Min(DOMAIN files \ {Active})} |-> files[k]] /\ pc' = pc
        BY <2>2 DEF Prune
      <3> QED BY <1>1, <1>2, <3>1, <3>2
    <2> QED BY <2>1, <2>2
  <1>4. \A e : e \in OnDisk' <=> e \in Given /\ \E k \in DOMAIN files' : \E i \in DOMAIN files'[k] : files'[k][i] = e
    BY <1>1, <1>2, OnDiskNextIs
  <1>5. rows \subseteq OnDisk'
    <2>1. ASSUME NEW e \in rows PROVE e \in OnDisk'
      <3>1. PICK i \in DOMAIN files[Active] : files[Active][i] = e
        BY <1>2, <2>1 DEF Lines
      <3> QED BY <1>1, <1>3, <1>4, <3>1
    <2> QED BY <2>1
  <1>6. OnDisk' \subseteq OnDisk
    BY <1>1, <1>3, <1>4, OnDiskIs
  <1>7. \A f \in OnDisk' : f.seq <= lastSeq
    BY <1>1, <1>6 DEF Neat, Between
  <1>8. ASSUME DOMAIN files' = {Active} PROVE InOrder' /\ Numbered'
    <2>1. InOrder'
      BY <1>2, <1>3, <1>8 DEF InOrder, Sorted, Precedes
    <2>2. DOMAIN files' \ {Active} = 1..0
      BY <1>8
    <2> QED BY <2>1, <2>2 DEF Numbered
  <1> QED BY <1>2, <1>3, <1>5, <1>7, <1>8 DEF Neat

LEMMA NeatSectionStep ==
    ASSUME NEW p, MirrorSure(p), Saved(p), Clean, Neat(p), SectionStep(p)
    PROVE  Neat(p)'
  <1>1. p \in Procs /\ Shaped
    BY DEF MirrorSure, MirrorAlone, MirrorTyped
  <1>2. CASE Capture(p) \/ Written(p) \/ Certify(p) \/ CannotCertify(p)
    <2>1. UNCHANGED <<rows, lastSeq, files>>
      BY <1>2 DEF Capture, Written, Certify, CannotCertify, store, disk
    <2>2. /\ pc[p] \in {"locked", "writing", "certifying"}
          /\ pc'[p] \in {"rewriting", "repairing", "release", "extending", "certifying"}
      BY <1>1, <1>2 DEF Capture, Written, Certify, CannotCertify, Goto, Shaped
    <2> QED BY <2>1, <2>2, NeatQuiet DEF Between
  <1> QED BY <1>2, NeatPlanning, NeatCloseFragment, NeatWriteLine, NeatRotate, NeatReplace, NeatPrune DEF SectionStep

LEMMA NeatCrash ==
    ASSUME NEW p, MirrorSure(p), Neat(p), Crash(p), pc[p] # "pruning"
    PROVE  Neat(p)'
  <1>1. /\ p \in Procs /\ Shaped /\ MirrorAlone(p) /\ OnDisk' = OnDisk
        /\ committed \in Nat /\ FilesTyped /\ FragmentsClosed
    BY CrashMirror DEF MirrorSure, MirrorAlone, MirrorTyped, LedgerTyped
  <1>2. UNCHANGED <<rows, lastSeq, committed>> /\ pc'[p] = "down"
    BY <1>1 DEF Crash, store, Goto, Shaped
  <1>3. files' = files \/ (~EndsWithFrag /\ WithLine(Frag))
    BY DEF Crash
  <1>4. InOrder' /\ Numbered'
    <2>1. CASE files' = files
      BY <2>1 DEF Neat, InOrder, Numbered
    <2>2. CASE WithLine(Frag)
      BY <1>1, <1>2, <2>2, LineInOrder DEF Neat, Line, Frag
    <2> QED BY <1>3, <2>1, <2>2
  <1>5. rows # {} => \A f \in OnDisk : f.seq <= lastSeq
    BY DEF Neat
  <1> QED BY <1>1, <1>2, <1>4, <1>5 DEF Neat, Between

LEMMA NeatOtherUses ==
    ASSUME NEW p, MirrorSure(p), Saved(p), Clean, Neat(p), Open(p) \/ OpenEmpty(p) \/ Rebuild(p) \/ Close(p)
    PROVE  Neat(p)'
  <1>1. p \in Procs /\ Shaped /\ MirrorAlone(p)
    BY DEF MirrorSure, MirrorAlone, MirrorTyped
  <1>2. UNCHANGED <<rows, lastSeq, files>>
    BY <1>1, OtherUses
  <1>3. /\ pc[p] \in {"down", "idle"} /\ pc'[p] \in {"want", "clearing", "down"}
        /\ rows = {} /\ pc[p] \in Between /\ pc'[p] = "want" => Active \notin DOMAIN files \/ OnDisk = {}
    <2>1. CASE Open(p)
      BY <1>1, <2>1 DEF Open, Ask, Goto, Shaped
    <2>2. CASE OpenEmpty(p)
      BY <1>1, <2>2 DEF OpenEmpty, Ask, Goto, Shaped
    <2>3. CASE Rebuild(p) \/ Close(p)
      BY <1>1, <2>3 DEF Rebuild, Close, Goto, Shaped
    <2> QED BY <2>1, <2>2, <2>3
  <1>4. rows = {} /\ Active \notin DOMAIN files => OnDisk = {}
    BY DEF Saved, HasActive, OnDisk
  <1> QED BY <1>2, <1>3, <1>4, NeatQuiet DEF Between

LEMMA NeatAppend ==
    ASSUME NEW p, MirrorSure(p), Neat(p), AppendEvent(p)
    PROVE  Neat(p)'
  <1> DEFINE new == [id |-> committed + 1, seq |-> lastSeq + 1]
  <1>1. /\ p \in Procs /\ Shaped /\ pc[p] = "idle" /\ committed \in Nat /\ lastSeq \in Nat
        /\ MirrorAlone(p) /\ FilesTyped /\ FragmentsClosed /\ \A e \in rows : e \in Given /\ e.seq <= lastSeq
    BY DEF MirrorSure, MirrorAlone, MirrorTyped, LedgerTyped, AppendEvent
  <1>2. /\ rows' = rows \cup {new} /\ lastSeq' = lastSeq + 1 /\ files' = files /\ pc'[p] = "want"
    BY <1>1 DEF AppendEvent, Commit, Ask, disk, Goto, Shaped
  <1>3. OnDisk' = OnDisk /\ InOrder' /\ Numbered'
    BY <1>1, <1>2 DEF OnDisk, Neat, InOrder, Numbered
  <1>4. (\A f \in OnDisk : f.seq \in Nat /\ f.seq <= lastSeq) /\ \A e \in rows : e.seq \in Nat /\ e.seq <= lastSeq
    BY <1>1, OnDiskIs DEF Neat, Between, Given
  <1>5. new.seq = lastSeq + 1
    OBVIOUS
  <1> HIDE DEF new
  <1>6. \A e \in rows' \ OnDisk', f \in OnDisk' : f.seq < e.seq
    BY <1>1, <1>2, <1>3, <1>4, <1>5 DEF Neat
  <1>7. \A e, f \in rows' : e.seq = f.seq => e = f
    BY <1>1, <1>2, <1>4, <1>5 DEF Neat
  <1>8. \A f \in OnDisk' : f.seq <= lastSeq'
    BY <1>1, <1>2, <1>3, <1>4
  <1> QED BY <1>2, <1>3, <1>6, <1>7, <1>8 DEF Neat

LEMMA NeatClear ==
    ASSUME NEW p, MirrorSure(p), Neat(p), Clear(p) \/ ClearAll(p)
    PROVE  Neat(p)'
  <1>1. p \in Procs /\ Shaped
    BY DEF MirrorSure, MirrorAlone, MirrorTyped
  <1>2. /\ rows' \subseteq rows /\ files' = files
        /\ \/ pc[p] = "idle" /\ pc'[p] = "want" /\ lastSeq' = lastSeq
           \/ pc[p] = "clearing" /\ pc'[p] = "reinserting" /\ rows' = {}
    BY <1>1 DEF Clear, ClearAll, Ask, disk, Goto, Shaped
  <1>3. OnDisk' = OnDisk /\ InOrder' /\ Numbered'
    BY <1>2 DEF OnDisk, Neat, InOrder, Numbered
  <1>4. \A e \in rows' \ OnDisk', f \in OnDisk' : f.seq < e.seq
    BY <1>2, <1>3 DEF Neat
  <1>5. \A e, f \in rows' : e.seq = f.seq => e = f
    BY <1>2 DEF Neat
  <1>6. rows' # {} \/ pc'[p] \notin Between => \A f \in OnDisk' : f.seq <= lastSeq'
    BY <1>2, <1>3 DEF Neat, Between
  <1> QED BY <1>2, <1>3, <1>4, <1>5, <1>6 DEF Neat

LEMMA NeatReinsert ==
    ASSUME NEW p, MirrorSure(p), Saved(p), Neat(p), Reinsert(p)
    PROVE  Neat(p)'
  <1>1. /\ p \in Procs /\ Shaped /\ MirrorAlone(p) /\ pc[p] = "reinserting" /\ committed \in Nat
        /\ FilesTyped /\ FragmentsClosed
    BY DEF MirrorSure, MirrorAlone, MirrorTyped, LedgerTyped, Reinsert
  <1>2. /\ files' = files /\ pc'[p] = "want" /\ rows' = OnDisk
        /\ \A e \in rows' : e.seq <= lastSeq'
    BY <1>1, ReinsertIs DEF Saved, Rereading, LedgerTyped
  <1>3. OnDisk' = OnDisk /\ InOrder /\ InOrder' /\ Numbered'
    BY <1>1, <1>2 DEF OnDisk, Neat, InOrder, Numbered
  <1>4. \A e, f \in rows' : e.seq = f.seq => e = f
    BY <1>1, <1>2, <1>3, OrderIsStrict
  <1> QED BY <1>2, <1>3, <1>4 DEF Neat

LEMMA NeatStep ==
    ASSUME NEW p, MirrorSure(p), Saved(p), Clean', Clean, Neat(p), MirrorStep(p), "pruning" \notin load.crashAt
    PROVE  Neat(p)'
  <1>1. CASE LockStep(p) \/ SectionStep(p)
    BY <1>1, NeatLockStep, NeatSectionStep
  <1>2. CASE Use(p)
    BY <1>2, NeatOtherUses, NeatAppend, NeatClear, NeatReinsert DEF Use
  <1>3. CASE Crash(p)
    <2>1. pc[p] # "pruning"
      BY <1>3 DEF Crash
    <2> QED BY <1>3, <2>1, NeatCrash
  <1>4. CASE WriteFails(p) \/ Damage
    <2>1. mishaps' = Append(mishaps, "write") \/ mishaps' = Append(mishaps, "damage")
      BY <1>4 DEF WriteFails, Damage
    <2> QED BY <2>1, FailureIsNoted DEF MirrorSure, Mishaps
  <1> QED BY <1>1, <1>2, <1>3, <1>4 DEF MirrorStep

LEMMA NeatInit ==
    ASSUME NEW p, MirrorInit, p \in Procs
    PROVE  Neat(p)
  <1>1. rows = {} /\ DOMAIN files = {} /\ pc[p] = "down"
    BY DEF MirrorInit, NoSegments
  <1>2. InOrder /\ OnDisk = {}
    BY <1>1 DEF InOrder, OnDisk
  <1>3. Numbered
    <2>1. DOMAIN files \ {Active} = 1..0
      BY <1>1
    <2> QED BY <2>1 DEF Numbered
  <1> QED BY <1>1, <1>2, <1>3 DEF Neat

LEMMA NeatStutters ==
    ASSUME NEW p, Neat(p), UNCHANGED mirrorVars
    PROVE  Neat(p)'
  <1>1. UNCHANGED <<rows, lastSeq, files, pc, todo>>
    BY DEF mirrorVars
  <1>2. OnDisk' = OnDisk /\ Todo(p)' = Todo(p) /\ (InOrder' <=> InOrder) /\ (Numbered' <=> Numbered)
    BY <1>1 DEF OnDisk, Todo, InOrder, Numbered
  <1> QED BY <1>1, <1>2 DEF Neat

NeatHolds ==
    \A p \in Procs : load.procs = {p} /\ Undisturbed /\ "pruning" \notin load.crashAt /\ Clean => Neat(p)

LEMMA NeatHoldsAlways == MirrorSpec => []NeatHolds
  <1>1. MirrorInit => NeatHolds
    BY NeatInit DEF NeatHolds
  <1>2. SureHolds /\ SavedHolds /\ NeatHolds /\ [MirrorNext]_mirrorVars => NeatHolds'
    <2> SUFFICES ASSUME SureHolds, SavedHolds, NeatHolds, [MirrorNext]_mirrorVars PROVE NeatHolds'
      OBVIOUS
    <2>1. load' = load
      BY LoadStays
    <2>2. ASSUME NEW p \in Procs, load.procs = {p}, Undisturbed, "pruning" \notin load.crashAt, Clean' PROVE Neat(p)'
      <3>1. MirrorSure(p) /\ Saved(p)
        BY <2>2 DEF SureHolds, SavedHolds
      <3>2. CASE MirrorNext
        <4>1. MirrorStep(p)
          BY <2>2, <3>2, MirrorNextAlone
        <4>2. Clean
          BY <2>1, <2>2, <3>1, <4>1, MirrorSureStep
        <4>3. Neat(p)
          BY <2>2, <4>2 DEF NeatHolds
        <4> QED BY <2>2, <3>1, <4>1, <4>2, <4>3, NeatStep
      <3>3. CASE UNCHANGED mirrorVars
        <4>1. Clean
          BY <2>2, <3>3, StaysClean DEF mirrorVars
        <4>2. Neat(p)
          BY <2>2, <4>1 DEF NeatHolds
        <4> QED BY <3>3, <4>2, NeatStutters
      <3> QED BY <3>2, <3>3
    <2> QED BY <2>1, <2>2 DEF NeatHolds, Undisturbed
  <1> QED BY <1>1, <1>2, SureHoldsAlways, SavedHoldsAlways, PTL DEF MirrorSpec

\* When one process uses the store, the mirror reads in ledger order and holds no row
\* twice, wherever the process dies but between creating the lock file and writing its
\* name into it or among the rotated segments it removes, as long as no write failed and
\* no line was damaged.
THEOREM MirrorIsOrderedAlone ==
    MirrorSpec => [](/\ Cardinality(load.procs) = 1
                     /\ load.crashAt \cap {"created", "pruning"} = {} /\ MaxAttempts >= 2
                     /\ Clean
                     => MirrorIsOrdered)
  <1>1. SureHolds /\ NeatHolds
            => (/\ Cardinality(load.procs) = 1
                /\ load.crashAt \cap {"created", "pruning"} = {} /\ MaxAttempts >= 2
                /\ Clean
                => MirrorIsOrdered)
    <2> SUFFICES ASSUME SureHolds, NeatHolds, Cardinality(load.procs) = 1, Undisturbed, "pruning" \notin load.crashAt,
                        Clean
                 PROVE  MirrorIsOrdered
      BY DEF Undisturbed
    <2>1. PICK p \in Procs : load.procs = {p}
      BY AloneIs DEF SureHolds
    <2>2. pc[p] # "pruning" => InOrder
      BY <2>1 DEF NeatHolds, Neat
    <2> QED BY <2>2 DEF MirrorIsOrdered, InOrder, Readable
  <1> QED BY <1>1, SureHoldsAlways, NeatHoldsAlways, PTL
====
