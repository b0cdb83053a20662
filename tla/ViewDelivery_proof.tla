---- MODULE ViewDelivery_proof ----
(***************************************************************************)
(* Proofs about ViewDelivery for any processes, keys, limits and crashes.   *)
(*                                                                          *)
(* Inv explains DeliveredOnce: a call that holds the signal of its key is   *)
(* the only one that does, has recorded no receipt for it and, until it     *)
(* counts its turn, no delivery; a refetch counts nothing that a credit     *)
(* already counts, because what it found when it scanned the view can only  *)
(* be absorbed meanwhile.                                                   *)
(*                                                                          *)
(* Solo explains EngineCountsAsLedger and BypassIsEarned: while one process *)
(* serves the run, the engine it holds misses no event, so its counters are *)
(* those of the ledger, and a call that awaits a guard finds the ledger as  *)
(* it left it or learns from its version that it did not.                   *)
(*                                                                          *)
(* Few bounds what a view may hold besides the event that made it, for the  *)
(* window that its deliveries are counted in.                               *)
(***************************************************************************)
EXTENDS ViewDelivery, SetFacts

-----------------------------------------------------------------------------
(* The invariant *)

\* Where a call may be, and where it holds the signal of its key.
Pcs == {"idle", "resuming", "emitting", "routing", "guard", "answered", "accepted", "refused", "moved", "responding",
        "scanning", "delivering", "checking", "bypassing", "receipt", "recovering", "crediting"}
InHand == {"routing", "guard", "answered", "accepted", "refused", "moved", "responding",
        "scanning", "delivering", "checking", "bypassing", "receipt"}
Receipts == {"MCP_CONTINUATION_RECORDED"}

\* The records of a ledger of n events.
Events == [type : EventTypes, key : Keys \cup {NoKey}, n : Nat, view : Nat]
Credits(n) == [view : 1..n, key : Keys, absorbed : BOOLEAN]
Engines(n) == [turns : Nat, bypassed : BOOLEAN, counter : 1..n, ext : BOOLEAN]
CallRecords == [pc : Pcs, eng : Nat, key : Keys \cup {NoKey}, view : Nat, delivered : Nat, promotes : BOOLEAN, version : Nat]

\* The types; a call that has begun has an engine.
Typed ==
    /\ servers \subseteq Procs /\ servers # {}
    /\ log \in Seq(Events) /\ Len(log) >= 1 /\ log[1].type = "SKILL_INITIALIZED"
    /\ credits \subseteq Credits(Len(log)) /\ IsFiniteSet(credits)
    /\ snapshot \in 1..Len(log)
    /\ engines \in Seq(Engines(Len(log)))
    /\ cached \in [Procs -> 0..Len(engines)]
    /\ call \in [Calls -> CallRecords]
    /\ \A c \in Calls : call[c].eng \in (IF call[c].pc = "idle" THEN 0 ELSE 1)..Len(engines)

Has(l, types, k) == \E i \in DOMAIN l : l[i].type \in types /\ l[i].key = k

\* A delivery and a receipt follow the signal of their key, and a key has one of each.
Ledger(l) ==
    /\ \A i \in DOMAIN l : l[i].type \in Deliveries => l[i].view < i
    /\ \A i \in DOMAIN l : l[i].type \in Deliveries \cup Receipts /\ l[i].key # NoKey => Has(l, {"SIGNAL_EMITTED"}, l[i].key)
    /\ \A types \in {Deliveries, Receipts} : \A i, j \in DOMAIN l :
        l[i].type \in types /\ l[j].type \in types /\ l[i].key = l[j].key /\ l[i].key # NoKey => i = j

\* A credit that still counts is of a view that no delivery of its key counts.
Counted(l, cr) ==
    \A r \in cr : ~r.absorbed => \A i \in DOMAIN l : l[i].type \in Deliveries /\ l[i].key = r.key => l[i].view # r.view

\* Nothing of this key is left to be credited for this view.
Settled(l, cr, v, k) ==
    /\ \A x \in cr : x.view = v /\ x.key = k => x.absorbed
    /\ (\E x \in cr : x.view = v) \/ \E i \in DOMAIN l : l[i].type \in Deliveries /\ i > v

\* What a call holds.
Hand(c, r, l, cr) ==
    /\ r.pc # "idle" => (r.key = NoKey <=> c[2] = "fetch")
    /\ r.pc \in InHand /\ r.key # NoKey =>
        /\ Has(l, {"SIGNAL_EMITTED"}, r.key) /\ ~Has(l, Receipts, r.key)
        /\ r.pc \notin {"checking", "bypassing", "receipt"} => ~Has(l, Deliveries, r.key)
    /\ r.pc \in {"delivering", "crediting"} => r.view \in 1..Len(l)
    /\ r.pc = "resuming" => c[2] = "fetch"
    /\ r.pc \in {"emitting", "recovering", "crediting"} => r.key # NoKey
    /\ r.pc = "delivering" /\ ~r.promotes /\ r.delivered \in 1..MaxRefetches => Settled(l, cr, r.view, r.key)

\* Two calls never hold the signal of one key.
Apart ==
    \A c, d \in Calls : c # d /\ call[c].pc \in InHand /\ call[d].pc \in InHand /\ call[c].key # NoKey
        => call[c].key # call[d].key

Inv == Typed /\ Ledger(log) /\ Counted(log, credits) /\ Apart /\ \A c \in Calls : Hand(c, call[c], log, credits)

\* The turns of the ledger since its last reset, and whether it was moved to the bypass state.
Open(l) == {i \in DOMAIN l : l[i].type = "AGENT_TURN_STARTED" /\ \A j \in DOMAIN l : l[j].type \in Resets => j < i}
Moved(l) == \E i \in DOMAIN l : l[i].type = "BYPASS_TRANSITION"

\* What a call knows of the ledger from what it wrote or read last.
Quiet(r, l) ==
    /\ r.pc \in {"routing", "answered", "accepted"} \/ (r.pc = "guard" /\ r.version = Len(l)) => Open(l) = {}
    /\ r.pc \in {"answered", "accepted", "moved", "delivering"} \/ (r.pc = "guard" /\ r.version = Len(l)) => ~Moved(l)
    /\ r.pc = "moved" => l[Len(l)].type = "STATE_TRANSITION"
    /\ r.pc = "guard" => r.version <= Len(l)

\* An engine that counts as the ledger does.
Counts(en, l) == en.counter = Len(l) /\ ~en.ext /\ en.turns = Cardinality(Open(l)) /\ (en.bypassed <=> Moved(l))

\* One process serves the run: its calls run on the engine it holds, and nothing that a new
\* engine must replay is before the snapshot.
Solo ==
    /\ \A c \in Calls : call[c].pc # "idle" => c[1] \in servers /\ call[c].eng = cached[c[1]]
    /\ \A p \in Procs : cached[p] # 0 => p \in servers /\ Counts(engines[cached[p]], log)
    /\ \A i \in DOMAIN log : i <= snapshot => i \notin Open(log) /\ log[i].type # "BYPASS_TRANSITION"
    /\ \A c \in Calls : Quiet(call[c], log)

Solos == Alone => Solo

-----------------------------------------------------------------------------
(* The ledger grows *)

\* A ledger with one more event.
LEMMA Grown ==
    ASSUME NEW S, NEW l \in Seq(S), NEW e \in S
    PROVE  /\ Append(l, e) \in Seq(S) /\ Len(Append(l, e)) = Len(l) + 1 /\ DOMAIN Append(l, e) = 1..(Len(l) + 1)
           /\ DOMAIN l = 1..Len(l) /\ Len(l) \in Nat
           /\ \A i \in DOMAIN l : Append(l, e)[i] = l[i]
           /\ Append(l, e)[Len(l) + 1] = e
  OBVIOUS

\* The same of a ledger that became it.
LEMMA GrownInto ==
    ASSUME NEW S, NEW l \in Seq(S), NEW e \in S, NEW m, m = Append(l, e)
    PROVE  m \in Seq(S) /\ Len(m) = Len(l) + 1 /\ (\A i \in DOMAIN l : m[i] = l[i]) /\ m[Len(l) + 1] = e
  BY Grown

\* What a grown ledger holds: what it held, and the new event.
LEMMA HasGrown ==
    ASSUME NEW l \in Seq(Events), NEW e \in Events, NEW types, NEW k
    PROVE  Has(Append(l, e), types, k) <=> Has(l, types, k) \/ (e.type \in types /\ e.key = k)
  <1> DEFINE m == Append(l, e)
  <1>1. /\ DOMAIN m = 1..(Len(l) + 1) /\ DOMAIN l = 1..Len(l) /\ Len(l) \in Nat
        /\ \A i \in DOMAIN l : m[i] = l[i]
        /\ m[Len(l) + 1] = e
    BY Grown
  <1> HIDE DEF m
  <1>2. \A i \in DOMAIN m : i \in DOMAIN l \/ i = Len(l) + 1
    BY <1>1
  <1>3. (\A i \in DOMAIN l : i \in DOMAIN m) /\ Len(l) + 1 \in DOMAIN m
    BY <1>1
  <1>4. Has(m, types, k) <=> Has(l, types, k) \/ (e.type \in types /\ e.key = k)
    BY <1>1, <1>2, <1>3 DEF Has
  <1> QED BY <1>4 DEF m

\* A delivery or a receipt whose key has none yet keeps the ledger sound.
LEMMA LedgerGrown ==
    ASSUME NEW l \in Seq(Events), Ledger(l), NEW e \in Events,
           e.type \in Deliveries => e.view \in 0..Len(l),
           e.type \in Deliveries \cup Receipts /\ e.key # NoKey => Has(l, {"SIGNAL_EMITTED"}, e.key),
           \A types \in {Deliveries, Receipts} : e.type \in types /\ e.key # NoKey => ~Has(l, types, e.key)
    PROVE  Ledger(Append(l, e))
  <1> DEFINE m == Append(l, e)
  <1>1. /\ DOMAIN m = 1..(Len(l) + 1) /\ DOMAIN l = 1..Len(l) /\ Len(l) \in Nat
        /\ \A i \in DOMAIN l : m[i] = l[i]
        /\ m[Len(l) + 1] = e
    BY Grown
  <1>2. \A types, k : Has(m, types, k) <=> Has(l, types, k) \/ (e.type \in types /\ e.key = k)
    BY HasGrown
  <1> HIDE DEF m
  <1>3. \A i \in DOMAIN m : i \in DOMAIN l \/ i = Len(l) + 1
    BY <1>1
  <1>4. ASSUME NEW i \in DOMAIN m, m[i].type \in Deliveries PROVE m[i].view < i
    <2>1. CASE i \in DOMAIN l
      BY <1>1, <1>4, <2>1 DEF Ledger
    <2>2. CASE i = Len(l) + 1
      BY <1>1, <1>4, <2>2
    <2> QED BY <1>3, <2>1, <2>2
  <1>5. ASSUME NEW i \in DOMAIN m, m[i].type \in Deliveries \cup Receipts, m[i].key # NoKey
        PROVE  Has(m, {"SIGNAL_EMITTED"}, m[i].key)
    <2>1. CASE i \in DOMAIN l
      BY <1>1, <1>2, <1>5, <2>1 DEF Ledger
    <2>2. CASE i = Len(l) + 1
      BY <1>1, <1>2, <1>5, <2>2
    <2> QED BY <1>3, <2>1, <2>2
  <1>6. ASSUME NEW types \in {Deliveries, Receipts}, NEW i \in DOMAIN m, NEW j \in DOMAIN m,
               m[i].type \in types, m[j].type \in types, m[i].key = m[j].key, m[i].key # NoKey
        PROVE  i = j
    <2>1. CASE i \in DOMAIN l /\ j \in DOMAIN l
      BY <1>1, <1>6, <2>1 DEF Ledger
    <2>2. CASE i \in DOMAIN l /\ j = Len(l) + 1
      BY <1>1, <1>6, <2>2 DEF Has
    <2>3. CASE i = Len(l) + 1 /\ j \in DOMAIN l
      BY <1>1, <1>6, <2>3 DEF Has
    <2> QED BY <1>3, <2>1, <2>2, <2>3
  <1>7. Ledger(m)
    BY <1>4, <1>5, <1>6 DEF Ledger
  <1> QED BY <1>7 DEF m

\* Credits that were there, some of them absorbed meanwhile.
Follows(new, old) ==
    /\ \A x \in new : \E y \in old : x.view = y.view /\ x.key = y.key /\ (y.absorbed => x.absorbed)
    /\ \A y \in old : \E x \in new : x.view = y.view

\* Credits that stay follow themselves.
LEMMA FollowsSelf == ASSUME NEW cr PROVE Follows(cr, cr)
  BY DEF Follows

\* A settled view stays settled: its credits may only be absorbed.
LEMMA SettledStays ==
    ASSUME NEW l \in Seq(Events), NEW e \in Events, NEW m, m = l \/ m = Append(l, e),
           NEW old, NEW new, Follows(new, old), NEW v, NEW k, Settled(l, old, v, k)
    PROVE  Settled(m, new, v, k)
  <1>1. \A i \in DOMAIN l : i \in DOMAIN m /\ m[i] = l[i]
    BY Grown
  <1>2. \A x \in new : x.view = v /\ x.key = k => x.absorbed
    <2> SUFFICES ASSUME NEW x \in new, x.view = v, x.key = k PROVE x.absorbed
      OBVIOUS
    <2>1. PICK y \in old : x.view = y.view /\ x.key = y.key /\ (y.absorbed => x.absorbed)
      BY DEF Follows
    <2>2. y.absorbed
      BY <2>1 DEF Settled
    <2> QED BY <2>1, <2>2
  <1>3. (\E x \in old : x.view = v) => \E x \in new : x.view = v
    BY DEF Follows
  <1> QED BY <1>1, <1>2, <1>3 DEF Settled

\* What a call holds stays true while others write events of their own.
LEMMA HandStays ==
    ASSUME NEW d, NEW r \in CallRecords, NEW l \in Seq(Events), NEW e \in Events, NEW m, m = l \/ m = Append(l, e),
           NEW old, NEW new, Follows(new, old), Hand(d, r, l, old),
           m # l /\ e.type \in Deliveries \cup Receipts /\ e.key # NoKey /\ r.pc \in InHand => e.key # r.key
    PROVE  Hand(d, r, m, new)
  <1>1. Has(l, {"SIGNAL_EMITTED"}, r.key) => Has(m, {"SIGNAL_EMITTED"}, r.key)
    <2>1. CASE m = l
      BY <2>1
    <2>2. CASE m = Append(l, e)
      BY <2>2, HasGrown
    <2> QED BY <2>1, <2>2
  <1>2. ASSUME NEW types \in {Deliveries, Receipts}, r.pc \in InHand, r.key # NoKey, ~Has(l, types, r.key)
        PROVE  ~Has(m, types, r.key)
    <2>1. CASE m = l
      BY <1>2, <2>1
    <2>2. CASE m # l
      <3>1. ~(e.type \in types /\ e.key = r.key)
        BY <1>2, <2>2
      <3>2. m = Append(l, e)
        BY <2>2
      <3> QED BY <1>2, <3>1, <3>2, HasGrown
    <2> QED BY <2>1, <2>2
  <1>3. r.view \in 1..Len(l) => r.view \in 1..Len(m)
    <2>1. Len(l) \in Nat /\ (Len(m) = Len(l) \/ Len(m) = Len(l) + 1)
      BY Grown
    <2> QED BY <2>1
  <1>4. Settled(l, old, r.view, r.key) => Settled(m, new, r.view, r.key)
    BY SettledStays
  <1>5. r.pc \in InHand /\ r.key # NoKey =>
          /\ Has(m, {"SIGNAL_EMITTED"}, r.key) /\ ~Has(m, Receipts, r.key)
          /\ r.pc \notin {"checking", "bypassing", "receipt"} => ~Has(m, Deliveries, r.key)
    BY <1>1, <1>2 DEF Hand
  <1> QED BY <1>3, <1>4, <1>5 DEF Hand

\* A credit that counts is for a response that no delivery counts.
LEMMA CountedStays ==
    ASSUME NEW l \in Seq(Events), NEW e \in Events, NEW m, m = l \/ m = Append(l, e),
           NEW old, NEW new, Follows(new, old), Counted(l, old),
           \A x \in new : m # l /\ e.type \in Deliveries /\ x.key = e.key /\ ~x.absorbed => x.view # e.view
    PROVE  Counted(m, new)
  <1> SUFFICES ASSUME NEW x \in new, ~x.absorbed, NEW i \in DOMAIN m, m[i].type \in Deliveries, m[i].key = x.key
               PROVE  m[i].view # x.view
    BY DEF Counted
  <1>1. CASE i \in DOMAIN l
    <2>1. m[i] = l[i]
      BY <1>1, Grown
    <2>2. PICK y \in old : x.view = y.view /\ x.key = y.key /\ (y.absorbed => x.absorbed)
      BY DEF Follows
    <2> QED BY <1>1, <2>1, <2>2 DEF Counted
  <1>2. CASE i \notin DOMAIN l
    <2>1. m # l /\ m = Append(l, e)
      BY <1>2
    <2>2. m[i] = e
      <3>1. i = Len(l) + 1 /\ m[Len(l) + 1] = e
        BY <1>2, <2>1, Grown
      <3> QED BY <3>1
    <2> QED BY <2>1, <2>2
  <1> QED BY <1>1, <1>2

-----------------------------------------------------------------------------
(* A step of one call *)

\* What the invariant says of one call.
LEMMA Basics ==
    ASSUME Inv, NEW c \in Calls
    PROVE  /\ log \in Seq(Events) /\ DOMAIN log = 1..Len(log) /\ Len(log) \in Nat /\ Len(log) >= 1 /\ log[1] \in Events
           /\ log[1].type = "SKILL_INITIALIZED"
           /\ call \in [Calls -> CallRecords] /\ call[c] \in CallRecords
           /\ call[c].eng \in (IF call[c].pc = "idle" THEN 0 ELSE 1)..Len(engines)
           /\ Hand(c, call[c], log, credits)
           /\ engines \in Seq(Engines(Len(log))) /\ Len(engines) \in Nat
           /\ credits \subseteq Credits(Len(log)) /\ IsFiniteSet(credits) /\ snapshot \in 1..Len(log)
           /\ cached \in [Procs -> 0..Len(engines)]
  BY DEF Inv, Typed

\* An engine's counter and a credit's view stay positions of the ledger when it grows.
LEMMA PositionsGrow ==
    ASSUME NEW n \in Nat, NEW k \in Nat, n <= k
    PROVE  Credits(n) \subseteq Credits(k) /\ Engines(n) \subseteq Engines(k) /\ Seq(Engines(n)) \subseteq Seq(Engines(k))
  <1>1. 1..n \subseteq 1..k
    OBVIOUS
  <1>2. Credits(n) \subseteq Credits(k) /\ Engines(n) \subseteq Engines(k)
    BY <1>1 DEF Credits, Engines
  <1> QED BY <1>2

\* The ledger after a step that may have written an event.
LEMMA LogGrows ==
    ASSUME log \in Seq(Events), Len(log) >= 1, NEW e \in Events, log' = log \/ log' = Append(log, e)
    PROVE  log' \in Seq(Events) /\ Len(log') \in Nat /\ Len(log) <= Len(log') /\ log'[1] = log[1]
  <1>1. CASE log' = log
    BY <1>1
  <1>2. CASE log' = Append(log, e)
    <2>1. log' \in Seq(Events) /\ Len(log') = Len(log) + 1 /\ \A i \in DOMAIN log : log'[i] = log[i]
      BY <1>2, GrownInto
    <2>2. 1 \in DOMAIN log /\ Len(log) \in Nat
      OBVIOUS
    <2> QED BY <2>1, <2>2
  <1> QED BY <1>1, <1>2

\* One call does something: it may write one event, and what it then holds is in order.
LEMMA StepKeeps ==
    ASSUME Inv, NEW c \in Calls, NEW r \in CallRecords, NEW e \in Events,
           log' = log \/ log' = Append(log, e),
           log' # log =>
               /\ e.type \in Deliveries => e.view \in 0..Len(log)
               /\ e.type \in Deliveries \cup Receipts /\ e.key # NoKey => call[c].pc \in InHand /\ e.key = call[c].key
               /\ \A types \in {Deliveries, Receipts} : e.type \in types /\ e.key # NoKey => ~Has(log, types, e.key)
               /\ \A x \in credits' : e.type \in Deliveries /\ x.key = e.key /\ ~x.absorbed => x.view # e.view,
           Follows(credits', credits), credits' \subseteq Credits(Len(log)), IsFiniteSet(credits'),
           call' = [call EXCEPT ![c] = r], Hand(c, r, log', credits'),
           r.pc \in InHand /\ r.key # NoKey =>
               (call[c].pc \in InHand /\ call[c].key = r.key) \/ ~Has(log, {"SIGNAL_EMITTED"}, r.key),
           r.eng \in (IF r.pc = "idle" THEN 0 ELSE 1)..Len(engines'),
           snapshot' \in 1..Len(log'), engines' \in Seq(Engines(Len(log'))), Len(engines) <= Len(engines'),
           cached' \in [Procs -> 0..Len(engines')], servers' = servers
    PROVE  Inv'
  <1>1. /\ log \in Seq(Events) /\ DOMAIN log = 1..Len(log) /\ Len(log) \in Nat /\ Len(log) >= 1
        /\ log[1].type = "SKILL_INITIALIZED" /\ call \in [Calls -> CallRecords] /\ Len(engines) \in Nat
    BY Basics
  <1>2. log' \in Seq(Events) /\ Len(log') \in Nat /\ Len(log) <= Len(log') /\ log'[1] = log[1]
    BY <1>1, LogGrows
  <1>3. \A d \in Calls : call'[d] = IF d = c THEN r ELSE call[d]
    BY <1>1
  <1>4. Ledger(log')
    <2>1. CASE log' = log
      BY <2>1 DEF Inv
    <2>2. CASE log' # log
      <3>1. e.type \in Deliveries \cup Receipts /\ e.key # NoKey => Has(log, {"SIGNAL_EMITTED"}, e.key)
        <4>1. Hand(c, call[c], log, credits)
          BY Basics
        <4> QED BY <2>2, <4>1 DEF Hand
      <3>2. Ledger(Append(log, e))
        BY <1>1, <2>2, <3>1, LedgerGrown DEF Inv
      <3> QED BY <2>2, <3>2
    <2> QED BY <2>1, <2>2
  <1>5. Counted(log', credits')
    <2>1. Counted(log, credits)
      BY DEF Inv
    <2>2. \A x \in credits' : log' # log /\ e.type \in Deliveries /\ x.key = e.key /\ ~x.absorbed => x.view # e.view
      OBVIOUS
    <2> QED BY <1>1, <2>1, <2>2, CountedStays
  <1>6. ASSUME NEW d \in Calls PROVE Hand(d, call'[d], log', credits')
    <2>1. CASE d = c
      BY <1>3, <2>1
    <2>2. CASE d # c
      <3>1. call[d] \in CallRecords /\ Hand(d, call[d], log, credits)
        BY Basics
      <3>2. log' # log /\ e.type \in Deliveries \cup Receipts /\ e.key # NoKey /\ call[d].pc \in InHand
                => e.key # call[d].key
        BY <2>2 DEF Inv, Apart
      <3>3. Hand(d, call[d], log', credits')
        BY <1>1, <3>1, <3>2, HandStays
      <3> QED BY <1>3, <2>2, <3>3
    <2> QED BY <2>1, <2>2
  <1>7. Apart'
    <2> SUFFICES ASSUME NEW a \in Calls, NEW b \in Calls, a # b, call'[a].pc \in InHand, call'[b].pc \in InHand,
                        call'[a].key # NoKey, call'[a].key = call'[b].key
                 PROVE  FALSE
      BY DEF Apart
    <2>1. ASSUME NEW d \in Calls, d # c, call[d].pc \in InHand, r.pc \in InHand, r.key # NoKey, call[d].key = r.key
          PROVE  FALSE
      <3>1. Hand(d, call[d], log, credits)
        BY Basics
      <3>2. Has(log, {"SIGNAL_EMITTED"}, r.key)
        BY <2>1, <3>1 DEF Hand
      <3> QED BY <2>1, <3>2 DEF Inv, Apart
    <2>2. CASE a = c
      BY <1>3, <2>1, <2>2
    <2>3. CASE b = c
      BY <1>3, <2>1, <2>3
    <2>4. CASE a # c /\ b # c
      BY <1>3, <2>4 DEF Inv, Apart
    <2> QED BY <2>2, <2>3, <2>4
  <1>8. Typed'
    <2>1. credits' \subseteq Credits(Len(log'))
      BY <1>1, <1>2, PositionsGrow
    <2>2. call' \in [Calls -> CallRecords]
      BY <1>1
    <2>3. ASSUME NEW d \in Calls PROVE call'[d].eng \in (IF call'[d].pc = "idle" THEN 0 ELSE 1)..Len(engines')
      <3>1. CASE d = c
        BY <1>3, <3>1
      <3>2. CASE d # c
        <4>1. call[d].eng \in (IF call[d].pc = "idle" THEN 0 ELSE 1)..Len(engines) /\ Len(engines') \in Nat
          BY Basics
        <4>2. call[d].eng \in (IF call[d].pc = "idle" THEN 0 ELSE 1)..Len(engines')
          BY <1>1, <4>1
        <4> QED BY <1>3, <3>2, <4>2
      <3> QED BY <3>1, <3>2
    <2>4. servers' \subseteq Procs /\ servers' # {} /\ Len(log') >= 1 /\ log'[1].type = "SKILL_INITIALIZED"
      BY <1>1, <1>2 DEF Inv, Typed
    <2> QED BY <1>2, <2>1, <2>2, <2>3, <2>4 DEF Typed
  <1> QED BY <1>4, <1>5, <1>6, <1>7, <1>8 DEF Inv

\* A step that writes no event.
LEMMA QuietStep ==
    ASSUME Inv, NEW c \in Calls, NEW r \in CallRecords,
           UNCHANGED <<servers, log, credits>>, snapshot' \in 1..Len(log),
           engines' \in Seq(Engines(Len(log))), Len(engines) <= Len(engines'), cached' \in [Procs -> 0..Len(engines')],
           call' = [call EXCEPT ![c] = r], Hand(c, r, log, credits),
           r.pc \in InHand /\ r.key # NoKey => call[c].pc \in InHand /\ call[c].key = r.key,
           r.eng \in (IF r.pc = "idle" THEN 0 ELSE 1)..Len(engines')
    PROVE  Inv'
  <1>1. log[1] \in Events /\ credits \subseteq Credits(Len(log)) /\ IsFiniteSet(credits)
    BY Basics
  <1>2. Follows(credits', credits)
    BY FollowsSelf
  <1>3. Hand(c, r, log', credits')
    OBVIOUS
  <1> QED BY <1>1, <1>2, <1>3, StepKeeps

\* Where a delivery has been counted.
Past == {"checking", "bypassing", "receipt"}

\* A call that goes on holds what it held.
LEMMA HandGoesOn ==
    ASSUME Inv, NEW c \in Calls, NEW r \in CallRecords,
           r.pc = "idle" \/ (call[c].pc # "idle" /\ r.key = call[c].key), r.pc \notin {"resuming", "emitting", "delivering", "crediting"},
           r.pc = "recovering" => call[c].pc = "emitting",
           r.pc \in InHand => call[c].pc \in InHand /\ (call[c].pc \in Past => r.pc \in Past)
    PROVE  Hand(c, r, log, credits) /\ (r.pc \in InHand /\ r.key # NoKey => call[c].pc \in InHand /\ call[c].key = r.key)
  <1>1. Hand(c, call[c], log, credits)
    BY Basics
  <1>2. "idle" \notin InHand
    BY DEF InHand
  <1> QED BY <1>1, <1>2 DEF Hand, Past

\* A step that writes an event of no submission.
LEMMA KeylessStep ==
    ASSUME ConstantsAssumption, Inv, NEW c \in Calls, NEW r \in CallRecords,
           NEW t \in EventTypes, t \notin Deliveries, t \notin Receipts,
           log' = Append(log, Event(t, NoKey, 0)), UNCHANGED <<servers, credits>>, snapshot' \in 1..Len(log'),
           engines' \in Seq(Engines(Len(log'))), Len(engines) <= Len(engines'), cached' \in [Procs -> 0..Len(engines')],
           call' = [call EXCEPT ![c] = r],
           r.pc = "idle" \/ (call[c].pc # "idle" /\ r.key = call[c].key), r.pc \notin {"resuming", "emitting", "delivering", "crediting"},
           r.pc = "recovering" => call[c].pc = "emitting",
           r.pc \in InHand => call[c].pc \in InHand /\ (call[c].pc \in Past => r.pc \in Past),
           r.eng \in (IF r.pc = "idle" THEN 0 ELSE 1)..Len(engines')
    PROVE  Inv'
  <1> DEFINE e == Event(t, NoKey, 0)
  <1>1. e \in Events /\ e.type = t /\ e.key = NoKey
    BY DEF Event, Events
  <1>2. log \in Seq(Events) /\ credits \subseteq Credits(Len(log)) /\ IsFiniteSet(credits)
    BY Basics
  <1>3. Follows(credits', credits)
    BY FollowsSelf
  <1>4. Hand(c, r, log, credits) /\ (r.pc \in InHand /\ r.key # NoKey => call[c].pc \in InHand /\ call[c].key = r.key)
    BY HandGoesOn
  <1>5. log' = Append(log, e)
    OBVIOUS
  <1> HIDE DEF e
  <1>6. Hand(c, r, log', credits')
    BY <1>1, <1>2, <1>3, <1>4, <1>5, HandStays
  <1>7. /\ e.type \in Deliveries => e.view \in 0..Len(log)
        /\ e.type \in Deliveries \cup Receipts /\ e.key # NoKey => call[c].pc \in InHand /\ e.key = call[c].key
        /\ \A types \in {Deliveries, Receipts} : e.type \in types /\ e.key # NoKey => ~Has(log, types, e.key)
        /\ \A x \in credits' : e.type \in Deliveries /\ x.key = e.key /\ ~x.absorbed => x.view # e.view
    BY <1>1
  <1>8. credits' \subseteq Credits(Len(log)) /\ IsFiniteSet(credits')
    BY <1>2
  <1> QED BY <1>1, <1>3, <1>4, <1>5, <1>6, <1>7, <1>8, StepKeeps

\* The engine that appends counts the event.
LEMMA EngineWrites ==
    ASSUME Inv, NEW e \in 1..Len(engines), NEW event \in Events, NEW turns \in Nat, NEW bypassed \in BOOLEAN,
           Append1(e, event, turns, bypassed)
    PROVE  /\ log' = Append(log, event) /\ Len(log') = Len(log) + 1
           /\ engines' \in Seq(Engines(Len(log'))) /\ Len(engines') = Len(engines)
           /\ cached \in [Procs -> 0..Len(engines')] /\ snapshot \in 1..Len(log')
           /\ \A d \in 1..Len(engines) : d # e => engines'[d] = engines[d]
           /\ engines'[e] = [turns |-> turns, bypassed |-> bypassed, counter |-> Len(log) + 1,
                             ext |-> engines[e].ext \/ Len(log) > engines[e].counter]
  <1> DEFINE n == Len(log) + 1
             x == [turns |-> turns, bypassed |-> bypassed, counter |-> n, ext |-> engines[e].ext \/ Len(log) > engines[e].counter]
  <1>1. /\ log \in Seq(Events) /\ Len(log) \in Nat /\ engines \in Seq(Engines(Len(log))) /\ Len(engines) \in Nat
        /\ cached \in [Procs -> 0..Len(engines)] /\ snapshot \in 1..Len(log)
    BY DEF Inv, Typed
  <1>2. log' = Append(log, event) /\ Len(log') = n /\ n \in Nat
    BY <1>1, Grown DEF Append1
  <1>3. engines \in Seq(Engines(n))
    BY <1>1, <1>2, PositionsGrow
  <1>4. engines[e] \in Engines(Len(log))
    BY <1>1
  <1>5. x \in Engines(n)
    <2>1. n \in 1..n
      BY <1>1
    <2>2. (engines[e].ext \/ Len(log) > engines[e].counter) \in BOOLEAN
      BY <1>4 DEF Engines
    <2> HIDE DEF n
    <2> QED BY <2>1, <2>2 DEF Engines
  <1>6. engines' = [engines EXCEPT ![e] = x]
    <2> DEFINE en == engines[e]
               b == en.ext \/ Len(log) > en.counter
    <2>1. en = [turns |-> en.turns, bypassed |-> en.bypassed, counter |-> en.counter, ext |-> en.ext]
      BY <1>4 DEF Engines
    <2>2. Noted(e) = [en EXCEPT !.ext = b, !.counter = n]
      BY DEF Noted
    <2>3. engines' = [engines EXCEPT ![e] = [Noted(e) EXCEPT !.turns = turns, !.bypassed = bypassed]]
      BY DEF Append1
    <2>4. x = [turns |-> turns, bypassed |-> bypassed, counter |-> n, ext |-> b]
      OBVIOUS
    <2> HIDE DEF en, b, x
    <2>5. Noted(e) = [turns |-> en.turns, bypassed |-> en.bypassed, counter |-> n, ext |-> b]
      BY <2>1, <2>2
    <2> DEFINE q == Noted(e)
               y == [q EXCEPT !.turns = turns, !.bypassed = bypassed]
    <2>6. engines' = [engines EXCEPT ![e] = y]
      BY <2>3
    <2>7. y = [q EXCEPT !.turns = turns, !.bypassed = bypassed]
          /\ q = [turns |-> en.turns, bypassed |-> en.bypassed, counter |-> n, ext |-> b]
      BY <2>5
    <2> HIDE DEF q, y
    <2>8. y = [turns |-> turns, bypassed |-> bypassed, counter |-> n, ext |-> b]
      BY <2>7
    <2> QED BY <2>4, <2>6, <2>8
  <1> HIDE DEF n, x
  <1>7. engines' \in Seq(Engines(n)) /\ Len(engines') = Len(engines) /\ engines'[e] = x
        /\ \A d \in 1..Len(engines) : d # e => engines'[d] = engines[d]
    BY <1>3, <1>5, <1>6
  <1>8. snapshot \in 1..Len(log')
    BY <1>1, <1>2 DEF n
  <1> QED BY <1>1, <1>2, <1>7, <1>8 DEF n, x

-----------------------------------------------------------------------------
(* Views and engines *)

\* The number of some positions of the ledger.
LEMMA PositionsCounted ==
    ASSUME Inv, NEW S, S \subseteq DOMAIN log
    PROVE  Cardinality(S) \in Nat
  <1>1. DOMAIN log = 1..Len(log) /\ Len(log) \in Nat
    BY DEF Inv, Typed
  <1> QED BY <1>1, PositionsFinite, FS_CardinalityType

\* The current view is named by an event: before the window is full the first one is in it.
LEMMA ViewIsPosition ==
    ASSUME ConstantsAssumption, Inv
    PROVE  ViewSeq \in 1..Len(log)
  <1> DEFINE V == Recent \cap ViewChanges
  <1>1. DOMAIN log = 1..Len(log) /\ Len(log) \in Nat /\ Len(log) >= 1 /\ log[1].type = "SKILL_INITIALIZED"
    BY DEF Inv, Typed
  <1>2. Window \in Nat
    BY DEF Window, ConstantsAssumption
  <1>3. CASE V # {}
    <2>1. V \subseteq 1..Len(log) /\ V \subseteq 0..Len(log)
      BY <1>1 DEF Recent
    <2> HIDE DEF V
    <2>2. Max(V) \in V
      BY <1>1, <1>3, <2>1, MaxFacts
    <2>3. Max(V) \in 1..Len(log)
      BY <2>1, <2>2
    <2> QED BY <1>3, <2>3 DEF ViewSeq, V
  <1>4. CASE V = {}
    <2>1. Len(log) > Window
      <3> SUFFICES ASSUME ~(Len(log) > Window) PROVE FALSE
        OBVIOUS
      <3>1. 1 \in DOMAIN log /\ 1 > Len(log) - Window
        BY <1>1, <1>2
      <3>2. 1 \in ViewChanges
        BY <1>1, <3>1 DEF ViewChanges, Of, EventTypes, Deliveries, Resets
      <3> QED BY <1>4, <3>1, <3>2 DEF Recent
    <2> QED BY <1>1, <1>4, <2>1 DEF ViewSeq
  <1> QED BY <1>3, <1>4

\* The number of a view's deliveries, and what it tells: a delivery or a credit is there.
LEMMA DeliveriesCounted ==
    ASSUME ConstantsAssumption, Inv
    PROVE  /\ DeliveredNow \in Nat
           /\ DeliveredNow \in 1..MaxRefetches =>
                 (\E x \in credits : x.view = ViewSeq) \/ \E i \in DOMAIN log : log[i].type \in Deliveries /\ i > ViewSeq
  <1> DEFINE C == Credited(ViewSeq)
             D == {i \in Recent \cap Of(Deliveries) : i > ViewSeq}
             full == Recent \cap ViewChanges = {} /\ Len(log) > Window
  <1>1. C \subseteq credits /\ IsFiniteSet(C)
    <2>1. IsFiniteSet(credits)
      BY DEF Inv, Typed
    <2> QED BY <2>1, FS_Subset DEF Credited
  <1>2. Cardinality(C) \in Nat /\ (C = {} => Cardinality(C) = 0)
    BY <1>1, FS_CardinalityType, FS_EmptySet
  <1>3. D \subseteq DOMAIN log
    BY DEF Recent
  <1>4. Cardinality(D) \in Nat /\ (D = {} => Cardinality(D) = 0)
    BY <1>3, PositionsCounted, FS_EmptySet
  <1>5. DeliveredNow = Cardinality(C) + (IF full THEN MaxRefetches + 1 ELSE Cardinality(D))
    BY DEF DeliveredNow
  <1>6. MaxRefetches \in Nat
    BY DEF ConstantsAssumption
  <1>7. C # {} => \E x \in credits : x.view = ViewSeq
    BY DEF Credited
  <1>8. D # {} => \E i \in DOMAIN log : log[i].type \in Deliveries /\ i > ViewSeq
    BY <1>3 DEF Of
  <1> HIDE DEF C, D, full
  <1>9. DeliveredNow \in Nat
    BY <1>2, <1>4, <1>5, <1>6
  <1>10. DeliveredNow \in 1..MaxRefetches => C # {} \/ D # {}
    BY <1>2, <1>4, <1>5, <1>6
  <1> QED BY <1>7, <1>8, <1>9, <1>10

\* An engine is the one its process holds, or a new one.
LEMMA EngineHandedOut ==
    ASSUME Inv, NEW p \in Procs, NEW e \in 1..(Len(engines) + 1), GetEngine(p, e)
    PROVE  /\ engines' \in Seq(Engines(Len(log))) /\ Len(engines) <= Len(engines') /\ e \in 1..Len(engines')
           /\ cached' = [cached EXCEPT ![p] = e] /\ cached' \in [Procs -> 0..Len(engines')]
           /\ \/ engines' = engines /\ e = cached[p] /\ e # 0
              \/ Usable(p) = {} /\ e = Len(engines) + 1 /\ engines' = Append(engines, Reloaded)
  <1>1. /\ engines \in Seq(Engines(Len(log))) /\ Len(engines) \in Nat /\ cached \in [Procs -> 0..Len(engines)]
        /\ DOMAIN log = 1..Len(log) /\ Len(log) \in Nat /\ Len(log) >= 1
    BY DEF Inv, Typed
  <1>2. CASE e \in Usable(p) /\ UNCHANGED <<engines, cached>>
    <2>1. e = cached[p] /\ e # 0 /\ e \in 1..Len(engines)
      BY <1>1, <1>2 DEF Usable
    <2>2. cached' = [cached EXCEPT ![p] = e]
      BY <1>1, <1>2, <2>1
    <2>3. engines' = engines /\ engines' \in Seq(Engines(Len(log))) /\ Len(engines) <= Len(engines')
      BY <1>1, <1>2
    <2>4. e \in 1..Len(engines') /\ cached' \in [Procs -> 0..Len(engines')]
      BY <1>1, <1>2, <2>1, <2>3
    <2> QED BY <2>1, <2>2, <2>3, <2>4
  <1>3. CASE Usable(p) = {} /\ e = Len(engines) + 1 /\ engines' = Append(engines, Reloaded) /\ cached' = [cached EXCEPT ![p] = e]
    <2>1. Reloaded \in Engines(Len(log))
      <3> DEFINE T == {i \in Of({"AGENT_TURN_STARTED"}) : i > snapshot /\ i > LastReset}
                 b == \E i \in Of({"BYPASS_TRANSITION"}) : i > snapshot
      <3>1. T \subseteq DOMAIN log
        BY DEF Of
      <3>2. Cardinality(T) \in Nat
        BY <3>1, PositionsCounted
      <3>3. Reloaded = [turns |-> Cardinality(T), bypassed |-> b, counter |-> Len(log), ext |-> FALSE]
        BY DEF Reloaded
      <3>4. Len(log) \in 1..Len(log) /\ b \in BOOLEAN
        BY <1>1
      <3> HIDE DEF T, b
      <3> QED BY <3>2, <3>3, <3>4 DEF Engines
    <2>2. engines' \in Seq(Engines(Len(log))) /\ Len(engines') = Len(engines) + 1
      BY <1>1, <1>3, <2>1, GrownInto
    <2>3. e \in 1..Len(engines') /\ Len(engines) <= Len(engines') /\ e \in 0..Len(engines') /\ 0..Len(engines) \subseteq 0..Len(engines')
      BY <1>1, <1>3, <2>2
    <2>4. cached' \in [Procs -> 0..Len(engines')]
      BY <1>1, <1>3, <2>3
    <2> QED BY <1>3, <2>2, <2>3, <2>4
  <1> QED BY <1>2, <1>3 DEF GetEngine

-----------------------------------------------------------------------------
(* Steps *)

\* A call that has not begun, and one that has ended.
LEMMA NoCallTyped == NoCall \in CallRecords /\ NoCall.pc = "idle" /\ NoCall.eng = 0 /\ NoCall.key = NoKey
  <1>1. "idle" \in Pcs
    BY DEF Pcs
  <1> QED BY <1>1 DEF NoCall, CallRecords

\* A call that moves on to another place.
LEMMA MovedCall ==
    ASSUME NEW q \in CallRecords, NEW pc \in Pcs, NEW r, r = [q EXCEPT !.pc = pc]
    PROVE  /\ r \in CallRecords /\ r.pc = pc /\ r.eng = q.eng /\ r.key = q.key /\ r.view = q.view
           /\ r.delivered = q.delivered /\ r.promotes = q.promotes /\ r.version = q.version
  <1>1. r \in CallRecords
    BY Zenon DEF CallRecords
  <1> QED BY <1>1 DEF CallRecords

\* A fetch begins: an engine, and the wait for runtime actions.
LEMMA FetchStep ==
    ASSUME ConstantsAssumption, Inv, NEW p \in servers, Fetch(p)
    PROVE  Inv'
  <1> DEFINE c == <<p, "fetch">>
  <1>1. p \in Procs /\ c \in Calls
    BY DEF Inv, Typed, Calls
  <1>2. PICK e \in 1..(Len(engines) + 1) :
            /\ GetEngine(p, e)
            /\ IF engines'[e].bypassed THEN UNCHANGED call
               ELSE call' = [call EXCEPT ![c] = [NoCall EXCEPT !.pc = "resuming", !.eng = e]]
    BY DEF Fetch
  <1>3. /\ engines' \in Seq(Engines(Len(log))) /\ Len(engines) <= Len(engines') /\ e \in 1..Len(engines')
        /\ cached' \in [Procs -> 0..Len(engines')]
    BY <1>1, <1>2, EngineHandedOut
  <1>4. UNCHANGED <<servers, log, credits>> /\ snapshot' \in 1..Len(log) /\ call[c].pc = "idle"
    BY DEF Fetch, store, At, Inv, Typed
  <1> DEFINE r == IF engines'[e].bypassed THEN call[c] ELSE [NoCall EXCEPT !.pc = "resuming", !.eng = e]
  <1>5. call' = [call EXCEPT ![c] = r]
    <2>1. call \in [Calls -> CallRecords]
      BY DEF Inv, Typed
    <2> QED BY <1>1, <1>2, <2>1
  <1>6. call[c] \in CallRecords /\ call[c].eng \in 0..Len(engines) /\ Hand(c, call[c], log, credits) /\ Len(engines) \in Nat
    <2> HIDE DEF c
    <2> QED BY <1>1, <1>4, Basics
  <1>7. ASSUME engines'[e].bypassed PROVE Inv'
    <2>1. r = call[c]
      BY <1>7
    <2>2. r.eng \in 0..Len(engines')
      BY <1>3, <1>6, <2>1
    <2> HIDE DEF c, r
    <2>3. "idle" \notin InHand
      BY DEF InHand
    <2> QED BY <1>1, <1>3, <1>4, <1>5, <1>6, <2>1, <2>2, <2>3, QuietStep
  <1>8. ASSUME ~engines'[e].bypassed PROVE Inv'
    <2>1. r = [NoCall EXCEPT !.pc = "resuming", !.eng = e]
      BY <1>8
    <2>2. r = [pc |-> "resuming", eng |-> e, key |-> NoKey, view |-> 0, delivered |-> 0, promotes |-> FALSE, version |-> 0]
      <3> HIDE DEF r
      <3> QED BY <2>1 DEF NoCall
    <2>3. e \in Nat /\ "resuming" \in Pcs /\ "resuming" \notin InHand
      BY <1>3 DEF Pcs, InHand
    <2>4. c[2] = "fetch"
      OBVIOUS
    <2> HIDE DEF c, r
    <2>5. r \in CallRecords
      BY <2>2, <2>3 DEF CallRecords
    <2>6. Hand(c, r, log, credits)
      BY <2>2, <2>3, <2>4 DEF Hand
    <2>7. r.eng \in 1..Len(engines') /\ r.pc # "idle" /\ r.pc \notin InHand
      BY <1>3, <2>2, <2>3
    <2> QED BY <1>1, <1>3, <1>4, <1>5, <2>5, <2>6, <2>7, QuietStep
  <1> QED BY <1>7, <1>8

\* A submission begins: its key tells whether it is a retry.
LEMMA SubmitStep ==
    ASSUME ConstantsAssumption, Inv, NEW p \in servers, NEW k \in Keys, Submit(p, k)
    PROVE  Inv'
  <1> DEFINE c == <<p, "submission">>
             where == IF Keyed({"SIGNAL_EMITTED"}, k) = {} THEN "emitting" ELSE "recovering"
  <1>1. p \in Procs /\ c \in Calls
    BY DEF Inv, Typed, Calls
  <1>2. PICK e \in 1..(Len(engines) + 1) :
            GetEngine(p, e) /\ call' = [call EXCEPT ![c] = [NoCall EXCEPT !.eng = e, !.key = k, !.pc = where]]
    BY DEF Submit
  <1>3. /\ engines' \in Seq(Engines(Len(log))) /\ Len(engines) <= Len(engines') /\ e \in 1..Len(engines')
        /\ cached' \in [Procs -> 0..Len(engines')]
    BY <1>1, <1>2, EngineHandedOut
  <1>4. UNCHANGED <<servers, log, credits>> /\ snapshot' \in 1..Len(log)
    BY DEF Submit, store, Inv, Typed
  <1> DEFINE r == [NoCall EXCEPT !.eng = e, !.key = k, !.pc = where]
  <1>5. where \in {"emitting", "recovering"}
    OBVIOUS
  <1>6. call' = [call EXCEPT ![c] = r] /\ r = [NoCall EXCEPT !.eng = e, !.key = k, !.pc = where]
    BY <1>2
  <1>7. c[2] # "fetch" /\ k # NoKey
    BY DEF ConstantsAssumption
  <1> HIDE DEF c, r, where
  <1>8. r = [pc |-> where, eng |-> e, key |-> k, view |-> 0, delivered |-> 0, promotes |-> FALSE, version |-> 0]
    BY <1>6 DEF NoCall
  <1>9. e \in Nat /\ where \in Pcs /\ where \notin InHand /\ where # "idle"
    BY <1>3, <1>5 DEF Pcs, InHand
  <1>10. r \in CallRecords
    BY <1>8, <1>9 DEF CallRecords
  <1>11. Hand(c, r, log, credits)
    BY <1>5, <1>7, <1>8, <1>9 DEF Hand
  <1>12. r.eng \in 1..Len(engines') /\ r.pc # "idle" /\ r.pc \notin InHand
    BY <1>3, <1>8, <1>9
  <1> QED BY <1>1, <1>3, <1>4, <1>6, <1>10, <1>11, <1>12, QuietStep

\* The place a call goes to is one it may hold what it holds in.
MayGo(q, r) ==
    /\ q.pc # "idle" /\ r.key = q.key /\ r.eng = q.eng
    /\ r.pc \notin {"idle", "resuming", "emitting", "delivering", "crediting"} /\ (r.pc = "recovering" => q.pc = "emitting")
    /\ r.pc \in InHand => q.pc \in InHand /\ (q.pc \in Past => r.pc \in Past)

\* A call moves on, or ends, and nothing else changes but a snapshot or an engine.
LEMMA GoesOnStep ==
    ASSUME ConstantsAssumption, Inv, NEW c \in Calls, NEW r \in CallRecords, r = NoCall \/ MayGo(call[c], r),
           call' = [call EXCEPT ![c] = r], UNCHANGED <<servers, log, credits, cached>>, snapshot' \in 1..Len(log),
           engines' \in Seq(Engines(Len(log))), Len(engines') = Len(engines)
    PROVE  Inv'
  <1>1. /\ call[c].eng \in (IF call[c].pc = "idle" THEN 0 ELSE 1)..Len(engines) /\ Len(engines) \in Nat
        /\ cached \in [Procs -> 0..Len(engines)]
    BY Basics
  <1>2. /\ r.pc = "idle" \/ (call[c].pc # "idle" /\ r.key = call[c].key)
        /\ r.pc \notin {"resuming", "emitting", "delivering", "crediting"} /\ (r.pc = "recovering" => call[c].pc = "emitting")
        /\ r.pc \in InHand => call[c].pc \in InHand /\ (call[c].pc \in Past => r.pc \in Past)
    BY NoCallTyped DEF MayGo, InHand
  <1>3. Hand(c, r, log, credits) /\ (r.pc \in InHand /\ r.key # NoKey => call[c].pc \in InHand /\ call[c].key = r.key)
    BY <1>2, HandGoesOn
  <1>4. r.eng \in (IF r.pc = "idle" THEN 0 ELSE 1)..Len(engines')
    BY <1>1, NoCallTyped DEF MayGo
  <1>5. Len(engines) <= Len(engines') /\ cached' \in [Procs -> 0..Len(engines')]
    BY <1>1
  <1>6. UNCHANGED <<servers, log, credits>>
    OBVIOUS
  <1> QED BY <1>3, <1>4, <1>5, <1>6, QuietStep

\* A call that goes to another place, and nothing else that it holds changes.
LEMMA GotoMay ==
    ASSUME Inv, NEW c \in Calls, NEW pc \in Pcs \ {"idle", "resuming", "emitting", "delivering", "crediting"}, Goto(c, pc),
           call[c].pc # "idle", pc = "recovering" => call[c].pc = "emitting",
           pc \in InHand => call[c].pc \in InHand /\ (call[c].pc \in Past => pc \in Past)
    PROVE  \E r \in CallRecords : r.pc = pc /\ MayGo(call[c], r) /\ call' = [call EXCEPT ![c] = r]
  <1> DEFINE q == call[c]
             r == [q EXCEPT !.pc = pc]
  <1>1. q \in CallRecords
    BY Basics
  <1>2. call' = [call EXCEPT ![c] = r] /\ r = [q EXCEPT !.pc = pc]
    BY DEF Goto
  <1> HIDE DEF r
  <1>3. r \in CallRecords /\ r.pc = pc /\ r.eng = q.eng /\ r.key = q.key
    BY <1>1, <1>2, MovedCall
  <1>4. MayGo(q, r)
    BY <1>3 DEF MayGo
  <1> QED BY <1>2, <1>3, <1>4

\* The steps that write nothing and only take a call on.
LEMMA OwnSteps ==
    ASSUME ConstantsAssumption, Inv, NEW c \in Calls,
           \/ EmitConflict(c) \/ EmitDuplicate(c) \/ BeginGuard(c) \/ Unhandled(c) \/ GuardReturns(c)
           \/ SaveSnapshot(c) \/ Respond(c) \/ CheckPasses(c)
    PROVE  Inv'
  <1>1. /\ log \in Seq(Events) /\ DOMAIN log = 1..Len(log) /\ Len(log) \in Nat /\ Len(log) >= 1
        /\ call[c] \in CallRecords /\ engines \in Seq(Engines(Len(log))) /\ Len(engines) \in Nat
        /\ snapshot \in 1..Len(log)
        /\ call[c].eng \in (IF call[c].pc = "idle" THEN 0 ELSE 1)..Len(engines)
    BY Basics
  <1>2. ASSUME End(c) PROVE call' = [call EXCEPT ![c] = NoCall] /\ NoCall \in CallRecords
    BY <1>2, NoCallTyped DEF End
  <1>3. CASE EmitConflict(c)
    <2>1. End(c) /\ UNCHANGED <<servers, log, credits, cached>> /\ snapshot' = snapshot /\ engines' = engines
      BY <1>3 DEF EmitConflict, store, bounds
    <2> QED BY <1>1, <1>2, <2>1, GoesOnStep
  <1>4. CASE EmitDuplicate(c)
    <2>1. PICK s \in Keyed({"SIGNAL_EMITTED"}, call[c].key) :
              engines' = [engines EXCEPT ![call[c].eng].counter = IF s > @ THEN s ELSE @]
      BY <1>4 DEF EmitDuplicate
    <2>2. /\ Goto(c, "recovering") /\ UNCHANGED <<servers, log, credits, cached>> /\ snapshot' = snapshot
          /\ call[c].pc = "emitting"
      BY <1>4 DEF EmitDuplicate, store, bounds, At
    <2> DEFINE g == call[c].eng
               n == IF s > engines[g].counter THEN s ELSE engines[g].counter
               x == [engines[g] EXCEPT !.counter = n]
    <2>3. g \in 1..Len(engines)
      BY <1>1, <2>2
    <2>4. engines[g] \in Engines(Len(log)) /\ s \in 1..Len(log)
      BY <1>1, <2>3 DEF Keyed, Of
    <2>5. n \in 1..Len(log)
      BY <2>4 DEF Engines
    <2>6. engines' = [engines EXCEPT ![g] = x]
      BY <2>1
    <2> HIDE DEF n, g
    <2>7. x \in Engines(Len(log))
      BY <2>4, <2>5, Zenon DEF Engines
    <2> HIDE DEF x
    <2>8. engines' \in Seq(Engines(Len(log))) /\ Len(engines') = Len(engines)
      BY <1>1, <2>3, <2>6, <2>7
    <2>9. "recovering" \in Pcs \ {"idle", "resuming", "emitting", "delivering", "crediting"} /\ "recovering" \notin InHand
      BY DEF Pcs, InHand
    <2>10. PICK r \in CallRecords : MayGo(call[c], r) /\ call' = [call EXCEPT ![c] = r]
      BY <2>2, <2>9, GotoMay
    <2> QED BY <1>1, <2>2, <2>8, <2>10, GoesOnStep
  <1>5. CASE BeginGuard(c)
    <2> DEFINE q == call[c]
               n == Len(log)
               r == [q EXCEPT !.pc = "guard", !.version = n]
    <2>1. /\ call' = [call EXCEPT ![c] = r] /\ q.pc = "routing" /\ UNCHANGED <<servers, log, credits, cached>>
          /\ snapshot' = snapshot /\ engines' = engines
      BY <1>5 DEF BeginGuard, store, bounds, At
    <2>2. "guard" \in Pcs \ {"idle", "resuming", "emitting", "delivering", "crediting"} /\ q.pc \in InHand /\ q.pc \notin Past /\ n \in Nat
      BY <1>1, <2>1 DEF Pcs, InHand, Past
    <2> HIDE DEF n
    <2>3. r \in CallRecords
      BY <1>1, <2>2, Zenon DEF CallRecords
    <2>4. r.pc = "guard" /\ r.key = q.key /\ r.eng = q.eng
      BY <1>1 DEF CallRecords
    <2>5. MayGo(q, r)
      BY <2>1, <2>2, <2>4 DEF MayGo, InHand
    <2> HIDE DEF r
    <2> QED BY <1>1, <2>1, <2>3, <2>5, GoesOnStep
  <1>6. CASE Unhandled(c)
    <2>1. /\ Goto(c, "responding") /\ call[c].pc = "routing" /\ UNCHANGED <<servers, log, credits, cached>>
          /\ snapshot' = snapshot /\ engines' = engines
      BY <1>6 DEF Unhandled, store, bounds, At
    <2>2. "responding" \in Pcs \ {"idle", "resuming", "emitting", "delivering", "crediting"} /\ call[c].pc \in InHand /\ call[c].pc \notin Past
      BY <2>1 DEF Pcs, InHand, Past
    <2>3. PICK r \in CallRecords : MayGo(call[c], r) /\ call' = [call EXCEPT ![c] = r]
      BY <2>1, <2>2, GotoMay
    <2> QED BY <1>1, <2>1, <2>3, GoesOnStep
  <1>7. CASE GuardReturns(c)
    <2>1. /\ (IF Len(log) = call[c].version THEN Goto(c, "answered") ELSE End(c)) /\ call[c].pc = "guard"
          /\ UNCHANGED <<servers, log, credits, cached>> /\ snapshot' = snapshot /\ engines' = engines
      BY <1>7 DEF GuardReturns, store, bounds, At
    <2>2. "answered" \in Pcs \ {"idle", "resuming", "emitting", "delivering", "crediting"} /\ call[c].pc \in InHand /\ call[c].pc \notin Past
      BY <2>1 DEF Pcs, InHand, Past
    <2>3. ASSUME Goto(c, "answered") PROVE \E r \in CallRecords : MayGo(call[c], r) /\ call' = [call EXCEPT ![c] = r]
      BY <2>1, <2>2, <2>3, GotoMay
    <2> QED BY <1>1, <1>2, <2>1, <2>3, GoesOnStep
  <1>8. CASE SaveSnapshot(c)
    <2>1. /\ Goto(c, "responding") /\ call[c].pc = "moved" /\ UNCHANGED <<servers, log, credits, cached>>
          /\ snapshot' = Len(log) /\ engines' = engines
      BY <1>8 DEF SaveSnapshot, bounds, At
    <2>2. "responding" \in Pcs \ {"idle", "resuming", "emitting", "delivering", "crediting"} /\ call[c].pc \in InHand /\ call[c].pc \notin Past
      BY <2>1 DEF Pcs, InHand, Past
    <2>3. PICK r \in CallRecords : MayGo(call[c], r) /\ call' = [call EXCEPT ![c] = r]
      BY <2>1, <2>2, GotoMay
    <2>4. snapshot' \in 1..Len(log)
      BY <1>1, <2>1
    <2> QED BY <1>1, <2>1, <2>3, <2>4, GoesOnStep
  <1>9. CASE Respond(c)
    <2>1. /\ (End(c) \/ Goto(c, "scanning")) /\ call[c].pc = "responding"
          /\ UNCHANGED <<servers, log, credits, cached>> /\ snapshot' = snapshot /\ engines' = engines
      BY <1>9 DEF Respond, store, bounds, At
    <2>2. "scanning" \in Pcs \ {"idle", "resuming", "emitting", "delivering", "crediting"} /\ call[c].pc \in InHand /\ call[c].pc \notin Past
      BY <2>1 DEF Pcs, InHand, Past
    <2>3. ASSUME Goto(c, "scanning") PROVE \E r \in CallRecords : MayGo(call[c], r) /\ call' = [call EXCEPT ![c] = r]
      BY <2>1, <2>2, <2>3, GotoMay
    <2> QED BY <1>1, <1>2, <2>1, <2>3, GoesOnStep
  <1>10. CASE CheckPasses(c)
    <2>1. /\ (End(c) \/ Goto(c, "receipt")) /\ call[c].pc = "checking"
          /\ UNCHANGED <<servers, log, credits, cached>> /\ snapshot' = snapshot /\ engines' = engines
      BY <1>10 DEF CheckPasses, Delivered, store, bounds, At
    <2>2. "receipt" \in Pcs \ {"idle", "resuming", "emitting", "delivering", "crediting"} /\ call[c].pc \in InHand /\ "receipt" \in Past
      BY <2>1 DEF Pcs, InHand, Past
    <2>3. ASSUME Goto(c, "receipt") PROVE \E r \in CallRecords : MayGo(call[c], r) /\ call' = [call EXCEPT ![c] = r]
      BY <2>1, <2>2, <2>3, GotoMay
    <2> QED BY <1>1, <1>2, <2>1, <2>3, GoesOnStep
  <1> QED BY <1>3, <1>4, <1>5, <1>6, <1>7, <1>8, <1>9, <1>10

\* The view is read, and how often it was handed out.
LEMMA ScanStep ==
    ASSUME ConstantsAssumption, Inv, NEW c \in Calls, Scan(c)
    PROVE  Inv'
  <1> DEFINE q == call[c]
             v == ViewSeq
             n == DeliveredNow
             b == \E x \in Credited(v) : x.key = q.key
             r == [q EXCEPT !.pc = "delivering", !.view = v, !.delivered = n, !.promotes = b]
  <1>1. /\ q \in CallRecords /\ engines \in Seq(Engines(Len(log))) /\ Len(engines) \in Nat
        /\ snapshot \in 1..Len(log) /\ Hand(c, q, log, credits) /\ log \in Seq(Events) /\ Len(log) \in Nat
        /\ q.eng \in (IF q.pc = "idle" THEN 0 ELSE 1)..Len(engines)
        /\ cached \in [Procs -> 0..Len(engines)]
    BY Basics
  <1>2. /\ UNCHANGED <<servers, log, credits, cached>> /\ snapshot' = snapshot /\ engines' = engines
        /\ q.pc \in {"scanning", "resuming"}
    BY DEF Scan, store, bounds, At
  <1>3. CASE engines[q.eng].bypassed
    <2>1. IF c[2] = "fetch" THEN End(c) ELSE Goto(c, "receipt")
      BY <1>3 DEF Scan, Delivered
    <2>2. ASSUME End(c) PROVE call' = [call EXCEPT ![c] = NoCall] /\ NoCall \in CallRecords
      BY <2>2, NoCallTyped DEF End
    <2>3. c[2] # "fetch" => q.pc = "scanning"
      BY <1>1, <1>2 DEF Hand
    <2>4. /\ "receipt" \in Pcs \ {"idle", "resuming", "emitting", "delivering", "crediting"} /\ "receipt" \in Past
          /\ "scanning" \in InHand
      BY DEF Pcs, InHand, Past
    <2>5. ASSUME c[2] # "fetch" PROVE \E s \in CallRecords : MayGo(call[c], s) /\ call' = [call EXCEPT ![c] = s]
      BY <2>1, <2>3, <2>4, <2>5, GotoMay
    <2> QED BY <1>1, <1>2, <2>1, <2>2, <2>5, GoesOnStep
  <1>4. CASE ~engines[q.eng].bypassed
    <2>1. call' = [call EXCEPT ![c] = r]
      BY <1>4 DEF Scan
    <2>2. v \in 1..Len(log) /\ n \in Nat
      BY ViewIsPosition, DeliveriesCounted
    <2>3. n \in 1..MaxRefetches => (\E x \in credits : x.view = v) \/ \E i \in DOMAIN log : log[i].type \in Deliveries /\ i > v
      BY DeliveriesCounted
    <2>4. ~b => \A x \in credits : x.view = v /\ x.key = q.key => x.absorbed
      BY DEF Credited
    <2>5. b \in BOOLEAN /\ "delivering" \in Pcs /\ v \in Nat
      BY <1>1, <2>2 DEF Pcs
    <2> HIDE DEF v, n, b, q
    <2>6. r \in CallRecords
      BY <1>1, <2>2, <2>5, Zenon DEF CallRecords
    <2>7. /\ r.pc = "delivering" /\ r.view = v /\ r.delivered = n /\ r.promotes = b /\ r.key = q.key /\ r.eng = q.eng
      BY <1>1 DEF CallRecords
    <2> HIDE DEF r
    <2>8. ~r.promotes /\ r.delivered \in 1..MaxRefetches => Settled(log, credits, r.view, r.key)
      BY <2>3, <2>4, <2>7 DEF Settled
    <2>9. /\ "delivering" \in InHand /\ "scanning" \in InHand /\ "resuming" \notin InHand
          /\ "delivering" \notin Past /\ "scanning" \notin Past
      BY DEF InHand, Past
    <2>10. q.pc = "resuming" => q.key = NoKey
      BY <1>1 DEF Hand
    <2>11. r.key # NoKey =>
            /\ Has(log, {"SIGNAL_EMITTED"}, r.key) /\ ~Has(log, Receipts, r.key) /\ ~Has(log, Deliveries, r.key)
            /\ q.pc \in InHand
      BY <1>1, <1>2, <2>7, <2>9, <2>10 DEF Hand
    <2>12. Hand(c, r, log, credits)
      BY <1>1, <1>2, <2>2, <2>7, <2>8, <2>11 DEF Hand
    <2>13. r.eng \in (IF r.pc = "idle" THEN 0 ELSE 1)..Len(engines') /\ Len(engines) <= Len(engines')
      BY <1>1, <1>2, <2>7
    <2> QED BY <1>1, <1>2, <2>1, <2>6, <2>7, <2>11, <2>12, <2>13, QuietStep DEF q
  <1> QED BY <1>3, <1>4

\* A retry reads the view it may hand out.
LEMMA RecoverStep ==
    ASSUME ConstantsAssumption, Inv, NEW c \in Calls, Recover(c)
    PROVE  Inv'
  <1> DEFINE q == call[c]
             v == ViewSeq
             r == [q EXCEPT !.pc = "crediting", !.view = v]
  <1>1. /\ q \in CallRecords /\ engines \in Seq(Engines(Len(log))) /\ Len(engines) \in Nat
        /\ snapshot \in 1..Len(log) /\ Hand(c, q, log, credits) /\ Len(log) \in Nat
        /\ q.eng \in (IF q.pc = "idle" THEN 0 ELSE 1)..Len(engines)
        /\ cached \in [Procs -> 0..Len(engines)]
    BY Basics
  <1>2. /\ UNCHANGED <<servers, log, credits, cached>> /\ snapshot' = snapshot /\ engines' = engines
        /\ q.pc = "recovering" /\ (End(c) \/ call' = [call EXCEPT ![c] = r])
    BY DEF Recover, store, bounds, At
  <1>3. CASE End(c)
    <2>1. call' = [call EXCEPT ![c] = NoCall] /\ NoCall \in CallRecords
      BY <1>3, NoCallTyped DEF End
    <2> QED BY <1>1, <1>2, <2>1, GoesOnStep
  <1>4. CASE call' = [call EXCEPT ![c] = r]
    <2>1. v \in 1..Len(log)
      BY ViewIsPosition
    <2>2. "crediting" \in Pcs /\ v \in Nat
      BY <1>1, <2>1 DEF Pcs
    <2> HIDE DEF v, q
    <2>3. r \in CallRecords
      BY <1>1, <2>2, Zenon DEF CallRecords
    <2>4. r.pc = "crediting" /\ r.view = v /\ r.key = q.key /\ r.eng = q.eng
      BY <1>1 DEF CallRecords
    <2> HIDE DEF r
    <2>5. "crediting" \notin InHand
      BY DEF InHand
    <2>6. Hand(c, r, log, credits)
      BY <1>1, <1>2, <2>1, <2>4, <2>5 DEF Hand
    <2>7. r.eng \in (IF r.pc = "idle" THEN 0 ELSE 1)..Len(engines') /\ Len(engines) <= Len(engines') /\ r.pc \notin InHand
      BY <1>1, <1>2, <2>4, <2>5
    <2> QED BY <1>1, <1>2, <1>4, <2>3, <2>6, <2>7, QuietStep DEF q
  <1> QED BY <1>2, <1>3, <1>4

\* A credit is given where no credit and no delivery of the view is, and none after the view.
LEMMA CreditStep ==
    ASSUME ConstantsAssumption, Inv, NEW c \in Calls, Credit(c)
    PROVE  Inv'
  <1> DEFINE q == call[c]
             x == [view |-> q.view, key |-> q.key, absorbed |-> FALSE]
             taken == (\E r \in credits : r.view = q.view) \/ \E i \in Of(Deliveries) : i > q.view
  <1>1. /\ q \in CallRecords /\ engines \in Seq(Engines(Len(log))) /\ Len(engines) \in Nat
        /\ snapshot \in 1..Len(log) /\ Hand(c, q, log, credits) /\ log \in Seq(Events) /\ Len(log) \in Nat
        /\ call \in [Calls -> CallRecords] /\ credits \subseteq Credits(Len(log)) /\ IsFiniteSet(credits)
        /\ cached \in [Procs -> 0..Len(engines)]
    BY Basics
  <1>2. /\ UNCHANGED <<servers, log, cached>> /\ snapshot' = snapshot /\ engines' = engines
        /\ q.pc = "crediting" /\ call' = [call EXCEPT ![c] = NoCall] /\ NoCall \in CallRecords
    BY NoCallTyped DEF Credit, bounds, At, End
  <1>3. CASE taken
    <2>1. UNCHANGED <<servers, log, credits, cached>>
      BY <1>2, <1>3 DEF Credit
    <2> QED BY <1>1, <1>2, <2>1, GoesOnStep
  <1>4. CASE ~taken
    <2>1. credits' = credits \cup {x}
      BY <1>4 DEF Credit
    <2>2. q.view \in 1..Len(log) /\ q.key \in Keys
      <3>1. q.key # NoKey /\ q.key \in Keys \cup {NoKey}
        BY <1>1, <1>2 DEF Hand, CallRecords
      <3> QED BY <1>1, <1>2, <3>1 DEF Hand
    <2>3. x \in Credits(Len(log)) /\ x.view = q.view /\ x.key = q.key
      BY <2>2 DEF Credits
    <2>4. (\A r \in credits : r.view # q.view) /\ \A i \in DOMAIN log : log[i].type \in Deliveries => ~(i > q.view)
      BY <1>4 DEF Of
    <2> HIDE DEF x, taken
    <2>5. credits' \subseteq Credits(Len(log)) /\ IsFiniteSet(credits')
      BY <1>1, <2>1, <2>3, FS_AddElement
    <2>6. Counted(log, credits')
      <3> SUFFICES ASSUME NEW r \in credits', ~r.absorbed, NEW i \in DOMAIN log, log[i].type \in Deliveries, log[i].key = r.key
                   PROVE  log[i].view # r.view
        BY DEF Counted
      <3>1. CASE r \in credits
        BY <3>1 DEF Inv, Counted
      <3>2. CASE r = x
        <4>1. log[i].view < i
          BY DEF Inv, Ledger
        <4>2. i \in 1..Len(log)
          BY <1>1
        <4> QED BY <1>1, <2>2, <2>3, <2>4, <3>2, <4>1, <4>2
      <3> QED BY <2>1, <3>1, <3>2
    <2>7. ASSUME NEW d \in Calls PROVE Hand(d, call'[d], log, credits')
      <3>1. CASE d = c
        <4>1. call'[d] = NoCall /\ NoCall.pc = "idle" /\ "idle" \notin InHand
          BY <1>1, <1>2, <3>1, NoCallTyped DEF InHand
        <4> QED BY <4>1 DEF Hand
      <3>2. CASE d # c
        <4>1. call'[d] = call[d] /\ Hand(d, call[d], log, credits)
          BY <1>1, <1>2, <3>2, Basics
        <4>2. ASSUME NEW v, NEW k, Settled(log, credits, v, k) PROVE Settled(log, credits', v, k)
          <5>1. v # q.view
            BY <2>4, <4>2 DEF Settled
          <5> QED BY <2>1, <2>3, <4>2, <5>1 DEF Settled
        <4> QED BY <4>1, <4>2 DEF Hand
      <3> QED BY <3>1, <3>2
    <2>8. Apart'
      <3>1. \A d \in Calls : call'[d] = IF d = c THEN NoCall ELSE call[d]
        BY <1>1, <1>2
      <3>2. "idle" \notin InHand
        BY DEF InHand
      <3> QED BY <3>1, <3>2, NoCallTyped DEF Inv, Apart
    <2>9. ASSUME NEW d \in Calls PROVE call'[d].eng \in (IF call'[d].pc = "idle" THEN 0 ELSE 1)..Len(engines)
      <3>1. call[d].eng \in (IF call[d].pc = "idle" THEN 0 ELSE 1)..Len(engines)
        BY Basics
      <3> QED BY <1>1, <1>2, <3>1, NoCallTyped
    <2>10. call' \in [Calls -> CallRecords]
      BY <1>1, <1>2
    <2>11. Typed'
      BY <1>1, <1>2, <2>5, <2>9, <2>10 DEF Inv, Typed
    <2>12. Ledger(log') /\ Counted(log', credits') /\ \A d \in Calls : Hand(d, call'[d], log', credits')
      BY <1>2, <2>6, <2>7 DEF Inv
    <2> QED BY <2>8, <2>11, <2>12 DEF Inv
  <1> QED BY <1>3, <1>4

\* A process dies: its calls end and hold nothing.
LEMMA CrashStep ==
    ASSUME ConstantsAssumption, Inv, NEW p \in servers, Crash(p)
    PROVE  Inv'
  <1>1. /\ engines \in Seq(Engines(Len(log))) /\ Len(engines) \in Nat /\ cached \in [Procs -> 0..Len(engines)]
        /\ call \in [Calls -> CallRecords] /\ \A d \in Calls : call[d].eng \in (IF call[d].pc = "idle" THEN 0 ELSE 1)..Len(engines)
    BY DEF Inv, Typed
  <1>2. /\ UNCHANGED <<servers, log, credits, snapshot, engines>> /\ cached' = [cached EXCEPT ![p] = 0]
        /\ call' = [d \in Calls |-> IF d[1] = p THEN NoCall ELSE call[d]]
    BY DEF Crash, store
  <1>3. \A d \in Calls : call'[d] = NoCall \/ call'[d] = call[d]
    BY <1>2
  <1>4. NoCall \in CallRecords /\ NoCall.pc = "idle" /\ NoCall.eng = 0 /\ "idle" \notin InHand
    BY NoCallTyped DEF InHand
  <1>5. call' \in [Calls -> CallRecords]
    BY <1>1, <1>2, <1>4
  <1>6. cached' \in [Procs -> 0..Len(engines)]
    <2>1. 0 \in 0..Len(engines)
      BY <1>1
    <2> QED BY <1>1, <1>2, <2>1
  <1>7. \A d \in Calls : call'[d].eng \in (IF call'[d].pc = "idle" THEN 0 ELSE 1)..Len(engines)
    BY SMTT(20), <1>1, <1>3, <1>4
  <1>8. Typed'
    BY <1>2, <1>5, <1>6, <1>7 DEF Inv, Typed
  <1>9. \A d \in Calls : Hand(d, call'[d], log, credits)
    BY <1>3, <1>4 DEF Inv, Hand
  <1>10. Apart'
    BY <1>3, <1>4 DEF Inv, Apart
  <1> QED BY <1>2, <1>8, <1>9, <1>10 DEF Inv

\* What signals meet, with the processes that serve the run.
LEMMA MeetsKnown == ASSUME ConstantsAssumption, Inv PROVE Meets \subseteq {"accepted", "refused", "unhandled"}
  <1>1. servers \subseteq Procs /\ servers # {} /\ IsFiniteSet(Procs)
    BY DEF Inv, Typed, ConstantsAssumption
  <1>2. IsFiniteSet(servers) /\ Cardinality(servers) <= Cardinality(Procs)
    BY <1>1, FS_Subset
  <1>3. Cardinality(servers) \in Nat /\ Cardinality(Procs) \in Nat /\ Cardinality(servers) # 0
    BY <1>1, <1>2, FS_CardinalityType, FS_EmptySet
  <1>4. Cardinality(servers) \in 1..Cardinality(Procs)
    BY <1>2, <1>3
  <1> QED BY <1>4 DEF Meets, ConstantsAssumption

\* The steps that write an event of no submission.
LEMMA KeylessSteps ==
    ASSUME ConstantsAssumption, Inv, NEW c \in Calls,
           RecordGuard(c) \/ Transition(c) \/ Refuse(c) \/ DetectBypass(c) \/ Bypass(c)
    PROVE  Inv'
  <1> DEFINE q == call[c]
             g == q.eng
  <1>1. /\ q \in CallRecords /\ engines \in Seq(Engines(Len(log))) /\ Len(engines) \in Nat
        /\ g \in (IF q.pc = "idle" THEN 0 ELSE 1)..Len(engines)
    BY Basics
  <1>2. UNCHANGED <<servers, credits, cached>> /\ snapshot' = snapshot
    BY DEF RecordGuard, Transition, Refuse, DetectBypass, Bypass, bounds
  <1>3. ASSUME NEW t \in EventTypes, t \notin Deliveries, t \notin Receipts, NEW turns \in Nat, NEW bypassed \in BOOLEAN,
               Append1(g, Event(t, NoKey, 0), turns, bypassed), q.pc # "idle", NEW r \in CallRecords,
               r = NoCall \/ MayGo(q, r), call' = [call EXCEPT ![c] = r]
        PROVE  Inv'
    <2> DEFINE e == Event(t, NoKey, 0)
    <2>1. e \in Events /\ g \in 1..Len(engines) /\ Append1(g, e, turns, bypassed)
      BY <1>1, <1>3 DEF Event, Events
    <2>2. /\ log' = Append(log, e) /\ engines' \in Seq(Engines(Len(log'))) /\ Len(engines') = Len(engines)
          /\ cached \in [Procs -> 0..Len(engines')] /\ snapshot \in 1..Len(log')
      <3> HIDE DEF e, g
      <3> QED BY <2>1, EngineWrites
    <2>3. /\ r.pc = "idle" \/ (q.pc # "idle" /\ r.key = q.key)
          /\ r.pc \notin {"resuming", "emitting", "delivering", "crediting"} /\ (r.pc = "recovering" => q.pc = "emitting")
          /\ r.pc \in InHand => q.pc \in InHand /\ (q.pc \in Past => r.pc \in Past)
      BY <1>3, NoCallTyped DEF MayGo, InHand
    <2>4. r.eng \in (IF r.pc = "idle" THEN 0 ELSE 1)..Len(engines')
      BY <1>1, <1>3, <2>2, NoCallTyped DEF MayGo
    <2>5. Len(engines) <= Len(engines') /\ cached' \in [Procs -> 0..Len(engines')] /\ snapshot' \in 1..Len(log')
      BY <1>1, <1>2, <2>2
    <2> HIDE DEF q, g
    <2>6. UNCHANGED <<servers, credits>>
      BY <1>2
    <2> QED BY <1>3, <2>2, <2>3, <2>4, <2>5, <2>6, KeylessStep DEF q
  <1>4. ASSUME q.pc # "idle" PROVE engines[g].turns \in Nat /\ engines[g].bypassed \in BOOLEAN
    <2>1. engines[g] \in Engines(Len(log))
      BY <1>1, <1>4
    <2> QED BY <2>1 DEF Engines
  <1>5. CASE RecordGuard(c)
    <2>1. /\ Append1(g, Event("GUARD_EVALUATED", NoKey, 0), engines[g].turns, engines[g].bypassed) /\ q.pc = "answered"
          /\ \E o \in Meets \ {"unhandled"} : Goto(c, o)
      BY <1>5 DEF RecordGuard, AppendOnly, At
    <2>2. PICK o \in {"accepted", "refused"} : Goto(c, o)
      BY <2>1, MeetsKnown
    <2>3. o \in Pcs \ {"idle", "resuming", "emitting", "delivering", "crediting"} /\ q.pc \in InHand /\ q.pc \notin Past
          /\ o # "recovering"
      BY <2>1 DEF Pcs, InHand, Past
    <2>4. PICK r \in CallRecords : MayGo(q, r) /\ call' = [call EXCEPT ![c] = r]
      BY <2>1, <2>2, <2>3, GotoMay
    <2>5. "GUARD_EVALUATED" \in EventTypes /\ "GUARD_EVALUATED" \notin Deliveries /\ "GUARD_EVALUATED" \notin Receipts
      BY DEF EventTypes, Deliveries, Receipts
    <2> HIDE DEF g, q
    <2> QED BY <1>3, <1>4, <2>1, <2>4, <2>5
  <1>6. CASE Transition(c)
    <2>1. /\ Append1(g, Event("STATE_TRANSITION", NoKey, 0), engines[g].turns, engines[g].bypassed) /\ q.pc = "accepted"
          /\ Goto(c, "moved")
      BY <1>6 DEF Transition, AppendOnly, At
    <2>2. "moved" \in Pcs \ {"idle", "resuming", "emitting", "delivering", "crediting"} /\ q.pc \in InHand /\ q.pc \notin Past
      BY <2>1 DEF Pcs, InHand, Past
    <2>3. PICK r \in CallRecords : MayGo(q, r) /\ call' = [call EXCEPT ![c] = r]
      BY <2>1, <2>2, GotoMay
    <2>4. "STATE_TRANSITION" \in EventTypes /\ "STATE_TRANSITION" \notin Deliveries /\ "STATE_TRANSITION" \notin Receipts
      BY DEF EventTypes, Resets, Deliveries, Receipts
    <2> HIDE DEF g, q
    <2> QED BY <1>3, <1>4, <2>1, <2>3, <2>4
  <1>7. CASE Refuse(c)
    <2>1. /\ Append1(g, Event("SIGNAL_REFUSED", NoKey, 0), engines[g].turns, engines[g].bypassed) /\ q.pc = "refused"
          /\ Goto(c, "responding")
      BY <1>7 DEF Refuse, AppendOnly, At
    <2>2. "responding" \in Pcs \ {"idle", "resuming", "emitting", "delivering", "crediting"} /\ q.pc \in InHand /\ q.pc \notin Past
      BY <2>1 DEF Pcs, InHand, Past
    <2>3. PICK r \in CallRecords : MayGo(q, r) /\ call' = [call EXCEPT ![c] = r]
      BY <2>1, <2>2, GotoMay
    <2>4. "SIGNAL_REFUSED" \in EventTypes /\ "SIGNAL_REFUSED" \notin Deliveries /\ "SIGNAL_REFUSED" \notin Receipts
      BY DEF EventTypes, Deliveries, Receipts
    <2> HIDE DEF g, q
    <2> QED BY <1>3, <1>4, <2>1, <2>3, <2>4
  <1>8. CASE DetectBypass(c)
    <2>1. /\ Append1(g, Event("BYPASS_DETECTED", NoKey, 0), engines[g].turns, engines[g].bypassed) /\ q.pc = "checking"
          /\ Goto(c, "bypassing")
      BY <1>8 DEF DetectBypass, AppendOnly, At
    <2>2. "bypassing" \in Pcs \ {"idle", "resuming", "emitting", "delivering", "crediting"} /\ q.pc \in InHand /\ "bypassing" \in Past
      BY <2>1 DEF Pcs, InHand, Past
    <2>3. PICK r \in CallRecords : MayGo(q, r) /\ call' = [call EXCEPT ![c] = r]
      BY <2>1, <2>2, GotoMay
    <2>4. "BYPASS_DETECTED" \in EventTypes /\ "BYPASS_DETECTED" \notin Deliveries /\ "BYPASS_DETECTED" \notin Receipts
      BY DEF EventTypes, Deliveries, Receipts
    <2> HIDE DEF g, q
    <2> QED BY <1>3, <1>4, <2>1, <2>3, <2>4
  <1>9. CASE Bypass(c)
    <2> DEFINE moved == TRUE
    <2>1. /\ Append1(g, Event("BYPASS_TRANSITION", NoKey, 0), 0, moved) /\ moved \in BOOLEAN /\ q.pc = "bypassing"
          /\ call' = [call EXCEPT ![c] = NoCall]
      BY <1>9 DEF Bypass, At, End
    <2>2. "BYPASS_TRANSITION" \in EventTypes /\ "BYPASS_TRANSITION" \notin Deliveries /\ "BYPASS_TRANSITION" \notin Receipts
      BY DEF EventTypes, Resets, Deliveries, Receipts
    <2>3. NoCall \in CallRecords /\ 0 \in Nat
      BY NoCallTyped
    <2> HIDE DEF g, q, moved
    <2> QED BY <1>3, <2>1, <2>2, <2>3
  <1> QED BY <1>5, <1>6, <1>7, <1>8, <1>9

\* The signal of a key that the run does not know yet: nothing was delivered or recorded under it.
LEMMA EmitStep ==
    ASSUME ConstantsAssumption, Inv, NEW c \in Calls, Emit(c)
    PROVE  Inv'
  <1> DEFINE q == call[c]
             g == q.eng
             k == q.key
             e == Event("SIGNAL_EMITTED", k, 0)
             r == [q EXCEPT !.pc = "routing"]
             b == engines[g].bypassed
             n == 0
  <1>1. /\ q \in CallRecords /\ engines \in Seq(Engines(Len(log))) /\ Len(engines) \in Nat /\ log \in Seq(Events)
        /\ g \in (IF q.pc = "idle" THEN 0 ELSE 1)..Len(engines) /\ Hand(c, q, log, credits)
        /\ credits \subseteq Credits(Len(log)) /\ IsFiniteSet(credits) /\ DOMAIN log = 1..Len(log)
    BY Basics
  <1>2. /\ UNCHANGED <<servers, credits, cached>> /\ snapshot' = snapshot /\ q.pc = "emitting"
        /\ Append1(g, e, n, b) /\ call' = [call EXCEPT ![c] = r] /\ Keyed({"SIGNAL_EMITTED"}, k) = {}
    BY DEF Emit, bounds, At, Goto
  <1>3. k # NoKey /\ k \in Keys \cup {NoKey} /\ g \in 1..Len(engines)
    BY <1>1, <1>2 DEF Hand, CallRecords
  <1>4. engines[g] \in Engines(Len(log))
    BY <1>1, <1>3
  <1>5. b \in BOOLEAN
    BY <1>4 DEF Engines
  <1>6. e \in Events /\ e.type = "SIGNAL_EMITTED" /\ e.key = k
    BY <1>3 DEF Event, Events, EventTypes, Resets
  <1>7. e.type \notin Deliveries /\ e.type \notin Receipts
    BY <1>6 DEF Deliveries, Receipts
  <1>8. ~Has(log, {"SIGNAL_EMITTED"}, k)
    BY <1>2, <1>3 DEF Has, Keyed, Of
  <1>9. ~Has(log, Deliveries, k) /\ ~Has(log, Receipts, k)
    BY <1>3, <1>8 DEF Inv, Ledger, Has
  <1>10. r = [q EXCEPT !.pc = "routing"] /\ "routing" \in Pcs /\ "routing" \notin Past /\ n \in Nat
    BY DEF Pcs, Past
  <1> HIDE DEF e, r, g, b, n
  <1>11. r \in CallRecords /\ r.pc = "routing" /\ r.key = k /\ r.eng = g
    BY <1>1, <1>10, MovedCall DEF g
  <1>12. /\ log' = Append(log, e) /\ engines' \in Seq(Engines(Len(log'))) /\ Len(engines') = Len(engines)
         /\ cached \in [Procs -> 0..Len(engines')] /\ snapshot \in 1..Len(log')
    <2>1. Append1(g, e, n, b) /\ g \in 1..Len(engines) /\ e \in Events /\ n \in Nat /\ b \in BOOLEAN
      BY <1>2, <1>3, <1>5, <1>6, <1>10
    <2> QED BY <2>1, EngineWrites
  <1>13. Has(log', {"SIGNAL_EMITTED"}, k) /\ ~Has(log', Deliveries, k) /\ ~Has(log', Receipts, k)
    BY <1>1, <1>6, <1>7, <1>9, <1>12, HasGrown
  <1>14. Hand(c, r, log', credits')
    BY <1>1, <1>2, <1>3, <1>11, <1>13 DEF Hand
  <1>15. Follows(credits', credits)
    BY <1>2, FollowsSelf
  <1>16. /\ e.type \in Deliveries => e.view \in 0..Len(log)
         /\ e.type \in Deliveries \cup Receipts /\ e.key # NoKey => call[c].pc \in InHand /\ e.key = call[c].key
         /\ \A types \in {Deliveries, Receipts} : e.type \in types /\ e.key # NoKey => ~Has(log, types, e.key)
         /\ \A x \in credits' : e.type \in Deliveries /\ x.key = e.key /\ ~x.absorbed => x.view # e.view
    BY <1>7
  <1>17. /\ r.eng \in (IF r.pc = "idle" THEN 0 ELSE 1)..Len(engines') /\ Len(engines) <= Len(engines')
         /\ ~Has(log, {"SIGNAL_EMITTED"}, r.key)
    BY <1>1, <1>3, <1>8, <1>11, <1>12
  <1>18. /\ credits' \subseteq Credits(Len(log)) /\ IsFiniteSet(credits') /\ servers' = servers
         /\ cached' \in [Procs -> 0..Len(engines')] /\ snapshot' \in 1..Len(log')
    BY <1>1, <1>2, <1>12
  <1> QED BY <1>2, <1>6, <1>11, <1>12, <1>14, <1>15, <1>16, <1>17, <1>18, StepKeeps

\* The same of every engine and event at once.
LEMMA AnyEngineWrites ==
    ASSUME Inv
    PROVE  \A g \in 1..Len(engines), e \in Events, n \in Nat, b \in BOOLEAN : Append1(g, e, n, b) =>
              /\ log' = Append(log, e) /\ engines' \in Seq(Engines(Len(log'))) /\ Len(engines') = Len(engines)
              /\ cached \in [Procs -> 0..Len(engines')] /\ snapshot \in 1..Len(log')
  BY EngineWrites

\* A delivery is counted by a call that has one to make: no delivery of its key was, and the
\* credits of its key and view are spent by then.
LEMMA DeliveryStep ==
    ASSUME ConstantsAssumption, Inv, NEW c \in Calls, call[c].pc = "delivering",
           NEW t \in Deliveries, NEW n \in Nat, NEW bypassed \in BOOLEAN, NEW turns \in Nat,
           Append1(call[c].eng, Delivery(t, c, n), turns, bypassed), UNCHANGED <<servers, snapshot, cached>>,
           Follows(credits', credits), credits' \subseteq Credits(Len(log)), IsFiniteSet(credits'),
           \A x \in credits' : x.key = call[c].key /\ ~x.absorbed => x.view # call[c].view,
           NEW r \in CallRecords, r = NoCall \/ (r.pc \in Past /\ r.key = call[c].key /\ r.eng = call[c].eng),
           call' = [call EXCEPT ![c] = r]
    PROVE  Inv'
  <1> DEFINE q == call[c]
             k == q.key
             e == Delivery(t, c, n)
  <1>1. /\ q \in CallRecords /\ engines \in Seq(Engines(Len(log))) /\ Len(engines) \in Nat /\ log \in Seq(Events)
        /\ q.eng \in (IF q.pc = "idle" THEN 0 ELSE 1)..Len(engines) /\ Hand(c, q, log, credits)
        /\ DOMAIN log = 1..Len(log) /\ Len(log) \in Nat
    BY Basics
  <1>2. k \in Keys \cup {NoKey} /\ q.eng \in 1..Len(engines) /\ q.view \in 1..Len(log) /\ q.pc \in InHand /\ q.pc \notin Past
    BY <1>1 DEF Hand, CallRecords, InHand, Past
  <1>3. e = [type |-> t, key |-> k, n |-> n, view |-> q.view]
    BY DEF Delivery, Event
  <1>4. Append1(q.eng, e, turns, bypassed)
    OBVIOUS
  <1>5. t \in EventTypes /\ t \notin Receipts /\ t # "SIGNAL_EMITTED"
    BY DEF EventTypes, Deliveries, Receipts
  <1>6. k # NoKey => Has(log, {"SIGNAL_EMITTED"}, k) /\ ~Has(log, Receipts, k) /\ ~Has(log, Deliveries, k)
    BY <1>1, <1>2 DEF Hand, Past
  <1> HIDE DEF e, q, k
  <1>7. e \in Events /\ e.type = t /\ e.key = k /\ e.view = q.view
    <2>1. q.view \in Nat
      BY <1>1, <1>2
    <2> QED BY <1>2, <1>3, <1>5, <2>1 DEF Events
  <1>8. /\ log' = Append(log, e) /\ engines' \in Seq(Engines(Len(log'))) /\ Len(engines') = Len(engines)
        /\ cached \in [Procs -> 0..Len(engines')] /\ snapshot \in 1..Len(log')
    <2> DEFINE g == q.eng
               m == turns
               b == bypassed
    <2>1. Append1(g, e, m, b) /\ g \in 1..Len(engines) /\ e \in Events /\ m \in Nat /\ b \in BOOLEAN
      BY <1>2, <1>4, <1>7
    <2> HIDE DEF g, m, b
    <2>2. Append1(g, e, m, b)
      BY <2>1, Zenon
    <2>3. g \in 1..Len(engines)
      BY <2>1, Zenon
    <2>4. e \in Events
      BY <2>1, Zenon
    <2>5. m \in Nat
      BY <2>1, Zenon
    <2>6. b \in BOOLEAN
      BY <2>1, Zenon
    <2>7. Inv
      BY Zenon
    <2>8. \A gg \in 1..Len(engines), ee \in Events, nn \in Nat, bb \in BOOLEAN : Append1(gg, ee, nn, bb) =>
              /\ log' = Append(log, ee) /\ engines' \in Seq(Engines(Len(log'))) /\ Len(engines') = Len(engines)
              /\ cached \in [Procs -> 0..Len(engines')] /\ snapshot \in 1..Len(log')
      BY <2>7, AnyEngineWrites, Zenon
    <2>9. Append1(g, e, m, b) =>
              /\ log' = Append(log, e) /\ engines' \in Seq(Engines(Len(log'))) /\ Len(engines') = Len(engines)
              /\ cached \in [Procs -> 0..Len(engines')] /\ snapshot \in 1..Len(log')
      BY <2>3, <2>4, <2>5, <2>6, <2>8, Zenon
    <2> QED BY <2>2, <2>9, Zenon
  <1>9. k # NoKey => Has(log', {"SIGNAL_EMITTED"}, k) /\ ~Has(log', Receipts, k)
    BY <1>1, <1>5, <1>6, <1>7, <1>8, HasGrown
  <1>10. Hand(c, r, log', credits')
    <2>1. CASE r = NoCall
      BY <2>1, NoCallTyped DEF Hand, InHand
    <2>2. CASE r.pc \in Past /\ r.key = call[c].key
      BY <1>1, <1>2, <1>9, <2>2 DEF Hand, Past, InHand, q, k
    <2> QED BY <2>1, <2>2
  <1>11. r.pc \in InHand /\ r.key # NoKey => call[c].pc \in InHand /\ call[c].key = r.key
    BY <1>2, NoCallTyped DEF q
  <1>12. r.eng \in (IF r.pc = "idle" THEN 0 ELSE 1)..Len(engines') /\ Len(engines) <= Len(engines')
    BY <1>1, <1>2, <1>8, NoCallTyped DEF q, Past
  <1>13. /\ e.type \in Deliveries => e.view \in 0..Len(log)
         /\ e.type \in Deliveries \cup Receipts /\ e.key # NoKey => call[c].pc \in InHand /\ e.key = call[c].key
         /\ \A types \in {Deliveries, Receipts} : e.type \in types /\ e.key # NoKey => ~Has(log, types, e.key)
         /\ \A x \in credits' : e.type \in Deliveries /\ x.key = e.key /\ ~x.absorbed => x.view # e.view
    BY <1>1, <1>2, <1>5, <1>6, <1>7 DEF q, k
  <1>14. cached' \in [Procs -> 0..Len(engines')] /\ snapshot' \in 1..Len(log') /\ servers' = servers
    BY <1>8
  <1> QED BY <1>7, <1>8, <1>10, <1>11, <1>12, <1>13, <1>14, StepKeeps

\* A refetch within the allowance: something of the view was handed out before, and not to this call.
LEMMA RefetchStep ==
    ASSUME ConstantsAssumption, Inv, NEW c \in Calls, Refetch(c)
    PROVE  Inv'
  <1> DEFINE q == call[c]
             g == q.eng
  <1>1. /\ q \in CallRecords /\ engines \in Seq(Engines(Len(log))) /\ Len(engines) \in Nat
        /\ g \in (IF q.pc = "idle" THEN 0 ELSE 1)..Len(engines) /\ Hand(c, q, log, credits)
        /\ credits \subseteq Credits(Len(log)) /\ IsFiniteSet(credits)
    BY Basics
  <1>2. /\ UNCHANGED <<servers, credits, snapshot, cached>> /\ q.pc = "delivering" /\ Refetches(c)
        /\ Append1(g, Delivery("STATE_VIEW_REFETCHED", c, 0), engines[g].turns, engines[g].bypassed)
        /\ End(c) \/ Goto(c, "receipt")
    BY DEF Refetch, AppendOnly, bounds, At, Delivered
  <1>3. engines[g] \in Engines(Len(log))
    BY <1>1, <1>2
  <1>4. engines[g].turns \in Nat /\ engines[g].bypassed \in BOOLEAN
    BY <1>3 DEF Engines
  <1>5. Settled(log, credits, q.view, q.key)
    BY <1>1, <1>2 DEF Hand, Refetches
  <1>6. \A x \in credits' : x.key = q.key /\ ~x.absorbed => x.view # q.view
    BY <1>2, <1>5 DEF Settled
  <1>7. Follows(credits', credits) /\ credits' \subseteq Credits(Len(log)) /\ IsFiniteSet(credits')
    BY <1>1, <1>2, FollowsSelf
  <1>8. PICK r \in CallRecords : /\ r = NoCall \/ (r.pc \in Past /\ r.key = q.key /\ r.eng = q.eng)
                                 /\ call' = [call EXCEPT ![c] = r]
    <2>1. CASE End(c)
      BY <2>1, NoCallTyped DEF End
    <2>2. CASE Goto(c, "receipt")
      <3> DEFINE r == [q EXCEPT !.pc = "receipt"]
      <3>1. call' = [call EXCEPT ![c] = r] /\ r = [q EXCEPT !.pc = "receipt"] /\ "receipt" \in Pcs /\ "receipt" \in Past
        BY <2>2 DEF Goto, Pcs, Past
      <3> HIDE DEF r
      <3>2. r \in CallRecords /\ r.pc = "receipt" /\ r.key = q.key /\ r.eng = q.eng
        BY <1>1, <3>1, MovedCall
      <3> QED BY <3>1, <3>2
    <2> QED BY <1>2, <2>1, <2>2
  <1>9. "STATE_VIEW_REFETCHED" \in Deliveries /\ 0 \in Nat
    BY DEF Deliveries
  <1> DEFINE t == "STATE_VIEW_REFETCHED"
             n == engines[g].turns
             b == engines[g].bypassed
             m == 0
  <1>10. Append1(call[c].eng, Delivery(t, c, m), n, b) /\ n \in Nat /\ b \in BOOLEAN /\ m \in Nat /\ t \in Deliveries
    BY <1>2, <1>4, <1>9
  <1>11. UNCHANGED <<servers, snapshot, cached>> /\ call[c].pc = "delivering"
    BY <1>2
  <1> HIDE DEF t, n, b, m
  <1> QED BY ZenonT(30), <1>6, <1>7, <1>8, <1>10, <1>11, DeliveryStep

\* The turn and the end of the credit it absorbs are one step.
LEMMA StartTurnStep ==
    ASSUME ConstantsAssumption, Inv, NEW c \in Calls, StartTurn(c)
    PROVE  Inv'
  <1> DEFINE q == call[c]
             g == q.eng
             Own(x) == x.view = q.view /\ x.key = q.key
             after(x) == [x EXCEPT !.absorbed = @ \/ Own(x)]
             n == engines[g].turns + 1
             stays == FALSE
             r == [q EXCEPT !.pc = "checking"]
  <1>1. /\ q \in CallRecords /\ engines \in Seq(Engines(Len(log))) /\ Len(engines) \in Nat
        /\ g \in (IF q.pc = "idle" THEN 0 ELSE 1)..Len(engines)
        /\ credits \subseteq Credits(Len(log)) /\ IsFiniteSet(credits)
    BY Basics
  <1>2. /\ UNCHANGED <<servers, snapshot, cached>> /\ q.pc = "delivering"
        /\ Append1(g, Delivery("AGENT_TURN_STARTED", c, n), n, stays) /\ call' = [call EXCEPT ![c] = r]
        /\ credits' = {after(x) : x \in credits}
    BY DEF StartTurn, bounds, At, Goto
  <1>3. engines[g] \in Engines(Len(log))
    BY <1>1, <1>2
  <1>4. n \in Nat /\ stays \in BOOLEAN
    BY <1>3 DEF Engines
  <1>5. r = [q EXCEPT !.pc = "checking"] /\ "checking" \in Pcs /\ "checking" \in Past
    BY DEF Pcs, Past
  <1>6. ASSUME NEW x \in credits
        PROVE  /\ after(x) \in Credits(Len(log)) /\ after(x).view = x.view /\ after(x).key = x.key
               /\ after(x).absorbed <=> x.absorbed \/ Own(x)
    <2> DEFINE b == x.absorbed \/ Own(x)
    <2>1. x \in Credits(Len(log)) /\ b \in BOOLEAN
      BY <1>1 DEF Credits
    <2>2. after(x) = [x EXCEPT !.absorbed = b]
      OBVIOUS
    <2> HIDE DEF b
    <2>3. x = [view |-> x.view, key |-> x.key, absorbed |-> x.absorbed] /\ x.view \in 1..Len(log) /\ x.key \in Keys
      BY <2>1 DEF Credits
    <2> DEFINE y == after(x)
    <2>4. y = [x EXCEPT !.absorbed = b]
      BY <2>2
    <2> HIDE DEF y
    <2>5. y = [view |-> x.view, key |-> x.key, absorbed |-> b]
      BY <2>3, <2>4
    <2>6. y \in Credits(Len(log)) /\ y.view = x.view /\ y.key = x.key /\ y.absorbed = b
      BY <2>1, <2>3, <2>5 DEF Credits
    <2> QED BY <2>6 DEF b, y
  <1> HIDE DEF q, g, r, n, stays
  <1>7. Follows(credits', credits)
    BY ZenonT(30), <1>2, <1>6 DEF Follows
  <1>8. credits' \subseteq Credits(Len(log))
    BY <1>2, <1>6
  <1>9. \A x \in credits' : x.key = q.key /\ ~x.absorbed => x.view # q.view
    <2>1. \A x \in credits : after(x).key = q.key /\ ~after(x).absorbed => after(x).view # q.view
      BY <1>6
    <2> HIDE DEF after
    <2> QED BY <1>2, <2>1
  <1>10. IsFiniteSet(credits')
    <2> DEFINE f == [x \in credits |-> after(x)]
    <2>1. f \in Surjection(credits, credits')
      BY <1>2 DEF Surjection
    <2> QED BY <1>1, <2>1, FS_Surjection
  <1>11. r \in CallRecords /\ r.pc = "checking" /\ r.key = q.key /\ r.eng = q.eng
    BY <1>1, <1>5, MovedCall
  <1> DEFINE t == "AGENT_TURN_STARTED"
  <1>12. t \in Deliveries
    BY DEF Deliveries
  <1>13. Append1(call[c].eng, Delivery(t, c, n), n, stays) /\ UNCHANGED <<servers, snapshot, cached>> /\ call[c].pc = "delivering"
    BY <1>2 DEF q, g
  <1>14. /\ \A x \in credits' : x.key = call[c].key /\ ~x.absorbed => x.view # call[c].view
         /\ r.pc \in Past /\ r.key = call[c].key /\ r.eng = call[c].eng /\ call' = [call EXCEPT ![c] = r]
    BY <1>2, <1>5, <1>9, <1>11 DEF q
  <1> HIDE DEF after, t
  <1> QED BY <1>4, <1>7, <1>8, <1>10, <1>11, <1>12, <1>13, <1>14, DeliveryStep

\* The receipt of a submission: its key has none, and the call that could write it ends.
LEMMA SaveReceiptStep ==
    ASSUME ConstantsAssumption, Inv, NEW c \in Calls, SaveReceipt(c)
    PROVE  Inv'
  <1> DEFINE q == call[c]
             g == q.eng
             k == q.key
             v == ViewSeq
             e == Event("MCP_CONTINUATION_RECORDED", k, v)
             n == engines[g].turns
             b == engines[g].bypassed
  <1>1. /\ q \in CallRecords /\ engines \in Seq(Engines(Len(log))) /\ Len(engines) \in Nat /\ log \in Seq(Events)
        /\ g \in (IF q.pc = "idle" THEN 0 ELSE 1)..Len(engines) /\ Hand(c, q, log, credits)
        /\ credits \subseteq Credits(Len(log)) /\ IsFiniteSet(credits) /\ DOMAIN log = 1..Len(log) /\ Len(log) \in Nat
    BY Basics
  <1>2. /\ UNCHANGED <<servers, credits, cached>> /\ snapshot' = snapshot /\ q.pc = "receipt"
        /\ Append1(g, e, n, b) /\ call' = [call EXCEPT ![c] = NoCall]
    BY DEF SaveReceipt, AppendOnly, bounds, At, End
  <1>3. k \in Keys \cup {NoKey} /\ g \in 1..Len(engines) /\ q.pc \in InHand
    BY <1>1, <1>2 DEF CallRecords, InHand
  <1>4. engines[g] \in Engines(Len(log))
    BY <1>1, <1>3
  <1>5. n \in Nat /\ b \in BOOLEAN
    BY <1>4 DEF Engines
  <1>6. v \in 1..Len(log)
    BY ViewIsPosition
  <1> HIDE DEF v
  <1>7. e \in Events /\ e.type = "MCP_CONTINUATION_RECORDED" /\ e.key = k
    <2>1. v \in Nat
      BY <1>1, <1>6
    <2> QED BY <1>3, <2>1 DEF Event, Events, EventTypes
  <1>8. e.type \notin Deliveries
    BY <1>7 DEF Deliveries
  <1>9. k # NoKey => ~Has(log, Receipts, k)
    BY <1>1, <1>3 DEF Hand
  <1> HIDE DEF e, g, n, b
  <1>10. /\ log' = Append(log, e) /\ engines' \in Seq(Engines(Len(log'))) /\ Len(engines') = Len(engines)
         /\ cached \in [Procs -> 0..Len(engines')] /\ snapshot \in 1..Len(log')
    <2>1. Append1(g, e, n, b) /\ g \in 1..Len(engines) /\ e \in Events /\ n \in Nat /\ b \in BOOLEAN
      BY <1>2, <1>3, <1>5, <1>7
    <2> QED BY <2>1, EngineWrites
  <1>11. Hand(c, NoCall, log', credits') /\ "idle" \notin InHand
    BY NoCallTyped DEF Hand, InHand
  <1>12. Follows(credits', credits)
    BY <1>2, FollowsSelf
  <1>13. /\ e.type \in Deliveries => e.view \in 0..Len(log)
         /\ e.type \in Deliveries \cup Receipts /\ e.key # NoKey => call[c].pc \in InHand /\ e.key = call[c].key
         /\ \A types \in {Deliveries, Receipts} : e.type \in types /\ e.key # NoKey => ~Has(log, types, e.key)
         /\ \A x \in credits' : e.type \in Deliveries /\ x.key = e.key /\ ~x.absorbed => x.view # e.view
    BY <1>3, <1>7, <1>8, <1>9
  <1>14. NoCall \in CallRecords /\ NoCall.eng \in (IF NoCall.pc = "idle" THEN 0 ELSE 1)..Len(engines') /\ Len(engines) <= Len(engines')
    BY <1>1, <1>10, NoCallTyped
  <1>15. /\ credits' \subseteq Credits(Len(log)) /\ IsFiniteSet(credits') /\ servers' = servers
         /\ cached' \in [Procs -> 0..Len(engines')] /\ snapshot' \in 1..Len(log')
    BY <1>1, <1>2, <1>10
  <1> QED BY <1>2, <1>7, <1>10, <1>11, <1>12, <1>13, <1>14, <1>15, StepKeeps, NoCallTyped

-----------------------------------------------------------------------------
(* Every reachable state *)

\* The run has begun.
LEMMA InvInit == ASSUME ConstantsAssumption, Init PROVE Inv
  <1>1. Event("SKILL_INITIALIZED", NoKey, 0) \in Events /\ Event("SKILL_INITIALIZED", NoKey, 0).type = "SKILL_INITIALIZED"
    BY DEF Event, Events, EventTypes
  <1>2. log \in Seq(Events) /\ Len(log) = 1 /\ log[1].type = "SKILL_INITIALIZED" /\ DOMAIN log = 1..1
    BY <1>1 DEF Init
  <1>3. /\ credits \subseteq Credits(Len(log)) /\ IsFiniteSet(credits) /\ snapshot \in 1..Len(log)
        /\ engines \in Seq(Engines(Len(log))) /\ Len(engines) = 0
    BY <1>2, FS_EmptySet DEF Init
  <1>4. call \in [Calls -> CallRecords] /\ \A c \in Calls : call[c] = NoCall /\ call[c].pc = "idle" /\ call[c].eng = 0
    BY NoCallTyped DEF Init
  <1>5. cached \in [Procs -> 0..Len(engines)] /\ servers \subseteq Procs /\ servers # {}
    BY <1>3 DEF Init
  <1>6. Typed
    BY <1>2, <1>3, <1>4, <1>5 DEF Typed
  <1>7. \A i \in DOMAIN log : log[i].type \notin Deliveries \cup Receipts
    BY <1>2 DEF Deliveries, Receipts
  <1>8. Ledger(log) /\ Counted(log, credits)
    BY <1>7 DEF Ledger, Counted, Init
  <1>9. Apart /\ \A c \in Calls : Hand(c, call[c], log, credits)
    BY <1>4 DEF Apart, Hand, InHand
  <1> QED BY <1>6, <1>8, <1>9 DEF Inv

\* Every step keeps the invariant.
LEMMA InvNext == ASSUME ConstantsAssumption, Inv, [Next]_vars PROVE Inv'
  <1>1. ASSUME NEW p \in servers, Fetch(p) \/ (\E k \in Keys : Submit(p, k)) \/ Crash(p) PROVE Inv'
    BY <1>1, FetchStep, SubmitStep, CrashStep
  <1>2. ASSUME NEW c \in Calls,
               \/ EmitConflict(c) \/ Emit(c) \/ EmitDuplicate(c) \/ BeginGuard(c) \/ Unhandled(c)
               \/ GuardReturns(c) \/ RecordGuard(c) \/ Transition(c) \/ SaveSnapshot(c) \/ Refuse(c)
               \/ Respond(c) \/ Scan(c) \/ Refetch(c) \/ StartTurn(c) \/ CheckPasses(c)
               \/ DetectBypass(c) \/ Bypass(c) \/ SaveReceipt(c) \/ Recover(c) \/ Credit(c)
        PROVE  Inv'
    <2>1. CASE \/ EmitConflict(c) \/ EmitDuplicate(c) \/ BeginGuard(c) \/ Unhandled(c) \/ GuardReturns(c)
               \/ SaveSnapshot(c) \/ Respond(c) \/ CheckPasses(c)
      BY <2>1, OwnSteps
    <2>2. CASE RecordGuard(c) \/ Transition(c) \/ Refuse(c) \/ DetectBypass(c) \/ Bypass(c)
      BY <2>2, KeylessSteps
    <2>3. CASE Emit(c) \/ Scan(c) \/ Refetch(c) \/ StartTurn(c) \/ SaveReceipt(c) \/ Recover(c) \/ Credit(c)
      BY <2>3, EmitStep, ScanStep, RefetchStep, StartTurnStep, SaveReceiptStep, RecoverStep, CreditStep
    <2> QED BY <1>2, <2>1, <2>2, <2>3
  <1>3. CASE UNCHANGED vars
    BY <1>3 DEF vars, Inv, Typed, Apart
  <1> QED BY <1>1, <1>2, <1>3 DEF Next

\* The invariant holds in every reachable state.
LEMMA Invariance == Spec => []Inv
  BY ConstantsAssumption, InvInit, InvNext, PTL DEF Spec

\* A response is counted under its key once and has one receipt, whichever processes answer
\* it and its retries: DeliveredOnce, with any number of processes, keys and crashes.
THEOREM ResponsesCounted == Spec => []DeliveredOnce
  <1>1. ASSUME Inv PROVE DeliveredOnce
    <2>1. /\ log \in Seq(Events) /\ DOMAIN log = 1..Len(log) /\ Len(log) \in Nat
          /\ engines \in Seq(Engines(Len(log))) /\ credits \subseteq Credits(Len(log)) /\ snapshot \in 1..Len(log)
          /\ cached \in [Procs -> 0..Len(engines)] /\ call \in [Calls -> CallRecords] /\ Len(engines) \in Nat
      BY <1>1 DEF Inv, Typed
    <2>2. TypeOK
      <3>1. \A c \in Calls : call[c].eng \in 0..Len(engines)
        <4> TAKE c \in Calls
        <4>1. call[c].eng \in (IF call[c].pc = "idle" THEN 0 ELSE 1)..Len(engines)
          BY <1>1, Basics
        <4> QED BY <2>1, <4>1
      <3>2. \A i \in DOMAIN log : log[i] \in Events
        BY <2>1
      <3>3. \A e \in DOMAIN engines : engines[e] \in Engines(Len(log))
        BY <2>1
      <3>4. \A p \in Procs : cached[p] \in 0..Len(engines)
        BY <2>1
      <3> QED BY <2>1, <3>1, <3>2, <3>3, <3>4 DEF TypeOK, Events, Engines, Credits
    <2>3. CountedOnce
      BY <1>1 DEF Inv, Counted, CountedOnce, Keyed, Of
    <2>4. ASSUME NEW types \in {Deliveries, Receipts}, NEW k \in Keys PROVE Cardinality(Keyed(types, k)) <= 1
      <3> DEFINE S == Keyed(types, k)
      <3>1. S \subseteq 1..Len(log)
        BY <2>1 DEF Keyed, Of
      <3>2. \A x, y \in S : x = y
        BY <1>1 DEF Inv, Ledger, Keyed, Of
      <3> HIDE DEF S
      <3>3. Cardinality(S) <= 1
        BY <2>1, <3>1, <3>2, AtMostOne
      <3> QED BY <3>3 DEF S
    <2>5. OneReceiptPerSubmission
      BY <2>4 DEF OneReceiptPerSubmission, Receipts
    <2> QED BY <2>2, <2>3, <2>5 DEF DeliveredOnce
  <1> QED BY <1>1, Invariance, PTL

-----------------------------------------------------------------------------
(* One process serves the run *)

\* The turns since the last reset, and whether the run was moved to its bypass state, when the
\* ledger grows by one event.
LEMMA OpenGrown ==
    ASSUME NEW l \in Seq(Events), NEW e \in Events
    PROVE  /\ Open(l) \subseteq 1..Len(l)
           /\ e.type \in Resets => Open(Append(l, e)) = {}
           /\ e.type = "AGENT_TURN_STARTED" => Open(Append(l, e)) = Open(l) \cup {Len(l) + 1}
           /\ e.type \notin Resets \cup {"AGENT_TURN_STARTED"} => Open(Append(l, e)) = Open(l)
           /\ Moved(Append(l, e)) <=> Moved(l) \/ e.type = "BYPASS_TRANSITION"
  <1> DEFINE m == Append(l, e)
  <1>1. /\ DOMAIN m = 1..(Len(l) + 1) /\ DOMAIN l = 1..Len(l) /\ Len(l) \in Nat
        /\ \A i \in DOMAIN l : m[i] = l[i]
        /\ m[Len(l) + 1] = e
    BY Grown
  <1> HIDE DEF m
  <1>2. \A i \in DOMAIN m : i \in DOMAIN l \/ i = Len(l) + 1
    BY <1>1
  <1>3. (\A i \in DOMAIN l : i \in DOMAIN m /\ i < Len(l) + 1 /\ ~(Len(l) + 1 < i)) /\ Len(l) + 1 \in DOMAIN m /\ Len(l) + 1 \notin DOMAIN l
    BY <1>1
  <1>4. "AGENT_TURN_STARTED" \notin Resets
    BY DEF Resets
  <1>5. e.type \in Resets => Open(m) = {}
    <2> SUFFICES ASSUME e.type \in Resets, NEW i \in Open(m) PROVE FALSE
      OBVIOUS
    <2>1. i \in DOMAIN m /\ Len(l) + 1 < i
      BY <1>1, <1>3 DEF Open
    <2> QED BY <1>1, <2>1
  <1>6. ASSUME e.type \notin Resets, NEW i \in DOMAIN l PROVE i \in Open(m) <=> i \in Open(l)
    BY <1>1, <1>2, <1>3, <1>6 DEF Open
  <1>7. e.type \notin Resets => (Len(l) + 1 \in Open(m) <=> e.type = "AGENT_TURN_STARTED")
    BY <1>1, <1>2, <1>3 DEF Open
  <1>8. Open(m) \subseteq DOMAIN m /\ Open(l) \subseteq DOMAIN l
    BY DEF Open
  <1>9. e.type = "AGENT_TURN_STARTED" => Open(m) = Open(l) \cup {Len(l) + 1}
    BY <1>2, <1>3, <1>4, <1>6, <1>7, <1>8
  <1>10. e.type \notin Resets \cup {"AGENT_TURN_STARTED"} => Open(m) = Open(l)
    BY <1>2, <1>3, <1>6, <1>7, <1>8
  <1>11. Moved(m) <=> Moved(l) \/ e.type = "BYPASS_TRANSITION"
    BY <1>1, <1>2, <1>3 DEF Moved
  <1> QED BY <1>1, <1>5, <1>8, <1>9, <1>10, <1>11 DEF m

\* The number of those turns.
LEMMA TurnsCounted ==
    ASSUME NEW l \in Seq(Events), NEW e \in Events
    PROVE  /\ Cardinality(Open(l)) \in Nat /\ (Open(l) = {} => Cardinality(Open(l)) = 0)
           /\ e.type \in Resets => Cardinality(Open(Append(l, e))) = 0
           /\ e.type = "AGENT_TURN_STARTED" => Cardinality(Open(Append(l, e))) = Cardinality(Open(l)) + 1
           /\ e.type \notin Resets \cup {"AGENT_TURN_STARTED"} => Cardinality(Open(Append(l, e))) = Cardinality(Open(l))
  <1>1. Len(l) \in Nat /\ Len(l) + 1 \notin 1..Len(l)
    OBVIOUS
  <1>2. Open(l) \subseteq 1..Len(l)
    BY OpenGrown
  <1>3. IsFiniteSet(Open(l)) /\ Len(l) + 1 \notin Open(l)
    BY <1>1, <1>2, PositionsFinite
  <1>4. Cardinality(Open(l)) \in Nat /\ Cardinality(Open(l) \cup {Len(l) + 1}) = Cardinality(Open(l)) + 1
    BY <1>3, FS_CardinalityType, FS_AddElement
  <1> QED BY <1>4, OpenGrown, FS_EmptySet

\* The ledger's turns are those after every reset.
LEMMA TurnsAreOpen ==
    ASSUME Inv
    PROVE  /\ \A i \in DOMAIN log : i > LastReset <=> \A j \in DOMAIN log : log[j].type \in Resets => j < i
           /\ LedgerTurns = Cardinality(Open(log))
  <1> DEFINE S == {0} \cup Of(Resets)
  <1>1. DOMAIN log = 1..Len(log) /\ Len(log) \in Nat
    BY DEF Inv, Typed
  <1>2. S \subseteq 0..Len(log) /\ S # {}
    BY <1>1 DEF Of
  <1>3. LastReset = Max(S)
    BY DEF LastReset
  <1>4. \A j \in DOMAIN log : log[j].type \in Resets => j \in S
    BY DEF Of
  <1>5. \A x \in S : x = 0 \/ (x \in DOMAIN log /\ log[x].type \in Resets)
    BY DEF Of
  <1> HIDE DEF S
  <1>6. LastReset \in S /\ \A y \in S : y <= LastReset
    BY <1>1, <1>2, <1>3, MaxFacts
  <1>7. ASSUME NEW i \in DOMAIN log PROVE i > LastReset <=> \A j \in DOMAIN log : log[j].type \in Resets => j < i
    <2>1. i \in Nat /\ i > 0 /\ LastReset \in Nat /\ \A j \in DOMAIN log : j \in Nat
      BY <1>1, <1>2, <1>6
    <2>2. ASSUME i > LastReset, NEW j \in DOMAIN log, log[j].type \in Resets PROVE j < i
      <3>1. j <= LastReset
        BY <1>4, <1>6, <2>2
      <3> QED BY <2>1, <2>2, <3>1
    <2>3. ASSUME \A j \in DOMAIN log : log[j].type \in Resets => j < i PROVE i > LastReset
      <3>1. CASE LastReset = 0
        BY <2>1, <3>1
      <3>2. CASE LastReset # 0
        BY <1>5, <1>6, <2>1, <2>3, <3>2
      <3> QED BY <3>1, <3>2
    <2> QED BY <2>2, <2>3
  <1>8. {i \in Of({"AGENT_TURN_STARTED"}) : i > LastReset} = Open(log)
    BY <1>7 DEF Of, Open
  <1> QED BY <1>7, <1>8 DEF LedgerTurns

\* A call that is at none of these places says nothing of the ledger.
LEMMA QuietElsewhere ==
    ASSUME NEW r, NEW l, r.pc \notin {"routing", "guard", "answered", "accepted", "moved", "delivering"}
    PROVE  Quiet(r, l)
  BY DEF Quiet

\* One call of the only process does something: the others wait, at most for a guard.
LEMMA SoloKeeps ==
    ASSUME ConstantsAssumption, Inv, Solo, NEW p \in Procs, servers = {p}, NEW c \in Calls, c[1] = p, Runs(c),
           NEW r \in CallRecords, NEW e \in Events,
           log' = log \/ log' = Append(log, e), call' = [call EXCEPT ![c] = r], servers' = servers,
           \A q \in Procs : q # p => cached'[q] = cached[q],
           cached'[p] # 0 => Counts(engines'[cached'[p]], log'),
           cached[p] # 0 => cached'[p] = cached[p],
           r.pc # "idle" => r.eng = cached'[p],
           Quiet(r, log'),
           snapshot' = snapshot \/ (log' = log /\ Open(log) = {} /\ ~Moved(log))
    PROVE  Solo'
  <1>1. /\ log \in Seq(Events) /\ DOMAIN log = 1..Len(log) /\ Len(log) \in Nat /\ snapshot \in 1..Len(log)
        /\ call \in [Calls -> CallRecords] /\ \A d \in Calls : call[d].eng \in (IF call[d].pc = "idle" THEN 0 ELSE 1)..Len(engines)
        /\ Len(engines) \in Nat
    BY DEF Inv, Typed
  <1>2. \A d \in Calls : call'[d] = IF d = c THEN r ELSE call[d]
    BY <1>1
  <1>3. ASSUME NEW d \in Calls, d # c PROVE call[d].pc \in {"idle", "resuming", "guard"}
    BY <1>3 DEF Solo, Runs, Waiting
  <1>4. ASSUME NEW d \in Calls, call'[d].pc # "idle" PROVE d[1] \in servers' /\ call'[d].eng = cached'[d[1]]
    <2>1. CASE d = c
      BY <1>2, <1>4, <2>1
    <2>2. CASE d # c
      <3>1. call'[d] = call[d] /\ d[1] = p /\ call[d].eng = cached[p]
        BY <1>2, <1>4, <2>2 DEF Solo
      <3>2. call[d].eng \in 1..Len(engines)
        BY <1>1, <1>4, <3>1
      <3>3. cached[p] # 0
        BY <1>1, <3>1, <3>2
      <3> QED BY <3>1, <3>3
    <2> QED BY <2>1, <2>2
  <1>5. ASSUME NEW q \in Procs, cached'[q] # 0 PROVE q \in servers' /\ Counts(engines'[cached'[q]], log')
    BY <1>5 DEF Solo
  <1>6. ASSUME NEW i \in DOMAIN log', i <= snapshot' PROVE i \notin Open(log') /\ log'[i].type # "BYPASS_TRANSITION"
    <2>1. CASE log' = log /\ snapshot' = snapshot
      BY <1>6, <2>1 DEF Solo
    <2>2. CASE log' = log /\ Open(log) = {} /\ ~Moved(log)
      BY <1>6, <2>2 DEF Moved
    <2>3. CASE log' = Append(log, e) /\ snapshot' = snapshot
      <3>1. log' \in Seq(Events) /\ Len(log') = Len(log) + 1 /\ \A j \in DOMAIN log : log'[j] = log[j]
        BY <1>1, <2>3, GrownInto
      <3>2. i \in DOMAIN log /\ i <= snapshot
        <4>1. DOMAIN log' = 1..(Len(log) + 1)
          BY <3>1
        <4> QED BY <1>1, <1>6, <2>3, <4>1
      <3>3. Open(log') \subseteq Open(log) \cup {Len(log) + 1}
        BY <1>1, <2>3, OpenGrown
      <3>4. i # Len(log) + 1
        BY <1>1, <3>2
      <3> QED BY <3>1, <3>2, <3>3, <3>4 DEF Solo
    <2> QED BY <2>1, <2>2, <2>3
  <1>8. Len(Append(log, e)) = Len(log) + 1
    BY <1>1, Grown
  <1>7. ASSUME NEW d \in Calls PROVE Quiet(call'[d], log')
    <2>1. CASE d = c
      BY <1>2, <2>1
    <2>2. CASE d # c
      <3>1. call'[d] = call[d] /\ call[d] \in CallRecords /\ Quiet(call[d], log) /\ call[d].pc \in {"idle", "resuming", "guard"}
        BY <1>1, <1>2, <1>3, <2>2 DEF Solo
      <3>2. CASE log' = log
        BY <3>1, <3>2
      <3>3. CASE log' = Append(log, e)
        <4>1. Len(log') = Len(log) + 1
          BY <1>8, <3>3
        <4>2. call[d].version \in Nat /\ (call[d].pc = "guard" => call[d].version <= Len(log))
          BY <3>1 DEF Quiet, CallRecords
        <4>3. call[d].pc = "guard" => call[d].version # Len(log') /\ call[d].version <= Len(log')
          BY <1>1, <4>1, <4>2
        <4> QED BY <3>1, <4>3 DEF Quiet
      <3> QED BY <3>2, <3>3
    <2> QED BY <2>1, <2>2
  <1> QED BY <1>4, <1>5, <1>6, <1>7 DEF Solo

\* A call of the only process runs on the engine the process holds, which counts as the ledger.
LEMMA SoloBasics ==
    ASSUME Inv, Solo, NEW p, servers = {p}, NEW c \in Calls, call[c].pc # "idle"
    PROVE  /\ p \in Procs /\ c[1] = p /\ call[c].eng = cached[p] /\ cached[p] # 0 /\ call[c].eng \in 1..Len(engines)
           /\ engines[call[c].eng] \in Engines(Len(log)) /\ Counts(engines[call[c].eng], log) /\ Quiet(call[c], log)
           /\ log \in Seq(Events) /\ Len(log) \in Nat /\ Len(log) >= 1 /\ call[c] \in CallRecords /\ snapshot \in 1..Len(log)
  <1>1. /\ call[c].eng \in (IF call[c].pc = "idle" THEN 0 ELSE 1)..Len(engines) /\ Len(engines) \in Nat
        /\ engines \in Seq(Engines(Len(log))) /\ log \in Seq(Events) /\ Len(log) \in Nat /\ Len(log) >= 1
        /\ call[c] \in CallRecords /\ snapshot \in 1..Len(log)
    BY Basics
  <1>2. p \in Procs
    BY DEF Inv, Typed
  <1>3. c[1] = p /\ call[c].eng = cached[p] /\ Quiet(call[c], log)
    BY DEF Solo
  <1>4. call[c].eng \in 1..Len(engines)
    BY <1>1
  <1>5. cached[p] # 0
    BY <1>1, <1>3, <1>4
  <1> QED BY <1>1, <1>2, <1>3, <1>4, <1>5 DEF Solo

\* It moves on without writing an event.
LEMMA SoloGoesOn ==
    ASSUME ConstantsAssumption, Inv, Solo, NEW p, servers = {p}, NEW c \in Calls, call[c].pc # "idle", Runs(c),
           NEW r \in CallRecords, call' = [call EXCEPT ![c] = r], UNCHANGED <<servers, log, engines, cached>>,
           r.pc # "idle" => r.eng = call[c].eng, Quiet(r, log),
           snapshot' = snapshot \/ (Open(log) = {} /\ ~Moved(log))
    PROVE  Solo'
  <1>1. /\ p \in Procs /\ c[1] = p /\ call[c].eng = cached[p] /\ cached[p] # 0 /\ Counts(engines[call[c].eng], log)
        /\ log \in Seq(Events) /\ Len(log) >= 1
    BY SoloBasics
  <1>2. log[1] \in Events
    BY <1>1
  <1>3. Counts(engines'[cached'[p]], log') /\ Quiet(r, log') /\ (r.pc # "idle" => r.eng = cached'[p])
    BY <1>1
  <1> QED BY <1>1, <1>2, <1>3, SoloKeeps

\* It writes an event, and its engine counts it as the ledger does.
LEMMA SoloWrites ==
    ASSUME ConstantsAssumption, Inv, Solo, NEW p, servers = {p}, NEW c \in Calls, call[c].pc # "idle", Runs(c),
           NEW e \in Events, NEW turns \in Nat, NEW bypassed \in BOOLEAN, Append1(call[c].eng, e, turns, bypassed),
           turns = Cardinality(Open(Append(log, e))), bypassed <=> Moved(Append(log, e)),
           NEW r \in CallRecords, call' = [call EXCEPT ![c] = r], UNCHANGED <<servers, snapshot, cached>>,
           r.pc # "idle" => r.eng = call[c].eng, Quiet(r, Append(log, e))
    PROVE  Solo'
  <1> DEFINE g == call[c].eng
             b == engines[g].ext \/ Len(log) > engines[g].counter
             x == [turns |-> turns, bypassed |-> bypassed, counter |-> Len(log) + 1, ext |-> b]
  <1>1. /\ p \in Procs /\ c[1] = p /\ g = cached[p] /\ cached[p] # 0 /\ Counts(engines[g], log)
        /\ g \in 1..Len(engines) /\ log \in Seq(Events) /\ Len(log) \in Nat
    BY SoloBasics
  <1>2. Append1(g, e, turns, bypassed) /\ x = [turns |-> turns, bypassed |-> bypassed, counter |-> Len(log) + 1, ext |-> b]
    OBVIOUS
  <1>3. b = FALSE
    BY <1>1 DEF Counts
  <1>4. log' = Append(log, e) /\ Len(log') = Len(log) + 1 /\ engines'[g] = x
    <2> HIDE DEF g
    <2> QED BY <1>1, <1>2, EngineWrites
  <1> HIDE DEF g, b, x
  <1>5. Counts(engines'[cached'[p]], log')
    <2>1. engines'[g] = [turns |-> turns, bypassed |-> bypassed, counter |-> Len(log) + 1, ext |-> FALSE]
      BY <1>2, <1>3, <1>4
    <2>2. Counts(engines'[g], log')
      BY <1>4, <2>1 DEF Counts
    <2> QED BY <1>1, <2>2
  <1>6. Quiet(r, log') /\ (r.pc # "idle" => r.eng = cached'[p])
    BY <1>1, <1>4 DEF g
  <1> QED BY <1>1, <1>4, <1>5, <1>6, SoloKeeps

\* The engine the only process hands out counts as the ledger: the one it holds, or one that
\* replayed the events after the snapshot.
LEMMA EngineCounts ==
    ASSUME ConstantsAssumption, Inv, Solo, NEW p \in Procs, servers = {p}, NEW e \in 1..(Len(engines) + 1), GetEngine(p, e)
    PROVE  /\ Counts(engines'[e], log) /\ cached' = [cached EXCEPT ![p] = e] /\ (cached[p] # 0 => e = cached[p])
           /\ e \in 1..Len(engines') /\ cached'[p] = e
  <1>1. /\ engines \in Seq(Engines(Len(log))) /\ Len(engines) \in Nat /\ cached \in [Procs -> 0..Len(engines)]
        /\ DOMAIN log = 1..Len(log) /\ Len(log) \in Nat /\ Len(log) >= 1
    BY DEF Inv, Typed
  <1>2. /\ cached' = [cached EXCEPT ![p] = e] /\ e \in 1..Len(engines')
        /\ \/ engines' = engines /\ e = cached[p] /\ e # 0
           \/ Usable(p) = {} /\ e = Len(engines) + 1 /\ engines' = Append(engines, Reloaded)
    BY EngineHandedOut
  <1>3. cached'[p] = e
    BY <1>1, <1>2
  <1>4. CASE engines' = engines /\ e = cached[p] /\ e # 0
    BY <1>2, <1>3, <1>4 DEF Solo
  <1>5. CASE Usable(p) = {} /\ e = Len(engines) + 1 /\ engines' = Append(engines, Reloaded)
    <2>1. cached[p] = 0
      <3> SUFFICES ASSUME cached[p] # 0 PROVE FALSE
        OBVIOUS
      <3>1. Counts(engines[cached[p]], log)
        BY DEF Solo
      <3>2. ~HasExternal(cached[p])
        BY <1>1, <3>1 DEF Counts, HasExternal
      <3>3. cached[p] \in Usable(p)
        BY <3>2 DEF Usable
      <3> QED BY <1>5, <3>3
    <2>2. engines'[e] = Reloaded
      BY <1>1, <1>5
    <2>3. {i \in Of({"AGENT_TURN_STARTED"}) : i > snapshot /\ i > LastReset} = Open(log)
      <3>1. snapshot \in Nat /\ \A i \in DOMAIN log : i \in Nat
        BY <1>1 DEF Inv, Typed
      <3>2. \A i \in DOMAIN log : i > LastReset <=> \A j \in DOMAIN log : log[j].type \in Resets => j < i
        BY TurnsAreOpen
      <3>3. \A i \in Open(log) : i \in DOMAIN log /\ ~(i <= snapshot)
        BY DEF Solo, Open
      <3>4. \A i \in Open(log) : i > snapshot
        BY <3>1, <3>3
      <3> QED BY <3>2, <3>4 DEF Of, Open
    <2>4. (\E i \in Of({"BYPASS_TRANSITION"}) : i > snapshot) <=> Moved(log)
      <3>1. snapshot \in Nat /\ \A i \in DOMAIN log : i \in Nat
        BY <1>1 DEF Inv, Typed
      <3>2. \A i \in DOMAIN log : log[i].type = "BYPASS_TRANSITION" => i > snapshot
        BY <3>1 DEF Solo
      <3> QED BY <3>2 DEF Of, Moved
    <2>5. Counts(Reloaded, log)
      BY <2>3, <2>4 DEF Reloaded, Counts
    <2> QED BY <1>2, <1>3, <2>1, <2>2, <2>5
  <1> QED BY <1>2, <1>4, <1>5

\* A fetch or a submission begins.
LEMMA SoloBegins ==
    ASSUME ConstantsAssumption, Inv, Solo, NEW p \in Procs, servers = {p}, Fetch(p) \/ \E k \in Keys : Submit(p, k)
    PROVE  Solo'
  <1>1. log \in Seq(Events) /\ Len(log) >= 1 /\ Len(log) \in Nat /\ call \in [Calls -> CallRecords] /\ cached \in [Procs -> 0..Len(engines)]
    BY DEF Inv, Typed
  <1>2. log[1] \in Events
    BY <1>1
  <1>3. ASSUME NEW c \in Calls, c[1] = p, Runs(c), call[c].pc = "idle", UNCHANGED <<servers, log, snapshot>>,
               NEW e \in 1..(Len(engines) + 1), GetEngine(p, e), NEW r, call' = [call EXCEPT ![c] = r],
               r = NoCall \/ (r \in CallRecords /\ r.eng = e /\ r.pc \in {"resuming", "emitting", "recovering"})
        PROVE  Solo'
    <2>1. /\ Counts(engines'[cached'[p]], log) /\ (cached[p] # 0 => cached'[p] = cached[p]) /\ cached'[p] = e
          /\ cached' = [cached EXCEPT ![p] = e]
      BY <1>3, EngineCounts
    <2>2. \A q \in Procs : q # p => cached'[q] = cached[q]
      BY <1>1, <2>1
    <2>3. r \in CallRecords /\ Quiet(r, log')
      BY <1>3, NoCallTyped, QuietElsewhere
    <2>4. r.pc # "idle" => r.eng = cached'[p]
      BY <1>3, <2>1, NoCallTyped
    <2>5. Counts(engines'[cached'[p]], log') /\ log' = log
      BY <1>3, <2>1
    <2> QED BY <1>2, <1>3, <2>1, <2>2, <2>3, <2>4, <2>5, SoloKeeps
  <1>4. CASE Fetch(p)
    <2> DEFINE c == <<p, "fetch">>
    <2>1. c \in Calls /\ c[1] = p
      BY DEF Calls
    <2>2. Runs(c) /\ call[c].pc = "idle" /\ UNCHANGED <<servers, log, snapshot>>
      BY <1>4 DEF Fetch, At, store
    <2>3. PICK e \in 1..(Len(engines) + 1) :
            /\ GetEngine(p, e)
            /\ IF engines'[e].bypassed THEN UNCHANGED call
               ELSE call' = [call EXCEPT ![c] = [NoCall EXCEPT !.pc = "resuming", !.eng = e]]
      BY <1>4 DEF Fetch
    <2>4. CASE engines'[e].bypassed
      <3> HIDE DEF c
      <3>1. log' = log /\ snapshot' = snapshot /\ servers' = servers /\ call' = call
        BY <2>2, <2>3, <2>4
      <3>2. Counts(engines'[cached'[p]], log) /\ (cached[p] # 0 => cached'[p] = cached[p]) /\ cached' = [cached EXCEPT ![p] = e]
        BY <2>3, EngineCounts
      <3>3. \A q \in Procs : q # p => cached'[q] = cached[q]
        BY <1>1, <3>2
      <3> DEFINE r == call[c]
      <3>4. call' = [call EXCEPT ![c] = r] /\ r \in CallRecords /\ Quiet(r, log') /\ r.pc = "idle"
        BY <1>1, <2>1, <2>2, <3>1 DEF Solo
      <3> HIDE DEF r
      <3>5. Counts(engines'[cached'[p]], log')
        BY <3>1, <3>2
      <3>6. Runs(c) /\ log' = log /\ snapshot' = snapshot /\ servers' = servers
        BY <2>2
      <3> QED BY <1>2, <2>1, <3>2, <3>3, <3>4, <3>5, <3>6, SoloKeeps
    <2>5. CASE ~engines'[e].bypassed
      <3> DEFINE r == [NoCall EXCEPT !.pc = "resuming", !.eng = e]
      <3>1. call' = [call EXCEPT ![c] = r] /\ r = [NoCall EXCEPT !.pc = "resuming", !.eng = e] /\ "resuming" \in Pcs /\ e \in Nat
        BY <2>3, <2>5 DEF Pcs
      <3>4. e \in Nat /\ "resuming" \in Pcs
        BY <3>1
      <3> HIDE DEF c, r
      <3>2. r = [pc |-> "resuming", eng |-> e, key |-> NoKey, view |-> 0, delivered |-> 0, promotes |-> FALSE, version |-> 0]
        BY <3>1 DEF NoCall
      <3>3. r \in CallRecords /\ r.eng = e /\ r.pc = "resuming"
        BY <3>2, <3>4 DEF CallRecords
      <3> QED BY <1>3, <2>1, <2>2, <2>3, <3>1, <3>3
    <2> QED BY <2>4, <2>5
  <1>5. ASSUME NEW k \in Keys, Submit(p, k) PROVE Solo'
    <2> DEFINE c == <<p, "submission">>
               where == IF Keyed({"SIGNAL_EMITTED"}, k) = {} THEN "emitting" ELSE "recovering"
    <2>1. c \in Calls /\ c[1] = p
      BY DEF Calls
    <2>2. Runs(c) /\ call[c].pc = "idle" /\ UNCHANGED <<servers, log, snapshot>>
      BY <1>5 DEF Submit, At, store
    <2>3. PICK e \in 1..(Len(engines) + 1) :
            GetEngine(p, e) /\ call' = [call EXCEPT ![c] = [NoCall EXCEPT !.eng = e, !.key = k, !.pc = where]]
      BY <1>5 DEF Submit
    <2>4. where \in {"emitting", "recovering"}
      OBVIOUS
    <2> DEFINE r == [NoCall EXCEPT !.eng = e, !.key = k, !.pc = where]
    <2>5. call' = [call EXCEPT ![c] = r] /\ r = [NoCall EXCEPT !.eng = e, !.key = k, !.pc = where]
      BY <2>3
    <2> HIDE DEF c, r, where
    <2>6. r = [pc |-> where, eng |-> e, key |-> k, view |-> 0, delivered |-> 0, promotes |-> FALSE, version |-> 0]
      BY <2>5 DEF NoCall
    <2>7. e \in Nat /\ where \in Pcs
      BY <2>4 DEF Pcs
    <2>8. r \in CallRecords /\ r.eng = e /\ r.pc = where
      BY <2>6, <2>7 DEF CallRecords
    <2> QED BY <1>3, <2>1, <2>2, <2>3, <2>4, <2>5, <2>8
  <1> QED BY <1>4, <1>5

\* Where a call goes on to.
LEMMA GoneTo ==
    ASSUME Inv, NEW c \in Calls, NEW pc \in Pcs, Goto(c, pc)
    PROVE  \E r \in CallRecords : r.pc = pc /\ r.eng = call[c].eng /\ r.version = call[c].version /\ call' = [call EXCEPT ![c] = r]
  <1> DEFINE q == call[c]
             r == [q EXCEPT !.pc = pc]
  <1>1. q \in CallRecords
    BY Basics
  <1>2. call' = [call EXCEPT ![c] = r] /\ r = [q EXCEPT !.pc = pc]
    BY DEF Goto
  <1> HIDE DEF r
  <1>3. r \in CallRecords /\ r.pc = pc /\ r.eng = q.eng /\ r.version = q.version
    BY <1>1, <1>2, MovedCall
  <1> QED BY <1>2, <1>3

\* The steps that write no event.
LEMMA SoloOwnSteps ==
    ASSUME ConstantsAssumption, Inv, Solo, NEW p, servers = {p}, NEW c \in Calls,
           \/ EmitConflict(c) \/ EmitDuplicate(c) \/ BeginGuard(c) \/ Unhandled(c) \/ GuardReturns(c)
           \/ SaveSnapshot(c) \/ Respond(c) \/ CheckPasses(c) \/ Scan(c) \/ Recover(c) \/ Credit(c)
    PROVE  Solo'
  <1> DEFINE q == call[c]
             g == q.eng
  <1>1. q.pc # "idle" /\ Runs(c) /\ UNCHANGED <<servers, log, cached>>
    BY DEF EmitConflict, EmitDuplicate, BeginGuard, Unhandled, GuardReturns, SaveSnapshot, Respond, CheckPasses, Scan,
           Recover, Credit, At, store, bounds
  <1>2. /\ g \in 1..Len(engines) /\ engines[g] \in Engines(Len(log)) /\ Counts(engines[g], log) /\ Quiet(q, log)
        /\ log \in Seq(Events) /\ Len(log) \in Nat /\ Len(log) >= 1 /\ q \in CallRecords
    BY <1>1, SoloBasics
  <1>3. ASSUME NEW r \in CallRecords, call' = [call EXCEPT ![c] = r], r.pc # "idle" => r.eng = g, Quiet(r, log), engines' = engines,
               snapshot' = snapshot \/ (Open(log) = {} /\ ~Moved(log))
        PROVE  Solo'
    <2> HIDE DEF q, g
    <2> QED BY <1>1, <1>3, SoloGoesOn DEF q, g
  <1>4. ASSUME End(c), engines' = engines, snapshot' = snapshot PROVE Solo'
    <2>1. call' = [call EXCEPT ![c] = NoCall] /\ NoCall \in CallRecords /\ NoCall.pc = "idle"
      BY <1>4, NoCallTyped DEF End
    <2>2. Quiet(NoCall, log)
      BY <2>1, QuietElsewhere
    <2> QED BY <1>3, <1>4, <2>1, <2>2
  <1>5. ASSUME NEW pc \in Pcs, Goto(c, pc), pc \notin {"routing", "guard", "answered", "accepted", "moved", "delivering"},
               engines' = engines, snapshot' = snapshot \/ (Open(log) = {} /\ ~Moved(log))
        PROVE  Solo'
    <2>1. PICK r \in CallRecords : r.pc = pc /\ r.eng = g /\ call' = [call EXCEPT ![c] = r]
      BY <1>5, GoneTo
    <2>2. Quiet(r, log)
      BY <1>5, <2>1, QuietElsewhere
    <2> QED BY <1>3, <1>5, <2>1, <2>2
  <1>6. CASE EmitConflict(c) \/ Respond(c) \/ CheckPasses(c) \/ Unhandled(c)
    <2>1. /\ engines' = engines /\ snapshot' = snapshot
          /\ End(c) \/ \E pc \in {"scanning", "receipt", "responding"} : Goto(c, pc)
      BY <1>6 DEF EmitConflict, Respond, CheckPasses, Unhandled, Delivered, store
    <2>2. /\ {"scanning", "receipt", "responding"} \subseteq Pcs
          /\ \A pc \in {"scanning", "receipt", "responding"} : pc \notin {"routing", "guard", "answered", "accepted", "moved", "delivering"}
      BY DEF Pcs
    <2> QED BY <1>4, <1>5, <2>1, <2>2
  <1>7. CASE EmitDuplicate(c)
    <2>1. PICK s \in Keyed({"SIGNAL_EMITTED"}, q.key) : engines' = [engines EXCEPT ![g].counter = IF s > @ THEN s ELSE @]
      BY <1>7 DEF EmitDuplicate
    <2> DEFINE en == engines[g]
               n == IF s > en.counter THEN s ELSE en.counter
               x == [en EXCEPT !.counter = n]
    <2>2. engines' = [engines EXCEPT ![g] = x]
      BY <2>1
    <2>3. n = en.counter
      <3>1. s \in 1..Len(log)
        BY <1>2 DEF Keyed, Of
      <3>2. en.counter = Len(log)
        BY <1>2 DEF Counts
      <3> QED BY <1>2, <3>1, <3>2
    <2>4. en = [turns |-> en.turns, bypassed |-> en.bypassed, counter |-> en.counter, ext |-> en.ext]
      BY <1>2 DEF Engines
    <2>5. x = [en EXCEPT !.counter = n] /\ engines \in Seq(Engines(Len(log)))
      BY DEF Inv, Typed
    <2> HIDE DEF x, n
    <2>6. x = [en EXCEPT !.counter = en.counter]
      BY <2>3, <2>5
    <2> HIDE DEF en
    <2>7. x = en
      BY <2>4, <2>6
    <2>8. engines' = engines
      BY <1>2, <2>2, <2>5, <2>7 DEF en
    <2>9. Goto(c, "recovering") /\ snapshot' = snapshot /\ "recovering" \in Pcs
      BY <1>7 DEF EmitDuplicate, store, Pcs
    <2> QED BY <1>5, <2>8, <2>9
  <1>8. CASE BeginGuard(c)
    <2> DEFINE n == Len(log)
               r == [q EXCEPT !.pc = "guard", !.version = n]
    <2>1. /\ call' = [call EXCEPT ![c] = r] /\ q.pc = "routing" /\ ~engines[g].bypassed
          /\ snapshot' = snapshot /\ engines' = engines
      BY <1>8 DEF BeginGuard, store, At
    <2>2. "guard" \in Pcs /\ n \in Nat
      BY <1>2 DEF Pcs
    <2> HIDE DEF n
    <2>3. r \in CallRecords
      BY <1>2, <2>2, Zenon DEF CallRecords
    <2>4. r.pc = "guard" /\ r.eng = g /\ r.version = n
      BY <1>2 DEF CallRecords
    <2>5. Open(log) = {} /\ ~Moved(log)
      BY <1>2, <2>1 DEF Quiet, Counts
    <2> HIDE DEF r
    <2>6. Quiet(r, log)
      BY <1>2, <2>4, <2>5 DEF Quiet, n
    <2> QED BY <1>3, <2>1, <2>3, <2>4, <2>6
  <1>9. CASE GuardReturns(c)
    <2>1. /\ q.pc = "guard" /\ snapshot' = snapshot /\ engines' = engines
          /\ End(c) \/ (Len(log) = q.version /\ Goto(c, "answered"))
      BY <1>9 DEF GuardReturns, store, At
    <2>2. CASE Len(log) = q.version /\ Goto(c, "answered")
      <3>1. "answered" \in Pcs
        BY DEF Pcs
      <3>2. PICK r \in CallRecords : r.pc = "answered" /\ r.eng = g /\ call' = [call EXCEPT ![c] = r]
        BY <2>2, <3>1, GoneTo
      <3>3. Open(log) = {} /\ ~Moved(log)
        BY <1>2, <2>1, <2>2 DEF Quiet
      <3>4. Quiet(r, log)
        BY <3>2, <3>3 DEF Quiet
      <3> QED BY <1>3, <2>1, <3>2, <3>4
    <2> QED BY <1>4, <2>1, <2>2
  <1>10. CASE SaveSnapshot(c)
    <2>1. q.pc = "moved" /\ Goto(c, "responding") /\ engines' = engines /\ "responding" \in Pcs
      BY <1>10 DEF SaveSnapshot, At, Pcs
    <2>2. Len(log) \in DOMAIN log /\ log[Len(log)].type \in Resets /\ ~Moved(log)
      BY <1>2, <2>1 DEF Quiet, Resets
    <2>3. Open(log) = {}
      <3> SUFFICES ASSUME NEW i \in Open(log) PROVE FALSE
        OBVIOUS
      <3>1. i \in 1..Len(log) /\ Len(log) < i
        BY <1>2, <2>2 DEF Open
      <3> QED BY <1>2, <3>1
    <2> QED BY <1>5, <2>1, <2>2, <2>3
  <1>11. CASE Scan(c)
    <2> DEFINE v == ViewSeq
               n == DeliveredNow
               b == \E x \in Credited(v) : x.key = q.key
               r == [q EXCEPT !.pc = "delivering", !.view = v, !.delivered = n, !.promotes = b]
    <2>1. engines' = engines /\ snapshot' = snapshot
      BY <1>11 DEF Scan, store
    <2>2. CASE engines[g].bypassed
      <3>1. End(c) \/ Goto(c, "receipt")
        BY <1>11, <2>2 DEF Scan, Delivered
      <3>2. "receipt" \in Pcs
        BY DEF Pcs
      <3> QED BY <1>4, <1>5, <2>1, <3>1, <3>2
    <2>3. CASE ~engines[g].bypassed
      <3>1. call' = [call EXCEPT ![c] = r]
        BY <1>11, <2>3 DEF Scan
      <3>2. v \in 1..Len(log) /\ n \in Nat
        BY ViewIsPosition, DeliveriesCounted
      <3>3. b \in BOOLEAN /\ "delivering" \in Pcs /\ v \in Nat
        BY <1>2, <3>2 DEF Pcs
      <3> HIDE DEF v, n, b
      <3>4. r \in CallRecords
        BY <1>2, <3>2, <3>3, Zenon DEF CallRecords
      <3>5. r.pc = "delivering" /\ r.eng = g
        BY <1>2 DEF CallRecords
      <3> HIDE DEF r
      <3>6. ~Moved(log)
        BY <1>2, <2>3 DEF Counts
      <3>7. Quiet(r, log)
        BY <3>5, <3>6 DEF Quiet
      <3> QED BY <1>3, <2>1, <3>1, <3>4, <3>5, <3>7
    <2> QED BY <2>2, <2>3
  <1>12. CASE Recover(c)
    <2> DEFINE v == ViewSeq
               r == [q EXCEPT !.pc = "crediting", !.view = v]
    <2>1. engines' = engines /\ snapshot' = snapshot /\ (End(c) \/ call' = [call EXCEPT ![c] = r])
      BY <1>12 DEF Recover, store
    <2>2. v \in 1..Len(log)
      BY ViewIsPosition
    <2>3. "crediting" \in Pcs /\ v \in Nat
      BY <1>2, <2>2 DEF Pcs
    <2> HIDE DEF v
    <2>4. r \in CallRecords
      BY <1>2, <2>3, Zenon DEF CallRecords
    <2>5. r.pc = "crediting" /\ r.eng = g
      BY <1>2 DEF CallRecords
    <2> HIDE DEF r
    <2>6. Quiet(r, log)
      BY <2>5, QuietElsewhere
    <2> QED BY <1>3, <1>4, <2>1, <2>4, <2>5, <2>6
  <1>13. CASE Credit(c)
    BY <1>4, <1>13 DEF Credit
  <1> QED BY <1>6, <1>7, <1>8, <1>9, <1>10, <1>11, <1>12, <1>13

\* The events of a call.
LEMMA EventTyped ==
    ASSUME NEW t \in EventTypes, NEW k \in Keys \cup {NoKey}, NEW n \in Nat
    PROVE  Event(t, k, n) \in Events /\ Event(t, k, n).type = t
  BY DEF Event, Events

\* The delivery it counts.
LEMMA DeliveryTyped ==
    ASSUME Inv, NEW c \in Calls, call[c].pc = "delivering", NEW t \in Deliveries, NEW n \in Nat
    PROVE  Delivery(t, c, n) \in Events /\ Delivery(t, c, n).type = t
  <1> DEFINE q == call[c]
             e == Delivery(t, c, n)
  <1>1. q \in CallRecords
    BY Basics
  <1>2. q.key \in Keys \cup {NoKey} /\ q.view \in Nat /\ t \in EventTypes
    BY <1>1 DEF CallRecords, EventTypes
  <1>3. e = [type |-> t, key |-> q.key, n |-> n, view |-> q.view]
    BY DEF Delivery, Event
  <1> HIDE DEF e, q
  <1>4. e \in Events /\ e.type = t
    BY <1>2, <1>3 DEF Events
  <1> QED BY <1>4 DEF e

\* The steps that write an event.
LEMMA SoloEventSteps ==
    ASSUME ConstantsAssumption, Inv, Solo, NEW p, servers = {p}, NEW c \in Calls,
           \/ Emit(c) \/ RecordGuard(c) \/ Transition(c) \/ Refuse(c) \/ Refetch(c) \/ StartTurn(c)
           \/ DetectBypass(c) \/ Bypass(c) \/ SaveReceipt(c)
    PROVE  Solo'
  <1> DEFINE q == call[c]
             g == q.eng
             n == engines[g].turns
             b == engines[g].bypassed
  <1>1. q.pc # "idle" /\ Runs(c) /\ UNCHANGED <<servers, snapshot, cached>>
    BY DEF Emit, RecordGuard, Transition, Refuse, Refetch, StartTurn, DetectBypass, Bypass, SaveReceipt, At, bounds
  <1>2. /\ g \in 1..Len(engines) /\ engines[g] \in Engines(Len(log)) /\ Counts(engines[g], log) /\ Quiet(q, log)
        /\ log \in Seq(Events) /\ Len(log) \in Nat /\ Len(log) >= 1 /\ q \in CallRecords
    BY <1>1, SoloBasics
  <1>3. n \in Nat /\ b \in BOOLEAN /\ n = Cardinality(Open(log)) /\ (b <=> Moved(log))
    BY <1>2 DEF Engines, Counts
  <1>4. ASSUME NEW e \in Events, NEW turns \in Nat, NEW bypassed \in BOOLEAN, Append1(g, e, turns, bypassed),
               turns = Cardinality(Open(Append(log, e))), bypassed <=> Moved(Append(log, e)),
               NEW r \in CallRecords, call' = [call EXCEPT ![c] = r], r.pc # "idle" => r.eng = g, Quiet(r, Append(log, e))
        PROVE  Solo'
    <2> HIDE DEF q, g, n, b
    <2> QED BY <1>1, <1>4, SoloWrites DEF q, g
  <1>5. ASSUME NEW e \in Events, e.type \notin Resets \cup {"AGENT_TURN_STARTED"}, Append1(g, e, n, b),
               NEW r \in CallRecords, call' = [call EXCEPT ![c] = r], r.pc # "idle" => r.eng = g, Quiet(r, Append(log, e))
        PROVE  Solo'
    <2>1. n = Cardinality(Open(Append(log, e)))
      BY <1>2, <1>3, <1>5, TurnsCounted
    <2>2. b <=> Moved(Append(log, e))
      BY <1>2, <1>3, <1>5, OpenGrown DEF Resets
    <2> HIDE DEF n, b, q, g
    <2> QED BY <1>3, <1>4, <1>5, <2>1, <2>2
  <1>6. ASSUME NEW pc \in Pcs, Goto(c, pc) PROVE \E r \in CallRecords : r.pc = pc /\ r.eng = g /\ call' = [call EXCEPT ![c] = r]
    BY <1>6, GoneTo
  <1>7. ASSUME End(c) PROVE call' = [call EXCEPT ![c] = NoCall] /\ NoCall \in CallRecords /\ NoCall.pc = "idle"
    BY <1>7, NoCallTyped DEF End
  <1>8. ASSUME NEW e \in Events, e.type \notin Resets \cup {"AGENT_TURN_STARTED"}, Append1(g, e, n, b),
               End(c) \/ \E pc \in Pcs \ {"routing", "guard", "answered", "accepted", "moved", "delivering"} : Goto(c, pc)
        PROVE  Solo'
    <2>1. PICK r \in CallRecords : /\ call' = [call EXCEPT ![c] = r] /\ (r.pc # "idle" => r.eng = g)
                                   /\ r.pc \notin {"routing", "guard", "answered", "accepted", "moved", "delivering"}
      BY <1>6, <1>7, <1>8
    <2>2. Quiet(r, Append(log, e))
      BY <2>1, QuietElsewhere
    <2> HIDE DEF n, b, q, g
    <2> QED BY <1>5, <1>8, <2>1, <2>2
  <1>9. NoKey \in Keys \cup {NoKey} /\ q.key \in Keys \cup {NoKey}
    BY <1>2 DEF CallRecords
  <1>10. CASE Refuse(c)
    <2> DEFINE e == Event("SIGNAL_REFUSED", NoKey, 0)
    <2>1. Append1(g, e, n, b) /\ Goto(c, "responding")
      BY <1>10 DEF Refuse, AppendOnly
    <2>2. "SIGNAL_REFUSED" \in EventTypes /\ "SIGNAL_REFUSED" \notin Resets \cup {"AGENT_TURN_STARTED"}
      BY DEF EventTypes, Resets
    <2>3. e \in Events /\ e.type = "SIGNAL_REFUSED"
      BY <1>9, <2>2, EventTyped
    <2>4. "responding" \in Pcs \ {"routing", "guard", "answered", "accepted", "moved", "delivering"}
      BY DEF Pcs
    <2> HIDE DEF n, b, q, g, e
    <2> QED BY <1>8, <2>1, <2>2, <2>3, <2>4
  <1>11. CASE DetectBypass(c)
    <2> DEFINE e == Event("BYPASS_DETECTED", NoKey, 0)
    <2>1. Append1(g, e, n, b) /\ Goto(c, "bypassing")
      BY <1>11 DEF DetectBypass, AppendOnly
    <2>2. "BYPASS_DETECTED" \in EventTypes /\ "BYPASS_DETECTED" \notin Resets \cup {"AGENT_TURN_STARTED"}
      BY DEF EventTypes, Resets
    <2>3. e \in Events /\ e.type = "BYPASS_DETECTED"
      BY <1>9, <2>2, EventTyped
    <2>4. "bypassing" \in Pcs \ {"routing", "guard", "answered", "accepted", "moved", "delivering"}
      BY DEF Pcs
    <2> HIDE DEF n, b, q, g, e
    <2> QED BY <1>8, <2>1, <2>2, <2>3, <2>4
  <1>12. CASE SaveReceipt(c)
    <2> DEFINE v == ViewSeq
               e == Event("MCP_CONTINUATION_RECORDED", q.key, v)
    <2>1. Append1(g, e, n, b) /\ End(c)
      BY <1>12 DEF SaveReceipt, AppendOnly
    <2>2. "MCP_CONTINUATION_RECORDED" \in EventTypes /\ "MCP_CONTINUATION_RECORDED" \notin Resets \cup {"AGENT_TURN_STARTED"}
      BY DEF EventTypes, Resets
    <2>3. v \in Nat
      <3>1. v \in 1..Len(log)
        BY ViewIsPosition
      <3> QED BY <1>2, <3>1
    <2> HIDE DEF v
    <2>4. e \in Events /\ e.type = "MCP_CONTINUATION_RECORDED"
      BY <1>9, <2>2, <2>3, EventTyped
    <2> HIDE DEF n, b, q, g, e
    <2> QED BY <1>8, <2>1, <2>2, <2>4
  <1>13. CASE Refetch(c)
    <2> DEFINE e == Delivery("STATE_VIEW_REFETCHED", c, 0)
    <2>1. Append1(g, e, n, b) /\ (End(c) \/ Goto(c, "receipt")) /\ q.pc = "delivering"
      BY <1>13 DEF Refetch, AppendOnly, Delivered, At
    <2>2. "STATE_VIEW_REFETCHED" \in Deliveries /\ "STATE_VIEW_REFETCHED" \notin Resets \cup {"AGENT_TURN_STARTED"}
      BY DEF Deliveries, Resets
    <2>3. e \in Events /\ e.type = "STATE_VIEW_REFETCHED"
      BY <2>1, <2>2, DeliveryTyped
    <2>4. "receipt" \in Pcs \ {"routing", "guard", "answered", "accepted", "moved", "delivering"}
      BY DEF Pcs
    <2> HIDE DEF n, b, q, g, e
    <2> QED BY <1>8, <2>1, <2>2, <2>3, <2>4
  <1>14. CASE RecordGuard(c)
    <2> DEFINE e == Event("GUARD_EVALUATED", NoKey, 0)
    <2>1. Append1(g, e, n, b) /\ q.pc = "answered" /\ \E o \in Meets \ {"unhandled"} : Goto(c, o)
      BY <1>14 DEF RecordGuard, AppendOnly, At
    <2>2. PICK o \in {"accepted", "refused"} : Goto(c, o)
      BY <2>1, MeetsKnown
    <2>3. o \in Pcs /\ o \in {"accepted", "refused"}
      BY DEF Pcs
    <2>4. "GUARD_EVALUATED" \in EventTypes /\ "GUARD_EVALUATED" \notin Resets \cup {"AGENT_TURN_STARTED"}
          /\ "GUARD_EVALUATED" # "BYPASS_TRANSITION"
      BY DEF EventTypes, Resets
    <2>5. e \in Events /\ e.type = "GUARD_EVALUATED"
      BY <1>9, <2>4, EventTyped
    <2>6. PICK r \in CallRecords : r.pc = o /\ r.eng = g /\ call' = [call EXCEPT ![c] = r]
      BY <1>6, <2>2, <2>3
    <2> HIDE DEF n, b, g, e
    <2>7. Open(log) = {} /\ ~Moved(log)
      BY <1>2, <2>1 DEF Quiet
    <2>8. Open(Append(log, e)) = {} /\ ~Moved(Append(log, e))
      BY <1>2, <2>4, <2>5, <2>7, OpenGrown
    <2>9. Quiet(r, Append(log, e))
      BY <2>3, <2>6, <2>8 DEF Quiet
    <2> HIDE DEF q
    <2> QED BY <1>5, <2>1, <2>4, <2>5, <2>6, <2>9
  <1>15. CASE Transition(c)
    <2> DEFINE e == Event("STATE_TRANSITION", NoKey, 0)
    <2>1. Append1(g, e, n, b) /\ q.pc = "accepted" /\ Goto(c, "moved")
      BY <1>15 DEF Transition, AppendOnly, At
    <2>2. "STATE_TRANSITION" \in EventTypes /\ "STATE_TRANSITION" \in Resets /\ "STATE_TRANSITION" # "BYPASS_TRANSITION" /\ "moved" \in Pcs
      BY DEF EventTypes, Resets, Pcs
    <2>3. e \in Events /\ e.type = "STATE_TRANSITION"
      BY <1>9, <2>2, EventTyped
    <2>4. PICK r \in CallRecords : r.pc = "moved" /\ r.eng = g /\ call' = [call EXCEPT ![c] = r]
      BY <1>6, <2>1, <2>2
    <2>5. Open(log) = {} /\ ~Moved(log)
      BY <1>2, <2>1 DEF Quiet
    <2> HIDE DEF e
    <2>6. /\ Open(Append(log, e)) = {} /\ ~Moved(Append(log, e)) /\ Len(Append(log, e)) = Len(log) + 1
          /\ Append(log, e)[Len(log) + 1] = e
      BY <1>2, <2>2, <2>3, <2>5, OpenGrown, Grown
    <2>7. n = Cardinality(Open(Append(log, e))) /\ (b <=> Moved(Append(log, e)))
      BY <1>2, <1>3, <2>2, <2>3, <2>5, <2>6, TurnsCounted
    <2>8. Quiet(r, Append(log, e))
      BY <2>3, <2>4, <2>6 DEF Quiet
    <2> HIDE DEF n, b, q, g
    <2> QED BY <1>3, <1>4, <2>1, <2>3, <2>4, <2>7, <2>8
  <1>16. CASE Emit(c)
    <2> DEFINE e == Event("SIGNAL_EMITTED", q.key, 0)
               none == 0
    <2>1. Append1(g, e, none, b) /\ Goto(c, "routing") /\ none = 0
      BY <1>16 DEF Emit
    <2>2. "SIGNAL_EMITTED" \in EventTypes /\ "SIGNAL_EMITTED" \in Resets /\ "SIGNAL_EMITTED" # "BYPASS_TRANSITION" /\ "routing" \in Pcs
      BY DEF EventTypes, Resets, Pcs
    <2>3. e \in Events /\ e.type = "SIGNAL_EMITTED"
      BY <1>9, <2>2, EventTyped
    <2>4. PICK r \in CallRecords : r.pc = "routing" /\ r.eng = g /\ call' = [call EXCEPT ![c] = r]
      BY <1>6, <2>1, <2>2
    <2> HIDE DEF e, none, n
    <2>5. Open(Append(log, e)) = {} /\ (b <=> Moved(Append(log, e)))
      BY <1>2, <1>3, <2>2, <2>3, OpenGrown
    <2>6. none \in Nat /\ none = Cardinality(Open(Append(log, e)))
      BY <1>2, <2>1, <2>2, <2>3, TurnsCounted
    <2>7. Quiet(r, Append(log, e))
      BY <2>4, <2>5 DEF Quiet
    <2> HIDE DEF b, q, g
    <2> QED BY <1>3, <1>4, <2>1, <2>3, <2>4, <2>5, <2>6, <2>7
  <1>17. CASE StartTurn(c)
    <2> DEFINE m == n + 1
               e == Delivery("AGENT_TURN_STARTED", c, m)
               stays == FALSE
    <2>1. Append1(g, e, m, stays) /\ Goto(c, "checking") /\ q.pc = "delivering" /\ stays = FALSE
      BY <1>17 DEF StartTurn, At
    <2>2. /\ "AGENT_TURN_STARTED" \in Deliveries /\ "AGENT_TURN_STARTED" # "BYPASS_TRANSITION" /\ m \in Nat
          /\ "checking" \in Pcs /\ stays \in BOOLEAN
      BY <1>3 DEF Deliveries, Pcs
    <2> HIDE DEF m
    <2>3. e \in Events /\ e.type = "AGENT_TURN_STARTED"
      BY <2>1, <2>2, DeliveryTyped
    <2>4. PICK r \in CallRecords : r.pc = "checking" /\ r.eng = g /\ call' = [call EXCEPT ![c] = r]
      BY <1>6, <2>1, <2>2
    <2> HIDE DEF e, stays, b
    <2>5. m = Cardinality(Open(Append(log, e)))
      BY <1>2, <1>3, <2>3, TurnsCounted DEF m
    <2>6. stays <=> Moved(Append(log, e))
      <3>1. ~Moved(log)
        BY <1>2, <2>1 DEF Quiet
      <3> QED BY <1>2, <2>1, <2>2, <2>3, <3>1, OpenGrown
    <2>7. Quiet(r, Append(log, e))
      BY <2>4, QuietElsewhere
    <2> HIDE DEF n, q, g
    <2> QED BY <1>4, <2>1, <2>2, <2>3, <2>4, <2>5, <2>6, <2>7
  <1>18. CASE Bypass(c)
    <2> DEFINE e == Event("BYPASS_TRANSITION", NoKey, 0)
               none == 0
               moved == TRUE
    <2>1. Append1(g, e, none, moved) /\ End(c) /\ none = 0 /\ moved = TRUE
      BY <1>18 DEF Bypass
    <2>2. "BYPASS_TRANSITION" \in EventTypes /\ "BYPASS_TRANSITION" \in Resets
      BY DEF EventTypes, Resets
    <2>3. e \in Events /\ e.type = "BYPASS_TRANSITION"
      BY <1>9, <2>2, EventTyped
    <2>4. call' = [call EXCEPT ![c] = NoCall] /\ NoCall \in CallRecords /\ NoCall.pc = "idle"
      BY <1>7, <2>1
    <2> HIDE DEF e, none, moved, n, b
    <2>5. moved <=> Moved(Append(log, e))
      BY <1>2, <2>1, <2>3, OpenGrown
    <2>6. none \in Nat /\ none = Cardinality(Open(Append(log, e))) /\ moved \in BOOLEAN
      BY <1>2, <2>1, <2>2, <2>3, TurnsCounted
    <2>7. Quiet(NoCall, Append(log, e))
      BY <2>4, QuietElsewhere
    <2> HIDE DEF q, g
    <2> QED BY <1>4, <2>1, <2>3, <2>4, <2>5, <2>6, <2>7
  <1> QED BY <1>10, <1>11, <1>12, <1>13, <1>14, <1>15, <1>16, <1>17, <1>18

\* The process dies, and its engine with it.
LEMMA SoloCrash ==
    ASSUME ConstantsAssumption, Inv, Solo, NEW p, servers = {p}, Crash(p)
    PROVE  Solo'
  <1>1. cached \in [Procs -> 0..Len(engines)] /\ p \in Procs
    BY DEF Inv, Typed
  <1>2. /\ UNCHANGED <<servers, log, credits, snapshot, engines>> /\ cached' = [cached EXCEPT ![p] = 0]
        /\ call' = [d \in Calls |-> IF d[1] = p THEN NoCall ELSE call[d]]
    BY DEF Crash, store
  <1>3. \A d \in Calls : call'[d] = NoCall \/ (call'[d] = call[d] /\ d[1] # p)
    BY <1>2
  <1>4. NoCall.pc = "idle" /\ Quiet(NoCall, log)
    BY NoCallTyped, QuietElsewhere
  <1>5. \A q \in Procs : cached'[q] = IF q = p THEN 0 ELSE cached[q]
    BY <1>1, <1>2
  <1>6. \A d \in Calls : call'[d].pc # "idle" => d[1] \in servers' /\ call'[d].eng = cached'[d[1]]
    BY <1>2, <1>3, <1>4 DEF Solo
  <1>7. \A d \in Calls : Quiet(call'[d], log')
    BY <1>2, <1>3, <1>4 DEF Solo
  <1>8. \A q \in Procs : cached'[q] # 0 => q \in servers' /\ Counts(engines'[cached'[q]], log')
    BY <1>2, <1>5 DEF Solo
  <1> QED BY <1>2, <1>6, <1>7, <1>8 DEF Solo

\* It has begun alone.
LEMMA SoloInit == ASSUME ConstantsAssumption, Init PROVE Solo
  <1>1. /\ DOMAIN log = 1..1 /\ log[1].type = "SKILL_INITIALIZED" /\ \A c \in Calls : call[c] = NoCall
        /\ \A p \in Procs : cached[p] = 0
    BY DEF Init, Event
  <1>2. \A i \in DOMAIN log : i \notin Open(log) /\ log[i].type # "BYPASS_TRANSITION"
    BY <1>1 DEF Open
  <1>3. \A c \in Calls : call[c].pc = "idle" /\ Quiet(call[c], log)
    BY <1>1, NoCallTyped, QuietElsewhere
  <1> QED BY <1>1, <1>2, <1>3 DEF Solo

\* It stays alone, and its engine counts as the ledger.
LEMMA SoloNext == ASSUME ConstantsAssumption, Inv, Solos, [Next]_vars PROVE Solos'
  <1> SUFFICES ASSUME Alone' PROVE Solo'
    BY DEF Solos
  <1>1. servers' = servers
    BY DEF Next, vars, bounds, Fetch, Submit, Crash, EmitConflict, Emit, EmitDuplicate, BeginGuard, Unhandled, GuardReturns,
           RecordGuard, Transition, SaveSnapshot, Refuse, Respond, Scan, Refetch, StartTurn, CheckPasses, DetectBypass, Bypass,
           SaveReceipt, Recover, Credit
  <1>2. Solo
    BY <1>1 DEF Solos, Alone
  <1>3. PICK p \in Procs : servers = {p}
    <2>1. IsFiniteSet(servers) /\ servers \subseteq Procs
      BY FS_Subset DEF ConstantsAssumption, Inv, Typed
    <2>2. Cardinality(servers) = 1
      BY <1>1 DEF Alone
    <2>3. PICK x : servers = {x}
      BY <2>1, <2>2, FS_Singleton
    <2> QED BY <2>1, <2>3
  <1>4. ASSUME NEW s \in servers, Fetch(s) \/ (\E k \in Keys : Submit(s, k)) \/ Crash(s) PROVE Solo'
    <2>1. s = p
      BY <1>3
    <2> QED BY <1>2, <1>3, <1>4, <2>1, SoloBegins, SoloCrash
  <1>5. ASSUME NEW c \in Calls,
               \/ EmitConflict(c) \/ Emit(c) \/ EmitDuplicate(c) \/ BeginGuard(c) \/ Unhandled(c)
               \/ GuardReturns(c) \/ RecordGuard(c) \/ Transition(c) \/ SaveSnapshot(c) \/ Refuse(c)
               \/ Respond(c) \/ Scan(c) \/ Refetch(c) \/ StartTurn(c) \/ CheckPasses(c)
               \/ DetectBypass(c) \/ Bypass(c) \/ SaveReceipt(c) \/ Recover(c) \/ Credit(c)
        PROVE  Solo'
    <2>1. CASE \/ EmitConflict(c) \/ EmitDuplicate(c) \/ BeginGuard(c) \/ Unhandled(c) \/ GuardReturns(c)
               \/ SaveSnapshot(c) \/ Respond(c) \/ CheckPasses(c) \/ Scan(c) \/ Recover(c) \/ Credit(c)
      BY <1>2, <1>3, <2>1, SoloOwnSteps
    <2>2. CASE \/ Emit(c) \/ RecordGuard(c) \/ Transition(c) \/ Refuse(c) \/ Refetch(c) \/ StartTurn(c)
               \/ DetectBypass(c) \/ Bypass(c) \/ SaveReceipt(c)
      BY <1>2, <1>3, <2>2, SoloEventSteps
    <2> QED BY <1>5, <2>1, <2>2
  <1>6. CASE UNCHANGED vars
    BY <1>2, <1>6 DEF vars, Solo
  <1> QED BY <1>4, <1>5, <1>6 DEF Next

\* The engine of the only process counts as the ledger in every reachable state.
LEMMA SoloInvariance == Spec => []Solos
  <1>1. ASSUME Init PROVE Solos
    BY <1>1, ConstantsAssumption, SoloInit DEF Solos
  <1> QED BY <1>1, ConstantsAssumption, Invariance, SoloNext, PTL DEF Spec

\* EngineCountsAsLedger, with any keys, limits and crashes: an engine that missed nothing counts
\* the turns and the bypass that the ledger holds, restarts included.
THEOREM EnginesCount == Spec => []EngineCountsAsLedger
  <1>1. ASSUME Inv, Solos PROVE EngineCountsAsLedger
    <2> SUFFICES ASSUME Alone, NEW e \in {cached[p] : p \in {q \in Procs : cached[q] # 0}}
                 PROVE  /\ engines[e].bypassed <=> Of({"BYPASS_TRANSITION"}) # {}
                        /\ engines[e].turns = LedgerTurns
      BY DEF EngineCountsAsLedger
    <2>1. Counts(engines[e], log)
      BY <1>1 DEF Solos, Solo
    <2>2. Moved(log) <=> Of({"BYPASS_TRANSITION"}) # {}
      BY DEF Moved, Of
    <2>3. LedgerTurns = Cardinality(Open(log))
      BY <1>1, TurnsAreOpen
    <2> QED BY <2>1, <2>2, <2>3 DEF Counts
  <1> QED BY <1>1, Invariance, SoloInvariance, PTL

\* What a step may append, a bypass apart.
LEMMA AppendsOther ==
    ASSUME Inv, NEW c \in Calls,
           \/ Emit(c) \/ RecordGuard(c) \/ Transition(c) \/ Refuse(c) \/ Refetch(c) \/ StartTurn(c) \/ Bypass(c) \/ SaveReceipt(c)
    PROVE  \E e : log' = Append(log, e) /\ e.type # "BYPASS_DETECTED"
  BY DEF Emit, RecordGuard, Transition, Refuse, Refetch, StartTurn, Bypass, SaveReceipt, AppendOnly, Append1, Event, Delivery

\* BypassIsEarned, with any keys, limits and crashes: when one process serves the run, it is sent
\* to its bypass state only when the ledger and the credits hold more deliveries than the limit.
THEOREM BypassesEarned == Spec => BypassIsEarned
  <1> DEFINE Earned == Alone =>
        \A i \in DOMAIN log' : i > Len(log) /\ log'[i].type = "BYPASS_DETECTED"
           => LedgerTurns + Cardinality(OpenCredits) > MaxIdleTurns
  <1>1. ASSUME Inv, Solos, [Next]_vars PROVE [Earned]_vars
    <2> SUFFICES ASSUME Alone, NEW i \in DOMAIN log', i > Len(log), log'[i].type = "BYPASS_DETECTED"
                 PROVE  LedgerTurns + Cardinality(OpenCredits) > MaxIdleTurns
      OBVIOUS
    <2>1. log \in Seq(Events) /\ DOMAIN log = 1..Len(log) /\ Len(log) \in Nat
      BY <1>1 DEF Inv, Typed
    <2>2. log' # log
      BY <2>1
    <2>3. ASSUME NEW e, log' = Append(log, e), e.type # "BYPASS_DETECTED" PROVE FALSE
      <3>1. DOMAIN log' = 1..(Len(log) + 1) /\ log'[Len(log) + 1] = e
        BY <2>1, <2>3
      <3>2. i = Len(log) + 1
        BY <2>1, <3>1
      <3> QED BY <2>3, <3>1, <3>2
    <2>4. PICK c \in Calls : DetectBypass(c)
      <3>1. UNCHANGED log \/ \E c \in Calls :
              \/ Emit(c) \/ RecordGuard(c) \/ Transition(c) \/ Refuse(c) \/ Refetch(c) \/ StartTurn(c)
              \/ DetectBypass(c) \/ Bypass(c) \/ SaveReceipt(c)
        BY <1>1 DEF Next, vars, store, Fetch, Submit, Crash, EmitConflict, EmitDuplicate, BeginGuard, Unhandled, GuardReturns,
                    SaveSnapshot, Respond, Scan, CheckPasses, Recover, Credit
      <3> QED BY <1>1, <2>2, <2>3, <3>1, AppendsOther
    <2> DEFINE g == call[c].eng
    <2>5. call[c].pc # "idle" /\ g = cached[c[1]] /\ Idle(g)
      BY <1>1, <2>4 DEF DetectBypass, At, Solos, Solo
    <2>6. PICK p : servers = {p}
      <3>1. IsFiniteSet(servers)
        BY <1>1, ConstantsAssumption, FS_Subset DEF ConstantsAssumption, Inv, Typed
      <3> QED BY <3>1, FS_Singleton DEF Alone
    <2>7. Counts(engines[g], log)
      BY <1>1, <2>5, <2>6, SoloBasics DEF Solos
    <2>8. engines[g].turns = LedgerTurns
      BY <1>1, <2>7, TurnsAreOpen DEF Counts
    <2> QED BY <2>5, <2>8 DEF Idle
  <1> QED BY <1>1, Invariance, SoloInvariance, PTL DEF BypassIsEarned, Spec

-----------------------------------------------------------------------------
(* The window of the current view *)

\* What changes the view; the turns, refetches and other events since it last changed.
Shifts == EventTypes \ (Deliveries \cup Receipts)
Turned == {"AGENT_TURN_STARTED"}
Refetched == {"STATE_VIEW_REFETCHED"}
Since(l, types) == {i \in DOMAIN l : l[i].type \in types /\ \A j \in DOMAIN l : l[j].type \in Shifts => j < i}

\* One process serves the run: each death costs a turn that nobody checked, a refetch was within
\* its allowance when it was decided, and a submission that has its receipt to save saved none
\* since it changed the view itself.
Few ==
    /\ Cardinality(Since(log, Turned)) <= MaxIdleTurns + crashes + 1
    /\ Cardinality(Since(log, Turned)) > MaxIdleTurns + crashes => \E c \in Calls : call[c].pc = "checking"
    /\ Cardinality(Since(log, Refetched)) <= MaxRefetches + 1
    /\ Cardinality(Since(log, Receipts)) <= 1
    /\ \A c \in Calls : call[c].pc \in InHand /\ c[2] = "submission" => Since(log, Receipts) = {}
    /\ \A c \in Calls : call[c].pc = "receipt" => c[2] = "submission"
    /\ \A c \in Calls : call[c].pc = "delivering" /\ call[c].delivered <= MaxRefetches
                          => Cardinality(Since(log, Refetched)) <= call[c].delivered
    /\ crashes \in Nat

Fews == Alone => Few

\* What is since the view changed, when the ledger grows by one event.
LEMMA SinceGrown ==
    ASSUME NEW l \in Seq(Events), NEW e \in Events, NEW types, types \subseteq Deliveries \cup Receipts
    PROVE  /\ Since(l, types) \subseteq 1..Len(l)
           /\ e.type \in Shifts => Since(Append(l, e), types) = {}
           /\ e.type \notin Shifts /\ e.type \in types => Since(Append(l, e), types) = Since(l, types) \cup {Len(l) + 1}
           /\ e.type \notin Shifts /\ e.type \notin types => Since(Append(l, e), types) = Since(l, types)
  <1> DEFINE m == Append(l, e)
  <1>1. /\ DOMAIN m = 1..(Len(l) + 1) /\ DOMAIN l = 1..Len(l) /\ Len(l) \in Nat
        /\ \A i \in DOMAIN l : m[i] = l[i]
        /\ m[Len(l) + 1] = e
    BY Grown
  <1> HIDE DEF m
  <1>2. \A i \in DOMAIN m : i \in DOMAIN l \/ i = Len(l) + 1
    BY <1>1
  <1>3. (\A i \in DOMAIN l : i \in DOMAIN m /\ i < Len(l) + 1 /\ ~(Len(l) + 1 < i)) /\ Len(l) + 1 \in DOMAIN m /\ Len(l) + 1 \notin DOMAIN l
    BY <1>1
  <1>4. e.type \in Shifts => Since(m, types) = {}
    <2> SUFFICES ASSUME e.type \in Shifts, NEW i \in Since(m, types) PROVE FALSE
      OBVIOUS
    <2>1. i \in DOMAIN m /\ Len(l) + 1 < i
      BY <1>1, <1>3 DEF Since
    <2> QED BY <1>1, <2>1
  <1>5. ASSUME e.type \notin Shifts, NEW i \in DOMAIN l PROVE i \in Since(m, types) <=> i \in Since(l, types)
    BY <1>1, <1>2, <1>3, <1>5 DEF Since
  <1>6. e.type \notin Shifts => (Len(l) + 1 \in Since(m, types) <=> e.type \in types)
    BY <1>1, <1>2, <1>3 DEF Since
  <1>7. Since(m, types) \subseteq DOMAIN m /\ Since(l, types) \subseteq DOMAIN l
    BY DEF Since
  <1>8. e.type \notin Shifts /\ e.type \in types => Since(m, types) = Since(l, types) \cup {Len(l) + 1}
    BY <1>2, <1>3, <1>5, <1>6, <1>7
  <1>9. e.type \notin Shifts /\ e.type \notin types => Since(m, types) = Since(l, types)
    BY <1>2, <1>3, <1>5, <1>6, <1>7
  <1> QED BY <1>1, <1>4, <1>7, <1>8, <1>9 DEF m

\* Their number.
LEMMA SinceCounted ==
    ASSUME NEW l \in Seq(Events), NEW e \in Events, NEW types, types \subseteq Deliveries \cup Receipts
    PROVE  /\ Cardinality(Since(l, types)) \in Nat /\ IsFiniteSet(Since(l, types)) /\ (Since(l, types) = {} => Cardinality(Since(l, types)) = 0)
           /\ e.type \in Shifts => Since(Append(l, e), types) = {} /\ Cardinality(Since(Append(l, e), types)) = 0
           /\ e.type \notin Shifts /\ e.type \in types
                => Cardinality(Since(Append(l, e), types)) = Cardinality(Since(l, types)) + 1
           /\ e.type \notin Shifts /\ e.type \notin types => Since(Append(l, e), types) = Since(l, types)
  <1>1. Len(l) \in Nat /\ Len(l) + 1 \notin 1..Len(l)
    OBVIOUS
  <1>2. Since(l, types) \subseteq 1..Len(l)
    BY SinceGrown
  <1>3. IsFiniteSet(Since(l, types)) /\ Len(l) + 1 \notin Since(l, types)
    BY <1>1, <1>2, PositionsFinite
  <1>4. Cardinality(Since(l, types)) \in Nat /\ Cardinality(Since(l, types) \cup {Len(l) + 1}) = Cardinality(Since(l, types)) + 1
    BY <1>3, FS_CardinalityType, FS_AddElement
  <1> QED BY <1>3, <1>4, SinceGrown, FS_EmptySet

\* The kinds of events that leave the view as it is.
LEMMA KindsOfEvents ==
    /\ Turned \subseteq Deliveries \cup Receipts /\ Refetched \subseteq Deliveries \cup Receipts /\ Receipts \subseteq Deliveries \cup Receipts
    /\ \A t \in Turned : t \notin Shifts /\ t \notin Refetched /\ t \notin Receipts
    /\ \A t \in Refetched : t \notin Shifts /\ t \notin Turned /\ t \notin Receipts
    /\ \A t \in Receipts : t \notin Shifts /\ t \notin Turned /\ t \notin Refetched
    /\ {"SIGNAL_EMITTED", "GUARD_EVALUATED", "STATE_TRANSITION", "SIGNAL_REFUSED", "BYPASS_DETECTED", "BYPASS_TRANSITION",
        "SKILL_INITIALIZED"} \subseteq Shifts
    /\ Deliveries = Turned \cup Refetched
    /\ Resets \subseteq Shifts
  BY DEF Turned, Refetched, Receipts, Deliveries, Shifts, EventTypes, Resets

\* While one process serves the run, the turns of the view are among those the idle limit counts.
LEMMA TurnsSinceView ==
    ASSUME log \in Seq(Events)
    PROVE  Cardinality(Since(log, Turned)) <= Cardinality(Open(log))
  <1>1. Len(log) \in Nat /\ DOMAIN log = 1..Len(log)
    OBVIOUS
  <1>2. Open(log) \subseteq 1..Len(log)
    BY <1>1 DEF Open
  <1>3. Since(log, Turned) \subseteq Open(log)
    BY KindsOfEvents DEF Since, Open, Turned
  <1>4. IsFiniteSet(Open(log))
    BY <1>1, <1>2, PositionsFinite
  <1> QED BY <1>3, <1>4, FS_Subset

\* What a scan of the current view finds, past the window included, covers the refetches since.
LEMMA ScanCovers ==
    ASSUME ConstantsAssumption, Inv
    PROVE  DeliveredNow \in Nat /\ (DeliveredNow <= MaxRefetches => Cardinality(Since(log, Refetched)) <= DeliveredNow)
  <1> DEFINE D == {i \in Recent \cap Of(Deliveries) : i > ViewSeq}
             full == Recent \cap ViewChanges = {} /\ Len(log) > Window
             k == Cardinality(Credited(ViewSeq))
  <1>1. log \in Seq(Events) /\ DOMAIN log = 1..Len(log) /\ Len(log) \in Nat /\ Len(log) >= 1 /\ log[1].type = "SKILL_INITIALIZED"
    BY DEF Inv, Typed
  <1>2. Window \in Nat /\ MaxRefetches \in Nat
    BY DEF Window, ConstantsAssumption
  <1>3. k \in Nat
    <2>1. IsFiniteSet(credits)
      BY DEF Inv, Typed
    <2>2. Credited(ViewSeq) \subseteq credits
      BY DEF Credited
    <2> QED BY <2>1, <2>2, FS_Subset, FS_CardinalityType
  <1>4. DeliveredNow = k + (IF full THEN MaxRefetches + 1 ELSE Cardinality(D))
    BY DEF DeliveredNow
  <1>5. DeliveredNow \in Nat
    BY DeliveriesCounted
  <1>6. ASSUME ~full PROVE Cardinality(Since(log, Refetched)) <= Cardinality(D) /\ Cardinality(D) \in Nat
    <2> DEFINE S == Recent \cap ViewChanges
    <2>1. S # {}
      <3>1. CASE Len(log) <= Window
        <4>1. 1 \in Recent
          BY <1>1, <1>2, <3>1 DEF Recent
        <4>2. 1 \in ViewChanges
          BY <1>1 DEF ViewChanges, Of, EventTypes, Deliveries
        <4> QED BY <4>1, <4>2
      <3>2. CASE ~(Len(log) <= Window)
        BY <1>1, <1>2, <1>6, <3>2
      <3> QED BY <3>1, <3>2
    <2>2. ViewSeq = Max(S)
      BY <2>1 DEF ViewSeq
    <2>3. S \subseteq 0..Len(log) /\ S \subseteq DOMAIN log
      BY <1>1 DEF Recent
    <2>4. \A j \in S : log[j].type \in Shifts /\ j \in Recent
      BY DEF ViewChanges, Of, Shifts, Receipts
    <2> HIDE DEF S
    <2>5. ViewSeq \in S
      BY <1>1, <2>1, <2>2, <2>3, MaxFacts
    <2>6. ASSUME NEW i \in Since(log, Refetched) PROVE i \in D
      <3>1. i \in DOMAIN log /\ log[i].type \in Deliveries /\ ViewSeq < i
        BY <2>3, <2>4, <2>5, <2>6, KindsOfEvents DEF Since
      <3>2. i \in Recent
        <4>1. ViewSeq > Len(log) - Window /\ ViewSeq \in Nat /\ i \in Nat
          BY <1>1, <2>3, <2>4, <2>5, <3>1 DEF Recent
        <4>2. i > Len(log) - Window
          BY <1>1, <1>2, <3>1, <4>1
        <4> QED BY <3>1, <4>2 DEF Recent
      <3>3. i \in Of(Deliveries) /\ i > ViewSeq
        BY <1>1, <2>3, <2>5, <3>1 DEF Of
      <3> QED BY <3>2, <3>3
    <2>7. D \subseteq 1..Len(log)
      BY <1>1 DEF Recent
    <2> HIDE DEF D
    <2>8. IsFiniteSet(D) /\ Since(log, Refetched) \subseteq D
      BY <1>1, <2>6, <2>7, PositionsFinite
    <2> QED BY <2>8, FS_Subset, FS_CardinalityType
  <1> HIDE DEF k, full, D
  <1>7. Cardinality(Since(log, Refetched)) \in Nat
    BY <1>1, SinceCounted, KindsOfEvents
  <1> QED BY <1>2, <1>3, <1>4, <1>5, <1>6, <1>7

\* One call of the only process does something without writing an event.
LEMMA FewGoesOn ==
    ASSUME ConstantsAssumption, Inv, Few, NEW c \in Calls, NEW r \in CallRecords, call' = [call EXCEPT ![c] = r],
           UNCHANGED <<log, crashes>>,
           r.pc \in InHand /\ c[2] = "submission" => call[c].pc \in InHand,
           r.pc = "receipt" => c[2] = "submission",
           r.pc = "delivering" /\ r.delivered <= MaxRefetches => Cardinality(Since(log, Refetched)) <= r.delivered,
           call[c].pc = "checking" => Cardinality(Since(log, Turned)) <= MaxIdleTurns + crashes
    PROVE  Few'
  <1>1. \A d \in Calls : call'[d] = IF d = c THEN r ELSE call[d]
    BY DEF Inv, Typed
  <1>2. ASSUME Cardinality(Since(log, Turned)) > MaxIdleTurns + crashes PROVE \E d \in Calls : call'[d].pc = "checking"
    <2>1. PICK d \in Calls : call[d].pc = "checking"
      BY <1>2 DEF Few
    <2>2. log \in Seq(Events) /\ log[1] \in Events
      BY Basics
    <2>3. Cardinality(Since(log, Turned)) \in Nat /\ MaxIdleTurns \in Nat /\ crashes \in Nat
      BY <2>2, SinceCounted, KindsOfEvents DEF ConstantsAssumption, Few
    <2>4. d # c
      BY <1>2, <2>1, <2>3
    <2> QED BY <1>1, <2>1, <2>4
  <1>3. \A d \in Calls : call'[d].pc \in InHand /\ d[2] = "submission" => Since(log, Receipts) = {}
    BY <1>1 DEF Few
  <1>4. \A d \in Calls : call'[d].pc = "receipt" => d[2] = "submission"
    BY <1>1 DEF Few
  <1>5. \A d \in Calls : call'[d].pc = "delivering" /\ call'[d].delivered <= MaxRefetches
                           => Cardinality(Since(log, Refetched)) <= call'[d].delivered
    BY <1>1 DEF Few
  <1>6. /\ Cardinality(Since(log, Turned)) <= MaxIdleTurns + crashes + 1 /\ Cardinality(Since(log, Refetched)) <= MaxRefetches + 1
        /\ Cardinality(Since(log, Receipts)) <= 1 /\ crashes \in Nat
    BY DEF Few
  <1>7. log' = log /\ crashes' = crashes
    OBVIOUS
  <1> QED BY <1>2, <1>3, <1>4, <1>5, <1>6, <1>7, Zenon DEF Few

\* It changes the view: nothing is counted since.
LEMMA FewShifts ==
    ASSUME ConstantsAssumption, Inv, Few, NEW c \in Calls, NEW r \in CallRecords, call' = [call EXCEPT ![c] = r], UNCHANGED crashes,
           NEW e \in Events, log' = Append(log, e), e.type \in Shifts, r.pc # "receipt"
    PROVE  Few'
  <1>1. \A d \in Calls : call'[d] = IF d = c THEN r ELSE call[d]
    BY DEF Inv, Typed
  <1>2. log \in Seq(Events) /\ \A d \in Calls : call'[d] \in CallRecords
    BY <1>1 DEF Inv, Typed
  <1>3. /\ Cardinality(Since(log', Turned)) = 0 /\ Cardinality(Since(log', Refetched)) = 0
        /\ Cardinality(Since(log', Receipts)) = 0 /\ Since(log', Receipts) = {}
    BY <1>2, SinceCounted, KindsOfEvents
  <1>4. \A d \in Calls : call'[d].pc = "receipt" => d[2] = "submission"
    BY <1>1 DEF Few
  <1>5. \A d \in Calls : call'[d].delivered \in Nat
    BY <1>2 DEF CallRecords
  <1>6. MaxIdleTurns \in Nat /\ MaxRefetches \in Nat /\ crashes \in Nat /\ crashes' = crashes
    BY DEF ConstantsAssumption, Few
  <1>7. Cardinality(Since(log', Turned)) <= MaxIdleTurns + crashes' + 1 /\ ~(Cardinality(Since(log', Turned)) > MaxIdleTurns + crashes')
    BY <1>3, <1>6
  <1>8. Cardinality(Since(log', Refetched)) <= MaxRefetches + 1 /\ Cardinality(Since(log', Receipts)) <= 1
    BY <1>3, <1>6
  <1>9. \A d \in Calls : Cardinality(Since(log', Refetched)) <= call'[d].delivered
    BY <1>3, <1>5
  <1> QED BY <1>3, <1>4, <1>6, <1>7, <1>8, <1>9, Zenon DEF Few

\* The other calls of the only process wait, at most for a guard.
LEMMA OthersWait ==
    ASSUME Solo, NEW p, servers = {p}, NEW c \in Calls, call[c].pc # "idle", Runs(c), NEW d \in Calls, d # c
    PROVE  call[d].pc \in {"idle", "resuming", "guard"} /\ (d[2] = c[2] => call[d].pc = "idle")
  <1>1. c[1] = p
    BY DEF Solo
  <1>2. CASE call[d].pc = "idle"
    BY <1>2
  <1>3. CASE call[d].pc # "idle"
    <2>1. d[1] = c[1]
      BY <1>1, <1>3 DEF Solo
    <2>2. Waiting(d)
      BY <2>1 DEF Runs
    <2>3. d[2] # c[2]
      BY <2>1 DEF Calls
    <2> QED BY <2>2, <2>3 DEF Waiting
  <1> QED BY <1>2, <1>3

\* It starts a turn that nobody checked yet.
LEMMA FewStartsTurn ==
    ASSUME ConstantsAssumption, Inv, Solo, Few, NEW p, servers = {p}, NEW c \in Calls, StartTurn(c)
    PROVE  Few'
  <1> DEFINE g == call[c].eng
             m == engines[g].turns + 1
             e == Delivery("AGENT_TURN_STARTED", c, m)
  <1>1. /\ call[c].pc = "delivering" /\ Runs(c) /\ Append1(g, e, m, FALSE) /\ Goto(c, "checking") /\ crashes' = crashes
    BY DEF StartTurn, At, bounds
  <1>2. log \in Seq(Events) /\ g \in 1..Len(engines) /\ engines[g] \in Engines(Len(log))
    BY <1>1, SoloBasics
  <1>3. m \in Nat
    BY <1>2 DEF Engines
  <1> HIDE DEF m
  <1>4. e \in Events /\ e.type = "AGENT_TURN_STARTED"
    BY <1>1, <1>3, DeliveryTyped DEF Deliveries
  <1> HIDE DEF e, g
  <1>5. log' = Append(log, e)
    BY <1>1 DEF Append1
  <1>6. PICK r \in CallRecords : r.pc = "checking" /\ call' = [call EXCEPT ![c] = r]
    BY <1>1, GoneTo DEF Pcs
  <1>7. \A d \in Calls : call'[d] = IF d = c THEN r ELSE call[d]
    BY <1>6 DEF Inv, Typed
  <1>8. \A d \in Calls : d # c => call[d].pc \notin {"checking", "delivering", "receipt"}
    BY <1>1, OthersWait
  <1>9. ~\E d \in Calls : call[d].pc = "checking"
    BY <1>1, <1>8
  <1>10. Cardinality(Since(log, Turned)) \in Nat /\ Cardinality(Since(log', Turned)) = Cardinality(Since(log, Turned)) + 1
    BY <1>2, <1>4, <1>5, SinceCounted, KindsOfEvents DEF Turned
  <1>11. Since(log', Refetched) = Since(log, Refetched) /\ Since(log', Receipts) = Since(log, Receipts)
    BY <1>2, <1>4, <1>5, SinceCounted, KindsOfEvents DEF Turned
  <1>12. MaxIdleTurns \in Nat /\ crashes \in Nat
    BY DEF ConstantsAssumption, Few
  <1>13. Cardinality(Since(log', Turned)) <= MaxIdleTurns + crashes' + 1
    <2>1. ~(Cardinality(Since(log, Turned)) > MaxIdleTurns + crashes)
      BY <1>9 DEF Few
    <2> QED BY <1>1, <1>10, <1>12, <2>1
  <1>14. \E d \in Calls : call'[d].pc = "checking"
    BY <1>6, <1>7
  <1>15. \A d \in Calls : call'[d].pc \in InHand /\ d[2] = "submission" => Since(log', Receipts) = {}
    BY <1>1, <1>7, <1>11 DEF Few, InHand
  <1>16. \A d \in Calls : call'[d].pc \notin {"receipt", "delivering"}
    BY <1>6, <1>7, <1>8
  <1>17. Cardinality(Since(log', Refetched)) <= MaxRefetches + 1 /\ Cardinality(Since(log', Receipts)) <= 1 /\ crashes' \in Nat
    BY <1>1, <1>11 DEF Few
  <1> QED BY <1>13, <1>14, <1>15, <1>16, <1>17, Zenon DEF Few

\* It refetches the view, within the allowance that its scan left.
LEMMA FewRefetches ==
    ASSUME ConstantsAssumption, Inv, Solo, Few, NEW p, servers = {p}, NEW c \in Calls, Refetch(c)
    PROVE  Few'
  <1> DEFINE g == call[c].eng
             m == 0
             e == Delivery("STATE_VIEW_REFETCHED", c, m)
  <1>1. /\ call[c].pc = "delivering" /\ Runs(c) /\ crashes' = crashes /\ call[c].delivered \in 1..MaxRefetches
        /\ End(c) \/ (Goto(c, "receipt") /\ c[2] # "fetch")
    BY DEF Refetch, Refetches, Delivered, At, bounds
  <1>2. log \in Seq(Events) /\ call[c] \in CallRecords
    BY <1>1, SoloBasics
  <1>3. log' = Append(log, e)
    BY DEF Refetch, AppendOnly, Append1
  <1>4. e \in Events /\ e.type = "STATE_VIEW_REFETCHED"
    BY <1>1, DeliveryTyped DEF Deliveries
  <1> HIDE DEF e, g
  <1>5. PICK r \in CallRecords : call' = [call EXCEPT ![c] = r] /\ (r.pc = "idle" \/ (r.pc = "receipt" /\ c[2] # "fetch"))
    <2>1. CASE End(c)
      BY <2>1, NoCallTyped DEF End
    <2>2. CASE Goto(c, "receipt") /\ c[2] # "fetch"
      BY <2>2, GoneTo DEF Pcs
    <2> QED BY <1>1, <2>1, <2>2
  <1>6. \A d \in Calls : call'[d] = IF d = c THEN r ELSE call[d]
    BY <1>5 DEF Inv, Typed
  <1>7. \A d \in Calls : d # c => call[d].pc \notin {"checking", "delivering", "receipt"}
    BY <1>1, OthersWait
  <1>8. Cardinality(Since(log, Refetched)) \in Nat /\ Cardinality(Since(log', Refetched)) = Cardinality(Since(log, Refetched)) + 1
    BY <1>2, <1>3, <1>4, SinceCounted, KindsOfEvents DEF Refetched
  <1>9. Since(log', Turned) = Since(log, Turned) /\ Since(log', Receipts) = Since(log, Receipts)
    BY <1>2, <1>3, <1>4, SinceCounted, KindsOfEvents DEF Refetched
  <1>10. Cardinality(Since(log', Refetched)) <= MaxRefetches + 1
    <2>1. call[c].delivered <= MaxRefetches /\ call[c].delivered \in Nat /\ MaxRefetches \in Nat
      BY <1>1 DEF ConstantsAssumption
    <2>2. Cardinality(Since(log, Refetched)) <= call[c].delivered
      BY <1>1, <2>1 DEF Few
    <2> QED BY <1>8, <2>1, <2>2
  <1>11. \A d \in Calls : call[d].pc # "checking" /\ call'[d].pc \notin {"checking", "delivering"}
    BY <1>1, <1>5, <1>6, <1>7
  <1>12. ~(Cardinality(Since(log', Turned)) > MaxIdleTurns + crashes')
    BY <1>1, <1>9, <1>11 DEF Few
  <1>13. \A d \in Calls : call'[d].pc = "receipt" => d[2] = "submission"
    BY <1>5, <1>6, <1>7 DEF Calls
  <1>14. \A d \in Calls : call'[d].pc \in InHand /\ d[2] = "submission" => Since(log', Receipts) = {}
    BY <1>1, <1>5, <1>6, <1>9 DEF Few, InHand
  <1>15. Cardinality(Since(log', Turned)) <= MaxIdleTurns + crashes' + 1 /\ Cardinality(Since(log', Receipts)) <= 1 /\ crashes' \in Nat
    BY <1>1, <1>9 DEF Few
  <1> QED BY <1>10, <1>11, <1>12, <1>13, <1>14, <1>15, Zenon DEF Few

\* It saves its receipt, the first since it changed the view.
LEMMA FewSavesReceipt ==
    ASSUME ConstantsAssumption, Inv, Solo, Few, NEW p, servers = {p}, NEW c \in Calls, SaveReceipt(c)
    PROVE  Few'
  <1> DEFINE v == ViewSeq
             e == Event("MCP_CONTINUATION_RECORDED", call[c].key, v)
  <1>1. call[c].pc = "receipt" /\ Runs(c) /\ crashes' = crashes /\ call' = [call EXCEPT ![c] = NoCall]
    BY DEF SaveReceipt, At, bounds, End
  <1>2. log \in Seq(Events) /\ call[c] \in CallRecords /\ call[c].key \in Keys \cup {NoKey} /\ Len(log) \in Nat
    BY <1>1, SoloBasics DEF CallRecords
  <1>3. log' = Append(log, e)
    BY DEF SaveReceipt, AppendOnly, Append1
  <1>4. v \in Nat
    BY <1>2, ViewIsPosition
  <1> HIDE DEF v
  <1>5. e \in Events /\ e.type = "MCP_CONTINUATION_RECORDED"
    BY <1>2, <1>4, EventTyped DEF EventTypes
  <1> HIDE DEF e
  <1>6. \A d \in Calls : call'[d] = IF d = c THEN NoCall ELSE call[d]
    BY <1>1 DEF Inv, Typed
  <1>7. c[2] = "submission" /\ Since(log, Receipts) = {}
    BY <1>1 DEF Few, InHand
  <1>8. \A d \in Calls : d # c => call[d].pc \in {"idle", "resuming", "guard"} /\ (d[2] = "submission" => call[d].pc = "idle")
    BY <1>1, <1>7, OthersWait
  <1>9. NoCall.pc = "idle"
    BY NoCallTyped
  <1>10. Cardinality(Since(log', Receipts)) = 1
    <2>1. Cardinality(Since(log, Receipts)) = 0 /\ Cardinality(Since(log', Receipts)) = Cardinality(Since(log, Receipts)) + 1
      BY <1>2, <1>3, <1>5, <1>7, SinceCounted, KindsOfEvents DEF Receipts
    <2> QED BY <2>1
  <1>11. Since(log', Turned) = Since(log, Turned) /\ Since(log', Refetched) = Since(log, Refetched)
    BY <1>2, <1>3, <1>5, SinceCounted, KindsOfEvents DEF Receipts
  <1>12. \A d \in Calls : call'[d].pc \in {"idle", "resuming", "guard"} /\ (d[2] = "submission" => call'[d].pc = "idle")
    BY <1>6, <1>8, <1>9
  <1>13. ~\E d \in Calls : call[d].pc = "checking"
    BY <1>1, <1>8
  <1>14. \A d \in Calls : call'[d].pc \notin {"receipt", "delivering"} /\ ~(call'[d].pc \in InHand /\ d[2] = "submission")
    BY <1>12 DEF InHand
  <1>15. ~(Cardinality(Since(log', Turned)) > MaxIdleTurns + crashes')
    BY <1>1, <1>11, <1>13 DEF Few
  <1>16. /\ Cardinality(Since(log', Turned)) <= MaxIdleTurns + crashes' + 1 /\ Cardinality(Since(log', Refetched)) <= MaxRefetches + 1
         /\ crashes' \in Nat
    BY <1>1, <1>11 DEF Few
  <1>17. Cardinality(Since(log', Receipts)) <= 1
    BY <1>10
  <1> QED BY <1>14, <1>15, <1>16, <1>17, Zenon DEF Few

\* The steps that write no event.
LEMMA FewOwnSteps ==
    ASSUME ConstantsAssumption, Inv, Solo, Few, NEW p, servers = {p}, NEW c \in Calls,
           \/ EmitConflict(c) \/ EmitDuplicate(c) \/ BeginGuard(c) \/ Unhandled(c) \/ GuardReturns(c)
           \/ SaveSnapshot(c) \/ Respond(c) \/ CheckPasses(c) \/ Scan(c) \/ Recover(c) \/ Credit(c)
    PROVE  Few'
  <1> DEFINE q == call[c]
             g == q.eng
  <1>1. q.pc # "idle" /\ Runs(c) /\ UNCHANGED <<log, crashes>>
    BY DEF EmitConflict, EmitDuplicate, BeginGuard, Unhandled, GuardReturns, SaveSnapshot, Respond, CheckPasses, Scan,
           Recover, Credit, At, store, bounds
  <1>2. /\ g \in 1..Len(engines) /\ engines[g] \in Engines(Len(log)) /\ Counts(engines[g], log)
        /\ log \in Seq(Events) /\ Len(log) \in Nat /\ Len(log) >= 1 /\ q \in CallRecords
    BY <1>1, SoloBasics
  <1>3. ASSUME q.pc # "checking" \/ Cardinality(Since(log, Turned)) <= MaxIdleTurns + crashes,
               NEW r \in CallRecords, call' = [call EXCEPT ![c] = r], r.pc \notin {"receipt", "delivering"},
               r.pc \in InHand => q.pc \in InHand
        PROVE  Few'
    BY <1>1, <1>3, FewGoesOn
  <1>4. ASSUME End(c), q.pc # "checking" \/ Cardinality(Since(log, Turned)) <= MaxIdleTurns + crashes PROVE Few'
    <2>1. call' = [call EXCEPT ![c] = NoCall] /\ NoCall \in CallRecords /\ NoCall.pc = "idle"
      BY <1>4, NoCallTyped DEF End
    <2> QED BY <1>3, <1>4, <2>1 DEF InHand
  <1>5. ASSUME NEW pc \in Pcs \ {"receipt", "delivering"}, Goto(c, pc), q.pc # "checking", pc \in InHand => q.pc \in InHand
        PROVE  Few'
    <2>1. PICK r \in CallRecords : r.pc = pc /\ call' = [call EXCEPT ![c] = r]
      BY <1>5, GoneTo
    <2> QED BY <1>3, <1>5, <2>1
  <1>6. ASSUME Delivered(c), q.pc # "checking" \/ Cardinality(Since(log, Turned)) <= MaxIdleTurns + crashes,
               q.pc \in InHand \/ c[2] = "fetch"
        PROVE  Few'
    <2>1. CASE End(c)
      BY <1>4, <1>6, <2>1
    <2>2. CASE Goto(c, "receipt") /\ c[2] # "fetch"
      <3>1. PICK r \in CallRecords : r.pc = "receipt" /\ call' = [call EXCEPT ![c] = r]
        BY <2>2, GoneTo DEF Pcs
      <3>2. c[2] = "submission" /\ q.pc \in InHand
        BY <1>6, <2>2 DEF Calls
      <3> QED BY <1>1, <1>6, <3>1, <3>2, FewGoesOn
    <2> QED BY <1>6, <2>1, <2>2 DEF Delivered
  <1>7. CASE EmitConflict(c) \/ EmitDuplicate(c) \/ BeginGuard(c) \/ Unhandled(c) \/ GuardReturns(c)
    <2>1. CASE EmitConflict(c)
      BY <1>4, <2>1 DEF EmitConflict, At
    <2>2. CASE EmitDuplicate(c)
      <3>1. Goto(c, "recovering") /\ q.pc = "emitting"
        BY <2>2 DEF EmitDuplicate, At
      <3> QED BY <1>5, <3>1 DEF Pcs, InHand
    <2>3. CASE BeginGuard(c)
      <3> DEFINE n == Len(log)
                 r == [q EXCEPT !.pc = "guard", !.version = n]
      <3>1. call' = [call EXCEPT ![c] = r] /\ q.pc = "routing"
        BY <2>3 DEF BeginGuard, At
      <3>2. "guard" \in Pcs /\ n \in Nat
        BY <1>2 DEF Pcs
      <3> HIDE DEF n
      <3>3. r \in CallRecords
        BY <1>2, <3>2, Zenon DEF CallRecords
      <3>4. r.pc = "guard"
        BY <1>2 DEF CallRecords
      <3> HIDE DEF r
      <3> QED BY <1>3, <3>1, <3>3, <3>4 DEF InHand
    <2>4. CASE Unhandled(c)
      <3>1. Goto(c, "responding") /\ q.pc = "routing"
        BY <2>4 DEF Unhandled, At
      <3> QED BY <1>5, <3>1 DEF Pcs, InHand
    <2>5. CASE GuardReturns(c)
      <3>1. q.pc = "guard" /\ (End(c) \/ Goto(c, "answered"))
        BY <2>5 DEF GuardReturns, At
      <3> QED BY <1>4, <1>5, <3>1 DEF Pcs, InHand
    <2> QED BY <1>7, <2>1, <2>2, <2>3, <2>4, <2>5
  <1>8. CASE SaveSnapshot(c)
    <2>1. Goto(c, "responding") /\ q.pc = "moved"
      BY <1>8 DEF SaveSnapshot, At
    <2> QED BY <1>5, <2>1 DEF Pcs, InHand
  <1>9. CASE Respond(c)
    <2>1. q.pc = "responding" /\ (End(c) \/ Goto(c, "scanning"))
      BY <1>9 DEF Respond, At
    <2> QED BY <1>4, <1>5, <2>1 DEF Pcs, InHand
  <1>10. CASE CheckPasses(c)
    <2>1. Delivered(c) /\ q.pc = "checking" /\ ~Idle(g)
      BY <1>10 DEF CheckPasses, At
    <2>2. Cardinality(OpenCredits) \in Nat
      <3>1. IsFiniteSet(credits) /\ OpenCredits \subseteq credits
        BY DEF Inv, Typed, OpenCredits
      <3> QED BY <3>1, FS_Subset, FS_CardinalityType
    <2>3. engines[g].turns = Cardinality(Open(log)) /\ engines[g].turns \in Nat
      BY <1>2 DEF Counts, Engines
    <2>4. Cardinality(Since(log, Turned)) <= Cardinality(Open(log)) /\ Cardinality(Since(log, Turned)) \in Nat
      <3>1. log[1] \in Events
        BY <1>2
      <3> QED BY <1>2, <3>1, TurnsSinceView, SinceCounted, KindsOfEvents
    <2>5. MaxIdleTurns \in Nat /\ crashes \in Nat
      BY DEF ConstantsAssumption, Few
    <2>6. engines[g].turns + Cardinality(OpenCredits) <= MaxIdleTurns
      BY <2>1, <2>2, <2>3, <2>5 DEF Idle
    <2> HIDE DEF g, q
    <2>7. Cardinality(Since(log, Turned)) <= MaxIdleTurns + crashes
      BY <2>2, <2>3, <2>4, <2>5, <2>6
    <2> QED BY <1>6, <2>1, <2>7 DEF InHand
  <1>11. CASE Scan(c)
    <2> DEFINE v == ViewSeq
               n == DeliveredNow
               b == \E x \in Credited(v) : x.key = q.key
               r == [q EXCEPT !.pc = "delivering", !.view = v, !.delivered = n, !.promotes = b]
    <2>1. q.pc \in {"scanning", "resuming"}
      BY <1>11 DEF Scan, At
    <2>2. q.pc \in InHand \/ c[2] = "fetch"
      <3>1. Hand(c, q, log, credits)
        BY Basics
      <3> QED BY <2>1, <3>1 DEF Hand, InHand
    <2>3. CASE Delivered(c)
      BY <1>6, <2>1, <2>2, <2>3
    <2>4. CASE call' = [call EXCEPT ![c] = r]
      <3>1. v \in 1..Len(log) /\ n \in Nat /\ (n <= MaxRefetches => Cardinality(Since(log, Refetched)) <= n)
        BY ViewIsPosition, ScanCovers
      <3>2. b \in BOOLEAN /\ "delivering" \in Pcs /\ v \in Nat
        BY <1>2, <3>1 DEF Pcs
      <3> HIDE DEF v, n, b
      <3>3. r \in CallRecords
        BY <1>2, <3>1, <3>2, Zenon DEF CallRecords
      <3>4. r.pc = "delivering" /\ r.delivered = n
        BY <1>2 DEF CallRecords
      <3> HIDE DEF r
      <3>5. c[2] = "submission" => q.pc \in InHand
        BY <2>2
      <3> QED BY <1>1, <2>1, <2>4, <3>1, <3>3, <3>4, <3>5, FewGoesOn
    <2> QED BY <1>11, <2>3, <2>4 DEF Scan
  <1>12. CASE Recover(c)
    <2> DEFINE v == ViewSeq
               r == [q EXCEPT !.pc = "crediting", !.view = v]
    <2>1. q.pc = "recovering" /\ (End(c) \/ call' = [call EXCEPT ![c] = r])
      BY <1>12 DEF Recover, At
    <2>2. v \in 1..Len(log)
      BY ViewIsPosition
    <2>3. "crediting" \in Pcs /\ v \in Nat
      BY <1>2, <2>2 DEF Pcs
    <2> HIDE DEF v
    <2>4. r \in CallRecords
      BY <1>2, <2>3, Zenon DEF CallRecords
    <2>5. r.pc = "crediting"
      BY <1>2 DEF CallRecords
    <2> HIDE DEF r
    <2> QED BY <1>3, <1>4, <2>1, <2>4, <2>5 DEF InHand
  <1>13. CASE Credit(c)
    BY <1>4, <1>13 DEF Credit, At
  <1> QED BY <1>7, <1>8, <1>9, <1>10, <1>11, <1>12, <1>13

\* The steps that write an event and change the view.
LEMMA FewViewSteps ==
    ASSUME ConstantsAssumption, Inv, Few, NEW c \in Calls,
           Emit(c) \/ RecordGuard(c) \/ Transition(c) \/ Refuse(c) \/ DetectBypass(c) \/ Bypass(c)
    PROVE  Few'
  <1>1. call[c] \in CallRecords /\ crashes' = crashes
    BY Basics DEF Emit, RecordGuard, Transition, Refuse, DetectBypass, Bypass, bounds
  <1>2. ASSUME NEW k \in Keys \cup {NoKey},
               NEW t \in {"SIGNAL_EMITTED", "GUARD_EVALUATED", "STATE_TRANSITION", "SIGNAL_REFUSED", "BYPASS_DETECTED", "BYPASS_TRANSITION"},
               log' = Append(log, Event(t, k, 0)),
               End(c) \/ \E pc \in Pcs \ {"receipt"} : Goto(c, pc)
        PROVE  Few'
    <2> DEFINE e == Event(t, k, 0)
    <2>1. e \in Events /\ e.type = t
      BY EventTyped DEF EventTypes, Resets
    <2>2. t \in Shifts
      BY KindsOfEvents
    <2>3. PICK r \in CallRecords : call' = [call EXCEPT ![c] = r] /\ r.pc # "receipt"
      <3>1. CASE End(c)
        BY <3>1, NoCallTyped DEF End
      <3>2. CASE \E pc \in Pcs \ {"receipt"} : Goto(c, pc)
        BY <3>2, GoneTo
      <3> QED BY <1>2, <3>1, <3>2
    <2>4. log' = Append(log, e)
      BY <1>2
    <2> HIDE DEF e
    <2> QED BY <1>1, <2>1, <2>2, <2>3, <2>4, FewShifts
  <1>3. NoKey \in Keys \cup {NoKey} /\ call[c].key \in Keys \cup {NoKey}
    BY <1>1 DEF CallRecords
  <1>4. {"routing", "accepted", "refused", "moved", "responding", "bypassing"} \subseteq Pcs \ {"receipt"}
    BY DEF Pcs
  <1>5. CASE Emit(c)
    <2>1. log' = Append(log, Event("SIGNAL_EMITTED", call[c].key, 0)) /\ Goto(c, "routing")
      BY <1>5 DEF Emit, Append1
    <2> QED BY <1>2, <1>3, <1>4, <2>1
  <1>6. CASE RecordGuard(c)
    <2>1. log' = Append(log, Event("GUARD_EVALUATED", NoKey, 0)) /\ \E o \in Meets \ {"unhandled"} : Goto(c, o)
      BY <1>6 DEF RecordGuard, AppendOnly, Append1
    <2>2. \E pc \in Pcs \ {"receipt"} : Goto(c, pc)
      BY <1>4, <2>1, MeetsKnown
    <2> QED BY <1>2, <1>3, <2>1, <2>2
  <1>7. CASE Transition(c)
    <2>1. log' = Append(log, Event("STATE_TRANSITION", NoKey, 0)) /\ Goto(c, "moved")
      BY <1>7 DEF Transition, AppendOnly, Append1
    <2> QED BY <1>2, <1>3, <1>4, <2>1
  <1>8. CASE Refuse(c)
    <2>1. log' = Append(log, Event("SIGNAL_REFUSED", NoKey, 0)) /\ Goto(c, "responding")
      BY <1>8 DEF Refuse, AppendOnly, Append1
    <2> QED BY <1>2, <1>3, <1>4, <2>1
  <1>9. CASE DetectBypass(c)
    <2>1. log' = Append(log, Event("BYPASS_DETECTED", NoKey, 0)) /\ Goto(c, "bypassing")
      BY <1>9 DEF DetectBypass, AppendOnly, Append1
    <2> QED BY <1>2, <1>3, <1>4, <2>1
  <1>10. CASE Bypass(c)
    <2>1. log' = Append(log, Event("BYPASS_TRANSITION", NoKey, 0)) /\ End(c)
      BY <1>10 DEF Bypass, Append1
    <2> QED BY <1>2, <1>3, <2>1
  <1> QED BY <1>5, <1>6, <1>7, <1>8, <1>9, <1>10

\* A call begins.
LEMMA FewBegins ==
    ASSUME ConstantsAssumption, Inv, Few, NEW p \in Procs, Fetch(p) \/ \E k \in Keys : Submit(p, k)
    PROVE  Few'
  <1>1. call \in [Calls -> CallRecords] /\ Len(engines) \in Nat /\ UNCHANGED <<log, crashes>>
    <2>1. call \in [Calls -> CallRecords] /\ engines \in Seq(Engines(Len(log)))
      BY DEF Inv, Typed
    <2>2. UNCHANGED <<log, crashes>>
      BY DEF Fetch, Submit, store
    <2> QED BY <2>1, <2>2
  <1>2. ASSUME NEW c \in Calls, call[c].pc = "idle", NEW r \in CallRecords, call' = [call EXCEPT ![c] = r],
               r.pc \in {"idle", "resuming", "emitting", "recovering"}
        PROVE  Few'
    BY <1>1, <1>2, FewGoesOn DEF InHand
  <1>3. CASE Fetch(p)
    <2> DEFINE c == <<p, "fetch">>
    <2>1. c \in Calls /\ call[c].pc = "idle"
      BY <1>3 DEF Fetch, At, Calls
    <2>2. PICK e \in 1..(Len(engines) + 1) :
            IF engines'[e].bypassed THEN UNCHANGED call
               ELSE call' = [call EXCEPT ![c] = [NoCall EXCEPT !.pc = "resuming", !.eng = e]]
      BY <1>3 DEF Fetch
    <2> HIDE DEF c
    <2>3. CASE UNCHANGED call
      <3>1. call' = [call EXCEPT ![c] = call[c]] /\ call[c] \in CallRecords
        BY <1>1, <2>1, <2>3
      <3> QED BY <1>2, <2>1, <3>1
    <2>4. CASE call' = [call EXCEPT ![c] = [NoCall EXCEPT !.pc = "resuming", !.eng = e]]
      <3> DEFINE r == [NoCall EXCEPT !.pc = "resuming", !.eng = e]
      <3>1. e \in Nat /\ "resuming" \in Pcs
        BY <1>1 DEF Pcs
      <3>3. call' = [call EXCEPT ![c] = r] /\ r = [NoCall EXCEPT !.pc = "resuming", !.eng = e]
        BY <2>4
      <3> HIDE DEF r
      <3>2. r = [pc |-> "resuming", eng |-> e, key |-> NoKey, view |-> 0, delivered |-> 0, promotes |-> FALSE, version |-> 0]
        BY <3>3 DEF NoCall
      <3>4. r \in CallRecords /\ r.pc = "resuming"
        BY <3>1, <3>2 DEF CallRecords
      <3> QED BY <1>2, <2>1, <3>3, <3>4
    <2> QED BY <2>2, <2>3, <2>4
  <1>4. ASSUME NEW k \in Keys, Submit(p, k) PROVE Few'
    <2> DEFINE c == <<p, "submission">>
               where == IF Keyed({"SIGNAL_EMITTED"}, k) = {} THEN "emitting" ELSE "recovering"
    <2>1. c \in Calls /\ call[c].pc = "idle"
      BY <1>4 DEF Submit, At, Calls
    <2>2. PICK e \in 1..(Len(engines) + 1) : call' = [call EXCEPT ![c] = [NoCall EXCEPT !.eng = e, !.key = k, !.pc = where]]
      BY <1>4 DEF Submit
    <2> DEFINE r == [NoCall EXCEPT !.eng = e, !.key = k, !.pc = where]
    <2>3. where \in {"emitting", "recovering"}
      OBVIOUS
    <2>4. call' = [call EXCEPT ![c] = r] /\ r = [NoCall EXCEPT !.eng = e, !.key = k, !.pc = where]
      BY <2>2
    <2> HIDE DEF c, r, where
    <2>5. r = [pc |-> where, eng |-> e, key |-> k, view |-> 0, delivered |-> 0, promotes |-> FALSE, version |-> 0]
      BY <2>4 DEF NoCall
    <2>6. e \in Nat /\ where \in Pcs
      BY <1>1, <2>3 DEF Pcs
    <2>7. r \in CallRecords /\ r.pc = where
      BY <2>5, <2>6 DEF CallRecords
    <2> QED BY <1>2, <2>1, <2>3, <2>4, <2>7
  <1> QED BY <1>3, <1>4

\* The process dies: the turn it may not have checked is the one that its death costs.
LEMMA FewCrash ==
    ASSUME ConstantsAssumption, Inv, Few, NEW p, Crash(p)
    PROVE  Few'
  <1>1. log' = log /\ crashes' = crashes + 1 /\ call' = [d \in Calls |-> IF d[1] = p THEN NoCall ELSE call[d]]
    BY DEF Crash, store
  <1>2. \A d \in Calls : call'[d] = NoCall \/ call'[d] = call[d]
    BY <1>1
  <1>3. NoCall.pc = "idle"
    BY NoCallTyped
  <1>4. MaxIdleTurns \in Nat /\ crashes \in Nat /\ log \in Seq(Events) /\ Len(log) >= 1
    BY DEF ConstantsAssumption, Few, Inv, Typed
  <1>5. log[1] \in Events
    BY <1>4
  <1>6. Cardinality(Since(log, Turned)) \in Nat
    BY <1>4, <1>5, SinceCounted, KindsOfEvents
  <1>7. Cardinality(Since(log, Turned)) <= MaxIdleTurns + crashes + 1
    BY DEF Few
  <1>8. /\ Cardinality(Since(log', Turned)) <= MaxIdleTurns + crashes' + 1
        /\ ~(Cardinality(Since(log', Turned)) > MaxIdleTurns + crashes') /\ crashes' \in Nat
    BY <1>1, <1>4, <1>6, <1>7
  <1>9. \A d \in Calls : call'[d].pc \in InHand /\ d[2] = "submission" => Since(log', Receipts) = {}
    BY <1>1, <1>2, <1>3 DEF Few, InHand
  <1>10. \A d \in Calls : /\ call'[d].pc = "receipt" => d[2] = "submission"
                          /\ call'[d].pc = "delivering" /\ call'[d].delivered <= MaxRefetches
                               => Cardinality(Since(log', Refetched)) <= call'[d].delivered
    BY <1>1, <1>2, <1>3 DEF Few
  <1>11. Cardinality(Since(log', Refetched)) <= MaxRefetches + 1 /\ Cardinality(Since(log', Receipts)) <= 1
    BY <1>1 DEF Few
  <1> QED BY <1>8, <1>9, <1>10, <1>11, Zenon DEF Few

\* It has begun.
LEMMA FewInit == ASSUME ConstantsAssumption, Init PROVE Few
  <1>1. /\ log \in Seq(Events) /\ DOMAIN log = 1..1 /\ log[1].type = "SKILL_INITIALIZED" /\ log[1] \in Events
        /\ crashes = 0 /\ \A c \in Calls : call[c] = NoCall
    <2>1. Event("SKILL_INITIALIZED", NoKey, 0) \in Events /\ Event("SKILL_INITIALIZED", NoKey, 0).type = "SKILL_INITIALIZED"
      BY EventTyped DEF EventTypes
    <2> QED BY <2>1 DEF Init
  <1>2. \A types \in {Turned, Refetched, Receipts} : Since(log, types) = {}
    <2>1. \A types \in {Turned, Refetched, Receipts} : "SKILL_INITIALIZED" \notin types
      BY DEF Turned, Refetched, Receipts
    <2> QED BY <1>1, <2>1 DEF Since
  <1>3. \A types \in {Turned, Refetched, Receipts} : Cardinality(Since(log, types)) = 0
    BY <1>2, FS_EmptySet
  <1>4. \A c \in Calls : call[c].pc = "idle"
    BY <1>1, NoCallTyped
  <1>5. \A c \in Calls : call[c].pc \notin InHand /\ call[c].pc \notin {"receipt", "delivering"}
    BY <1>4 DEF InHand
  <1>6. MaxIdleTurns \in Nat /\ MaxRefetches \in Nat /\ crashes = 0
    BY <1>1 DEF ConstantsAssumption
  <1>7. /\ Cardinality(Since(log, Turned)) <= MaxIdleTurns + crashes + 1 /\ ~(Cardinality(Since(log, Turned)) > MaxIdleTurns + crashes)
        /\ Cardinality(Since(log, Refetched)) <= MaxRefetches + 1 /\ Cardinality(Since(log, Receipts)) <= 1 /\ crashes \in Nat
    BY <1>3, <1>6
  <1> QED BY <1>5, <1>7, Zenon DEF Few

\* It stays few.
LEMMA FewNext == ASSUME ConstantsAssumption, Inv, Solos, Fews, [Next]_vars PROVE Fews'
  <1> SUFFICES ASSUME Alone' PROVE Few'
    BY DEF Fews
  <1>1. servers' = servers
    BY DEF Next, vars, bounds, Fetch, Submit, Crash, EmitConflict, Emit, EmitDuplicate, BeginGuard, Unhandled, GuardReturns,
           RecordGuard, Transition, SaveSnapshot, Refuse, Respond, Scan, Refetch, StartTurn, CheckPasses, DetectBypass, Bypass,
           SaveReceipt, Recover, Credit
  <1>2. Solo /\ Few
    BY <1>1 DEF Solos, Fews, Alone
  <1>3. PICK p \in Procs : servers = {p}
    <2>1. IsFiniteSet(servers) /\ servers \subseteq Procs
      BY FS_Subset DEF ConstantsAssumption, Inv, Typed
    <2>2. Cardinality(servers) = 1
      BY <1>1 DEF Alone
    <2>3. PICK x : servers = {x}
      BY <2>1, <2>2, FS_Singleton
    <2> QED BY <2>1, <2>3
  <1>4. ASSUME NEW s \in servers, Fetch(s) \/ (\E k \in Keys : Submit(s, k)) \/ Crash(s) PROVE Few'
    <2>1. s \in Procs
      BY <1>3
    <2> QED BY <1>2, <1>4, <2>1, FewBegins, FewCrash
  <1>5. ASSUME NEW c \in Calls,
               \/ EmitConflict(c) \/ Emit(c) \/ EmitDuplicate(c) \/ BeginGuard(c) \/ Unhandled(c)
               \/ GuardReturns(c) \/ RecordGuard(c) \/ Transition(c) \/ SaveSnapshot(c) \/ Refuse(c)
               \/ Respond(c) \/ Scan(c) \/ Refetch(c) \/ StartTurn(c) \/ CheckPasses(c)
               \/ DetectBypass(c) \/ Bypass(c) \/ SaveReceipt(c) \/ Recover(c) \/ Credit(c)
        PROVE  Few'
    <2>1. CASE \/ EmitConflict(c) \/ EmitDuplicate(c) \/ BeginGuard(c) \/ Unhandled(c) \/ GuardReturns(c)
               \/ SaveSnapshot(c) \/ Respond(c) \/ CheckPasses(c) \/ Scan(c) \/ Recover(c) \/ Credit(c)
      BY <1>2, <1>3, <2>1, FewOwnSteps
    <2>2. CASE Emit(c) \/ RecordGuard(c) \/ Transition(c) \/ Refuse(c) \/ DetectBypass(c) \/ Bypass(c)
      BY <1>2, <2>2, FewViewSteps
    <2>3. CASE StartTurn(c) \/ Refetch(c) \/ SaveReceipt(c)
      BY <1>2, <1>3, <2>3, FewStartsTurn, FewRefetches, FewSavesReceipt
    <2> QED BY <1>5, <2>1, <2>2, <2>3
  <1>6. CASE UNCHANGED vars
    <2>1. log' = log /\ call' = call /\ crashes' = crashes
      BY <1>6 DEF vars
    <2> QED BY <1>2, <2>1 DEF Few
  <1> QED BY <1>4, <1>5, <1>6 DEF Next

\* In every reachable state.
LEMMA FewInvariance == Spec => []Fews
  <1>1. ASSUME Init PROVE Fews
    BY <1>1, ConstantsAssumption, FewInit DEF Fews
  <1> QED BY <1>1, ConstantsAssumption, Invariance, SoloInvariance, FewNext, PTL DEF Spec

\* A window that is wider than what was counted since the view changed holds the change.
LEMMA WindowHolds ==
    ASSUME ConstantsAssumption, Inv, Cardinality(Since(log, Deliveries \cup Receipts)) < Window
    PROVE  WindowReachesView
  <1>1. log \in Seq(Events) /\ DOMAIN log = 1..Len(log) /\ Len(log) \in Nat /\ Len(log) >= 1 /\ log[1].type = "SKILL_INITIALIZED"
    BY DEF Inv, Typed
  <1>2. Window \in Nat
    BY DEF Window, ConstantsAssumption
  <1> DEFINE V == Max(ViewChanges)
  <1>3. ViewChanges \subseteq 1..Len(log) /\ ViewChanges \subseteq 0..Len(log)
    BY <1>1 DEF ViewChanges, Of
  <1>4. 1 \in ViewChanges
    BY <1>1 DEF ViewChanges, Of, EventTypes, Deliveries
  <1>5. V \in ViewChanges /\ \A j \in ViewChanges : j <= V
    BY <1>1, <1>3, <1>4, MaxFacts
  <1>6. ViewChanges = {j \in DOMAIN log : log[j].type \in Shifts}
    BY DEF ViewChanges, Of, Shifts, Receipts
  <1> HIDE DEF V
  <1>7. V \in 1..Len(log)
    BY <1>3, <1>5
  <1>8. Since(log, Deliveries \cup Receipts) = (V + 1)..Len(log)
    <2>1. ASSUME NEW i \in Since(log, Deliveries \cup Receipts) PROVE i \in (V + 1)..Len(log)
      <3>1. i \in 1..Len(log) /\ V < i
        BY <1>1, <1>5, <1>6, <2>1 DEF Since
      <3> QED BY <1>1, <1>7, <3>1
    <2>2. ASSUME NEW i \in (V + 1)..Len(log) PROVE i \in Since(log, Deliveries \cup Receipts)
      <3>1. i \in DOMAIN log /\ i > V
        BY <1>1, <1>7, <2>2
      <3>2. \A j \in DOMAIN log : log[j].type \in Shifts => j < i
        <4> SUFFICES ASSUME NEW j \in DOMAIN log, log[j].type \in Shifts PROVE j < i
          OBVIOUS
        <4>1. j <= V
          BY <1>5, <1>6
        <4> QED BY <1>1, <1>7, <3>1, <4>1
      <3>3. log[i].type \in EventTypes /\ log[i].type \notin Shifts
        <4>1. log[i] \in Events
          BY <1>1, <3>1
        <4>2. ~(log[i].type \in Shifts)
          <5> SUFFICES ASSUME log[i].type \in Shifts PROVE FALSE
            OBVIOUS
          <5> QED BY <1>1, <3>1, <3>2
        <4> QED BY <4>1, <4>2 DEF Events
      <3> QED BY <3>1, <3>2, <3>3 DEF Since, Shifts
    <2> QED BY <2>1, <2>2
  <1>9. Len(log) - V < Window
    <2>1. Cardinality((V + 1)..Len(log)) = Len(log) - V
      <3>1. CASE V + 1 <= Len(log)
        <4>1. V + 1 \in Int /\ Len(log) \in Int /\ V \in Int
          BY <1>1, <1>7
        <4>2. Cardinality((V + 1)..Len(log)) = Len(log) - (V + 1) + 1
          BY <3>1, <4>1, FS_Interval
        <4> QED BY <4>1, <4>2
      <3>2. CASE V + 1 > Len(log)
        <4>1. (V + 1)..Len(log) = {} /\ V = Len(log)
          BY <1>1, <1>7, <3>2
        <4> QED BY <1>1, <1>7, <4>1, FS_EmptySet
      <3> QED BY <1>1, <1>7, <3>1, <3>2
    <2> QED BY <1>8, <2>1
  <1>10. V \in Recent \cap ViewChanges
    BY <1>1, <1>2, <1>5, <1>7, <1>9 DEF Recent
  <1>11. Max(Recent \cap ViewChanges) = V
    <2> DEFINE S == Recent \cap ViewChanges
    <2>1. S \subseteq 0..Len(log) /\ V \in S /\ \A y \in S : y <= V
      BY <1>3, <1>5, <1>10
    <2> HIDE DEF S
    <2>2. Max(S) = V
      BY <1>1, <2>1, MaxUnique
    <2> QED BY <2>2 DEF S
  <1> QED BY <1>10, <1>11 DEF ViewSeq, WindowReachesView, V

\* WindowReachesView, with any keys and limits, while one process serves the run and has not died
\* more often than the allowances leave room for: the window always reaches the event that made
\* the current view.  Each death may cost one turn that was recorded and never checked, so that
\* no window of a fixed number of events outlasts every number of deaths.
THEOREM WindowReachesAlone ==
    Spec => [](Alone /\ crashes <= 3 * (MaxRefetches + MaxIdleTurns + 1) => WindowReachesView)
  <1>1. ASSUME Inv, Fews, Alone, crashes <= 3 * (MaxRefetches + MaxIdleTurns + 1) PROVE WindowReachesView
    <2>1. log \in Seq(Events) /\ Len(log) >= 1
      BY <1>1 DEF Inv, Typed
    <2>2. log[1] \in Events
      BY <2>1
    <2> DEFINE T == Since(log, Turned)
               R == Since(log, Refetched)
               C == Since(log, Receipts)
    <2>3. IsFiniteSet(T) /\ IsFiniteSet(R) /\ IsFiniteSet(C)
      BY <2>1, <2>2, SinceCounted, KindsOfEvents
    <2>4. /\ Cardinality(T) <= MaxIdleTurns + crashes + 1 /\ Cardinality(R) <= MaxRefetches + 1 /\ Cardinality(C) <= 1
          /\ crashes \in Nat
      BY <1>1 DEF Fews, Few
    <2>5. Since(log, Deliveries \cup Receipts) = (T \cup R) \cup C
      BY KindsOfEvents DEF Since
    <2> HIDE DEF T, R, C
    <2>6. IsFiniteSet(T \cup R) /\ Cardinality(T \cup R) <= Cardinality(T) + Cardinality(R)
      <3>1. Cardinality(T \cup R) = Cardinality(T) + Cardinality(R) - Cardinality(T \cap R)
        BY <2>3, FS_Union
      <3>2. IsFiniteSet(T \cap R) /\ IsFiniteSet(T \cup R)
        BY <2>3, FS_Union, FS_Intersection
      <3> QED BY <2>3, <3>1, <3>2, FS_CardinalityType
    <2>7. Cardinality((T \cup R) \cup C) <= Cardinality(T \cup R) + Cardinality(C)
      <3>1. Cardinality((T \cup R) \cup C) = Cardinality(T \cup R) + Cardinality(C) - Cardinality((T \cup R) \cap C)
        BY <2>3, <2>6, FS_Union
      <3>2. IsFiniteSet((T \cup R) \cap C) /\ IsFiniteSet((T \cup R) \cup C)
        BY <2>3, <2>6, FS_Union, FS_Intersection
      <3> QED BY <2>3, <2>6, <3>1, <3>2, FS_CardinalityType
    <2>8. /\ Cardinality(T) \in Nat /\ Cardinality(R) \in Nat /\ Cardinality(C) \in Nat /\ Cardinality(T \cup R) \in Nat
          /\ Cardinality((T \cup R) \cup C) \in Nat /\ MaxIdleTurns \in Nat /\ MaxRefetches \in Nat
      BY <2>3, <2>6, FS_Union, FS_CardinalityType, ConstantsAssumption DEF ConstantsAssumption
    <2>9. Cardinality((T \cup R) \cup C) <= MaxIdleTurns + crashes + MaxRefetches + 3
      BY <2>4, <2>6, <2>7, <2>8
    <2>10. Cardinality((T \cup R) \cup C) < Window
      BY <1>1, <2>4, <2>8, <2>9 DEF Window
    <2> QED BY <1>1, <2>5, <2>10, ConstantsAssumption, WindowHolds
  <1> QED BY <1>1, Invariance, FewInvariance, PTL
====
