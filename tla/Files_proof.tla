---- MODULE Files_proof ----
(***************************************************************************)
(* Proofs about what is kept in files that nothing locks: the files that    *)
(* name a skill's runs and the telemetry broker that reads them, for any    *)
(* number of processes, runs, clients, operations and crashes; and the      *)
(* destination of a synchronised skill, for any skill, any versions and any *)
(* number of runs, edits and failures.                                      *)
(*                                                                          *)
(* What protects the job files is the order in which each process writes,   *)
(* and that what it still has to write was right when it decided on it and  *)
(* stays right whatever the others do.  JobInv says so: TodoFits of the     *)
(* writes that are to come, Filed of the files, EngineFits of what an       *)
(* engine knows of its ledger, Apart of the names that only the process     *)
(* that made them fills.  "Over" and "Gone" are what a job may claim of its *)
(* run; neither is ever taken back, which Grows and GrowsFacts say.         *)
(*                                                                          *)
(* Of the broker: a client that was sent something of a run was sent all    *)
(* before the cursor, so that what a poll adds follows what it has.         *)
(*                                                                          *)
(* The properties of a sync are about what is left when it ends; what makes *)
(* them inductive is where the previous destination is at each point of it: *)
(* in place, set aside or replaced (Placed), and in the backup from the     *)
(* moment the backup is complete (Copied).                                  *)
(***************************************************************************)
EXTENDS TelemetryBroker, SyncSwap, SetFacts, SequenceTheorems

-----------------------------------------------------------------------------
(* The invariant of the job files *)

Pcs == {"idle", "migrate", "active", "rotate", "archive", "existing", "boot", "init", "sync", "settle"}
Ops == {"none", "open", "run", "enter", "reset"}

Writes ==
    [file : {"job"}, run : Runs, content : Metadata]
        \cup [file : {"copied"}, run : Runs, content : {Whole}]
        \cup [file : {"pointer", "mapping"}, run : Runs, content : {None}]

Served == [pc : Pcs, op : Ops, ref : Runs, todo : Seq(Writes), torn : BOOLEAN,
           run : Runs \cup {NoRun}, seen : Nat, state : {"live", "done"}]

Typed ==
    /\ job \in [Runs -> Metadata \cup {None, Torn}] /\ copied \in [Runs -> {None, Torn, Whole}]
    /\ pointer \in Runs \cup {NoName, Empty} /\ mapping \in Runs \cup {NoName, Empty}
    /\ ledger \in [Runs -> [events : Nat, finished : BOOLEAN, inits : Nat]]
    /\ proc \in [Procs -> Served]
    /\ hasLegacy \in BOOLEAN /\ retired \subseteq Runs
    /\ nextId \in 1..NoRun

\* Which operation can be at which of the points that they share.
Routed(e) ==
    /\ e.pc = "migrate" => e.op \in {"open", "run", "enter"}
    /\ e.pc = "active" => e.op \in {"open", "run", "reset"}
    /\ e.pc = "rotate" => e.op \in {"run", "enter"}
    /\ e.pc = "archive" => e.op \in {"run", "enter", "reset"}

\* A run that may be called finished, and one that may be archived.
Over(r) == r \in Unambiguous => ledger[r].finished
Gone(r) == Over(r) \/ r \in retired

\* What a job says of its run.
Claims(j, r) ==
    /\ j.state = "done" \/ j.status = "completed" => Over(r)
    /\ j.status = "archived" => Gone(r)

\* A write of this kind for this run comes before position k.
Before(t, k, file, r) == \E i \in DOMAIN t : i < k /\ t[i].file = file /\ t[i].run = r

\* What is still to be written: a job says what is so, a pointer or a map comes after what it names.
TodoFits(t) ==
    \A k \in DOMAIN t :
        LET w == t[k] IN
        /\ w.file = "job" => Claims(w.content, w.run)
        /\ w.file = "pointer" => w.run = 0 \/ job[w.run] # None \/ Before(t, k, "job", w.run)
        /\ w.file = "copied" => hasLegacy /\ w.run \in 1..(nextId - 1) /\ mapping # w.run
        /\ w.file = "mapping" =>
            /\ hasLegacy /\ w.run \in 1..(nextId - 1)
            /\ copied[w.run] = Whole \/ Before(t, k, "copied", w.run)
            /\ job[w.run] # None \/ Before(t, k, "job", w.run)

\* An engine has not seen more than its ledger holds, and knows when it ended.
EngineFits(e) ==
    /\ e.pc \in {"boot", "init", "sync", "settle"} => e.run \in Runs
    /\ e.pc = "init" => e.seen = 0 /\ e.state = "live"
    /\ e.pc = "boot" /\ e.run # 0 => job[e.run] # None \/ \E k \in DOMAIN e.todo : e.todo[k].file = "job" /\ e.todo[k].run = e.run
    /\ e.pc # "boot" /\ e.run \in Runs =>
        LET l == ledger[e.run] IN
        /\ e.seen <= l.events
        /\ e.state = "done" => l.finished \/ l.inits > 1
        /\ e.state = "live" /\ l.finished => l.inits > 1 \/ e.seen < l.events
        /\ e.pc # "init" => l.events > 0
        /\ e.run # 0 => job[e.run] # None

\* What is to be archived, unless a person wants it so, is gone.
Leaves(e) == e.pc = "archive" /\ e.op # "reset" => Gone(e.ref)

Fits(e) == Routed(e) /\ TodoFits(e.todo) /\ EngineFits(e) /\ Leaves(e)

\* Nobody but the process that copies a migrated run, and after it has, maps it.
Apart ==
    \A p, q \in Procs : \A i \in DOMAIN proc[p].todo, k \in DOMAIN proc[q].todo :
        /\ proc[p].todo[i].file = "copied" /\ proc[q].todo[k].file \in {"copied", "mapping"}
        /\ proc[p].todo[i].run = proc[q].todo[k].run
        => p = q /\ i <= k

Filed ==
    /\ \A r \in Runs : job[r] \in Metadata => Claims(job[r], r)
    /\ pointer \in Runs \ {0} => job[pointer] # None
    /\ mapping \in Runs => hasLegacy /\ mapping \in 1..(nextId - 1) /\ copied[mapping] = Whole /\ job[mapping] # None

LedgerFits ==
    \A r \in Runs :
        /\ ledger[r].inits = 0 => ledger[r].events = 0
        /\ ledger[r].events = 0 => ~ledger[r].finished /\ ledger[r].inits = 0
        /\ r # 0 /\ ledger[r].events > 0 => job[r] # None

JobInv == Typed /\ Filed /\ LedgerFits /\ Apart /\ \A p \in Procs : Fits(proc[p])

-----------------------------------------------------------------------------
(* Files and writes *)

\* The kinds of a write and what it has.
LEMMA WriteFacts ==
    /\ \A w \in Writes :
        /\ w.file \in {"job", "copied", "pointer", "mapping"} /\ w.run \in Runs
        /\ w.file = "job" => w.content \in Metadata
        /\ w.file = "copied" => w.content = Whole
    /\ \A r \in Runs :
        /\ Artifacts(r) \in Writes /\ Pointer(r) \in Writes /\ Mapping(r) \in Writes
        /\ \A c \in Metadata : Job(r, c) \in Writes /\ Job(r, c).file = "job" /\ Job(r, c).run = r /\ Job(r, c).content = c
        /\ Artifacts(r).file = "copied" /\ Artifacts(r).run = r
        /\ Pointer(r).file = "pointer" /\ Pointer(r).run = r
        /\ Mapping(r).file = "mapping" /\ Mapping(r).run = r
  BY DEF Writes, Job, Artifacts, Pointer, Mapping

\* A file with nothing to read is no metadata, and a fresh job claims nothing.
LEMMA FileFacts ==
    /\ None \notin Metadata /\ Torn \notin Metadata /\ Torn # None /\ Whole # None /\ Whole # Torn
    /\ Fresh \in Metadata /\ Fresh.state = "live" /\ Fresh.status = "active"
  BY DEF None, Torn, Whole, Fresh, Metadata

\* The numbers of runs.
LEMMA RunFacts ==
    /\ MaxRuns \in Nat /\ Runs = 0..MaxRuns /\ NoRun = MaxRuns + 1 /\ NoRun \notin Runs /\ 0 \in Runs
    /\ NoName \notin Runs /\ Empty \notin Runs
    /\ \A n \in 1..NoRun : n <= MaxRuns => n \in Runs
  BY ConstantsAssumption DEF Runs, NoRun, NoName, Empty

\* What an update leaves of a job.
LEMMA MergeFacts ==
    ASSUME NEW j \in Metadata
    PROVE  /\ \A s \in {"active", "completed", "archived"} :
                 LET m == Merge(j, [status |-> s]) IN m \in Metadata /\ m.status = s /\ m.state = j.state
           /\ \A x \in {"live", "done"} :
                 LET m == Merge(j, [state |-> x]) IN m \in Metadata /\ m.status = j.status /\ m.state = x
           /\ \A s \in {"active", "completed", "archived"}, x \in {"live", "done"} :
                 LET m == Merge(j, [status |-> s, state |-> x]) IN m \in Metadata /\ m.status = s /\ m.state = x
  BY DEF Merge, Metadata

-----------------------------------------------------------------------------
(* What a run's name stands for *)

\* A reference resolves to a run.
LEMMA ResolveFacts ==
    ASSUME Typed, Filed, NEW ref \in Runs
    PROVE  /\ Resolve(ref) \in Runs
           /\ Resolve(ref) # ref => Over(Resolve(ref)) /\ Over(ref)
           /\ Resolve(ref) = 0 => mapping \notin Runs
           /\ ActiveRef \in Runs
  <1>1. Resolve(ref) \in Runs /\ ActiveRef \in Runs
    BY RunFacts DEF Resolve, ActiveRef
  <1>2. mapping \in Runs => mapping # 0 /\ hasLegacy /\ copied[mapping] = Whole
    BY RunFacts DEF Filed
  <1>3. Resolve(ref) = 0 => mapping \notin Runs
    BY <1>2 DEF Resolve
  <1>4. ASSUME Resolve(ref) # ref PROVE Over(Resolve(ref)) /\ Over(ref)
    <2>1. ref = 0 /\ mapping \in Runs /\ Resolve(ref) = mapping
      BY <1>4 DEF Resolve
    <2> QED BY <1>2, <2>1, FileFacts DEF Over, Unambiguous
  <1> QED BY <1>1, <1>3, <1>4

\* A job that is there says what is so, and is of a run whose job is on file, unless that is 0.
LEMMA JobOfFacts ==
    ASSUME JobInv, NEW ref \in Runs, JobOf(ref) # None
    PROVE  /\ JobOf(ref) \in Metadata /\ Claims(JobOf(ref), Resolve(ref))
           /\ Resolve(ref) = 0 \/ job[Resolve(ref)] # None
  <1> DEFINE r == Resolve(ref)
  <1>0. Typed /\ Filed /\ LedgerFits
    BY DEF JobInv
  <1>1. r \in Runs
    BY <1>0, ResolveFacts
  <1> HIDE DEF r
  <1>2. CASE job[r] \in Metadata
    <2>1. JobOf(ref) = job[r]
      BY <1>2 DEF JobOf, r
    <2>2. Claims(job[r], r) /\ job[r] # None
      BY <1>0, <1>1, <1>2, FileFacts DEF Filed
    <2> QED BY <1>2, <2>1, <2>2 DEF r
  <1>3. CASE job[r] \notin Metadata
    <2>1. JobOf(ref) = Fresh /\ (ledger[r].events > 0 \/ pointer = r \/ r = 0)
      BY <1>3 DEF JobOf, r
    <2>2. Claims(Fresh, r)
      BY FileFacts DEF Claims
    <2>3. r = 0 \/ job[r] # None
      BY <1>0, <1>1, <2>1 DEF Filed, LedgerFits
    <2> QED BY <2>1, <2>2, <2>3, FileFacts DEF r
  <1> QED BY <1>2, <1>3

\* An update writes one job, from one that says what is so.
LEMMA UpdateFacts ==
    ASSUME JobInv, NEW ref \in Runs, NEW ch, \A j \in Metadata : Merge(j, ch) \in Metadata
    PROVE  /\ Update(ref, ch) \in Seq(Writes)
           /\ \A k \in DOMAIN Update(ref, ch) :
                LET w == Update(ref, ch)[k] IN
                /\ w.file = "job" /\ w.run = Resolve(ref) /\ w.content \in Metadata
                /\ w.content = Fresh \/ \E j \in Metadata : Claims(j, Resolve(ref)) /\ w.content = Merge(j, ch)
  <1> DEFINE r == Resolve(ref)
  <1>1. r \in Runs
    BY ResolveFacts DEF JobInv
  <1>2. Fresh \in Metadata /\ Claims(Fresh, r)
    BY FileFacts DEF Claims
  <1> HIDE DEF r
  <1>3. CASE JobOf(ref) = None
    <2>1. Update(ref, ch) = <<Job(r, Fresh), Job(r, Merge(Fresh, ch))>>
      BY <1>3 DEF Update, r
    <2>2. /\ Job(r, Fresh) \in Writes /\ Job(r, Fresh).file = "job" /\ Job(r, Fresh).run = r /\ Job(r, Fresh).content = Fresh
          /\ Job(r, Merge(Fresh, ch)) \in Writes /\ Job(r, Merge(Fresh, ch)).file = "job"
          /\ Job(r, Merge(Fresh, ch)).run = r /\ Job(r, Merge(Fresh, ch)).content = Merge(Fresh, ch)
      BY <1>1, <1>2, WriteFacts
    <2> QED BY <1>2, <2>1, <2>2 DEF r
  <1>4. CASE JobOf(ref) # None
    <2> DEFINE m == Merge(JobOf(ref), ch)
    <2>1. Update(ref, ch) = <<Job(r, m)>>
      BY <1>4 DEF Update, r
    <2>2. JobOf(ref) \in Metadata /\ Claims(JobOf(ref), r) /\ m \in Metadata
      BY <1>4, JobOfFacts DEF r
    <2>3. Job(r, m) \in Writes /\ Job(r, m).file = "job" /\ Job(r, m).run = r /\ Job(r, m).content = m
      BY <1>1, <2>2, WriteFacts
    <2> QED BY <2>1, <2>2, <2>3 DEF r
  <1> QED BY <1>3, <1>4

-----------------------------------------------------------------------------
(* What no step takes back *)

\* Events are only added, and a ledger that goes on after its end was initialised again.
Advances(r) ==
    \/ ledger'[r] = ledger[r]
    \/ /\ ledger'[r].events > ledger[r].events /\ ledger'[r].inits >= ledger[r].inits
       /\ ledger[r].finished => ledger'[r].inits > 1

Grows ==
    /\ hasLegacy' = hasLegacy /\ nextId <= nextId' /\ retired \subseteq retired'
    /\ \A r \in Runs :
        /\ job[r] # None => job'[r] # None
        /\ copied[r] # None => copied'[r] # None
        /\ Advances(r)

\* What a run and its job may be called, they may be called from then on.
LEMMA GrowsFacts ==
    ASSUME Typed, Typed', Grows, NEW r \in Runs
    PROVE  (Over(r) => Over(r)') /\ (Gone(r) => Gone(r)') /\ \A j : Claims(j, r) => Claims(j, r)'
  <1>1. /\ ledger[r] \in [events : Nat, finished : BOOLEAN, inits : Nat]
        /\ ledger'[r] \in [events : Nat, finished : BOOLEAN, inits : Nat]
    BY DEF Typed
  <1>2. Advances(r) /\ hasLegacy' = hasLegacy /\ (copied[r] # None => copied'[r] # None) /\ retired \subseteq retired'
    BY DEF Grows
  <1>3. ledger[r].inits > 1 => ledger'[r].inits > 1
    BY <1>1, <1>2 DEF Advances
  <1>4. ledger[r].finished => ledger'[r].finished \/ ledger'[r].inits > 1
    BY <1>2 DEF Advances
  <1>5. Over(r) => Over(r)'
    BY <1>1, <1>2, <1>3, <1>4 DEF Over, Unambiguous
  <1>6. Gone(r) => Gone(r)'
    BY <1>2, <1>5 DEF Gone
  <1> QED BY <1>5, <1>6 DEF Claims

\* A process that does nothing still fits, if what it has to write next is still to be written.
LEMMA Bystander ==
    ASSUME Typed, Typed', Grows, NEW q \in Procs, Fits(proc[q]), proc'[q] = proc[q],
           \A k \in DOMAIN proc[q].todo :
               LET w == proc[q].todo[k] IN
               /\ w.file = "copied" => mapping' # w.run
               /\ w.file = "mapping" /\ copied[w.run] = Whole => copied'[w.run] = Whole
    PROVE  Fits(proc[q])'
  <1>e. PICK e : e = proc[q]
    OBVIOUS
  <1>0. e \in Served /\ nextId \in Nat /\ nextId' \in Nat
    BY <1>e, RunFacts DEF Typed
  <1>1. e.todo \in Seq(Writes) /\ e.ref \in Runs /\ e.seen \in Nat
    BY <1>0 DEF Served
  <1>2. \A k \in DOMAIN e.todo : e.todo[k] \in Writes /\ e.todo[k].run \in Runs
    BY <1>1, WriteFacts
  <1>3. Routed(proc[q])'
    BY <1>e DEF Fits, Routed
  <1>4. Leaves(proc[q])'
    BY <1>e, <1>1, GrowsFacts DEF Fits, Leaves
  <1>5. TodoFits(proc[q].todo)'
    <2> SUFFICES ASSUME NEW k \in DOMAIN e.todo, NEW w, w = e.todo[k]
                 PROVE  /\ w.file = "job" => Claims(w.content, w.run)'
                        /\ w.file = "pointer" => w.run = 0 \/ job'[w.run] # None \/ Before(e.todo, k, "job", w.run)
                        /\ w.file = "copied" => hasLegacy' /\ w.run \in 1..(nextId' - 1) /\ mapping' # w.run
                        /\ w.file = "mapping" =>
                            /\ hasLegacy' /\ w.run \in 1..(nextId' - 1)
                            /\ copied'[w.run] = Whole \/ Before(e.todo, k, "copied", w.run)
                            /\ job'[w.run] # None \/ Before(e.todo, k, "job", w.run)
      BY <1>e DEF TodoFits
    <2>1. w.run \in Runs
      BY <1>2
    <2>2. /\ w.file = "job" => Claims(w.content, w.run)
          /\ w.file = "pointer" => w.run = 0 \/ job[w.run] # None \/ Before(e.todo, k, "job", w.run)
          /\ w.file = "copied" => hasLegacy /\ w.run \in 1..(nextId - 1) /\ mapping # w.run
          /\ w.file = "mapping" =>
              /\ hasLegacy /\ w.run \in 1..(nextId - 1)
              /\ copied[w.run] = Whole \/ Before(e.todo, k, "copied", w.run)
              /\ job[w.run] # None \/ Before(e.todo, k, "job", w.run)
      BY <1>e DEF Fits, TodoFits
    <2>3. /\ w.file = "copied" => mapping' # w.run
          /\ w.file = "mapping" /\ copied[w.run] = Whole => copied'[w.run] = Whole
      BY <1>e
    <2>4. Claims(w.content, w.run) => Claims(w.content, w.run)'
      BY <2>1, GrowsFacts
    <2>5. hasLegacy' = hasLegacy /\ nextId <= nextId' /\ (job[w.run] # None => job'[w.run] # None)
      BY <2>1 DEF Grows
    <2>6. w.run \in 1..(nextId - 1) => w.run \in 1..(nextId' - 1)
      BY <1>0, <2>5
    <2> QED BY <2>2, <2>3, <2>4, <2>5, <2>6
  <1>6. EngineFits(proc[q])'
    <2>1. EngineFits(e)
      BY <1>e DEF Fits
    <2>2. CASE e.run \in Runs
      <3> DEFINE l == ledger[e.run]
                 m == ledger'[e.run]
      <3>1. l \in [events : Nat, finished : BOOLEAN, inits : Nat] /\ m \in [events : Nat, finished : BOOLEAN, inits : Nat]
        BY <2>2 DEF Typed
      <3>2. \/ m = l
            \/ m.events > l.events /\ m.inits >= l.inits /\ (l.finished => m.inits > 1)
        BY <2>2 DEF Grows, Advances
      <3>3. job[e.run] # None => job'[e.run] # None
        BY <2>2 DEF Grows
      <3>4. e.pc # "boot" =>
              /\ e.seen <= m.events
              /\ e.state = "done" => m.finished \/ m.inits > 1
              /\ e.state = "live" /\ m.finished => m.inits > 1 \/ e.seen < m.events
              /\ e.pc # "init" => m.events > 0
        <4>1. e.pc # "boot" =>
              /\ e.seen <= l.events
              /\ e.state = "done" => l.finished \/ l.inits > 1
              /\ e.state = "live" /\ l.finished => l.inits > 1 \/ e.seen < l.events
              /\ e.pc # "init" => l.events > 0
          BY <2>1, <2>2 DEF EngineFits
        <4> HIDE DEF l, m
        <4> QED BY <1>0, <1>1, <3>1, <3>2, <4>1
      <3> QED BY <1>e, <2>1, <2>2, <3>3, <3>4 DEF EngineFits
    <2>3. CASE e.run \notin Runs
      BY <1>e, <2>1, <2>3 DEF EngineFits
    <2> QED BY <2>2, <2>3
  <1> QED BY <1>3, <1>4, <1>5, <1>6 DEF Fits

-----------------------------------------------------------------------------
(* Steps that leave the files alone *)

\* The step of one process: it has to fit itself, and to leave the ledgers and the copies in order.
LEMMA StepOf ==
    ASSUME JobInv, Typed', Grows, NEW p \in Procs, \A q \in Procs \ {p} : proc'[q] = proc[q],
           UNCHANGED files, Fits(proc[p])', LedgerFits', Apart'
    PROVE  JobInv'
  <1>0. Typed /\ Filed /\ UNCHANGED <<job, copied, pointer, mapping>>
    BY DEF JobInv, files
  <1>1. Filed'
    <2>1. ASSUME NEW r \in Runs, job[r] \in Metadata PROVE Claims(job[r], r)'
      <3>1. Claims(job[r], r)
        BY <1>0, <2>1 DEF Filed
      <3>2. PICK j : j = job[r] /\ j = job'[r]
        BY <1>0
      <3>3. Claims(j, r)'
        BY <1>0, <3>1, <3>2, GrowsFacts
      <3> QED BY <3>2, <3>3
    <2>2. nextId \in Nat /\ nextId' \in Nat /\ nextId <= nextId' /\ hasLegacy' = hasLegacy
      BY <1>0, RunFacts DEF Typed, Grows
    <2> QED BY <1>0, <2>1, <2>2 DEF Filed
  <1>2. ASSUME NEW q \in Procs \ {p} PROVE Fits(proc[q])'
    <2>1. Fits(proc[q])
      BY DEF JobInv
    <2>2. \A k \in DOMAIN proc[q].todo : proc[q].todo[k].file = "copied" => mapping # proc[q].todo[k].run
      BY <2>1 DEF Fits, TodoFits
    <2> QED BY <1>0, <2>1, <2>2, Bystander
  <1> QED BY <1>1, <1>2 DEF JobInv

\* Nothing is copied but by a migration.
Plain(t) == \A k \in DOMAIN t : t[k].file \in {"job", "pointer"}

\* A process that plans no migration leaves those of others alone.
LEMMA PlainApart ==
    ASSUME Apart, NEW p \in Procs, \A q \in Procs \ {p} : proc'[q] = proc[q], Plain(proc'[p].todo)
    PROVE  Apart'
  BY DEF Apart, Plain

\* An engine that does nothing is as it was.
LEMMA EngineKept ==
    ASSUME NEW p \in Procs, EngineFits(proc[p]), UNCHANGED <<ledger, job>>,
           proc'[p].run = proc[p].run, proc'[p].seen = proc[p].seen, proc'[p].state = proc[p].state,
           proc[p].pc \notin {"boot", "init"}, proc'[p].pc \notin {"boot", "init"},
           proc'[p].pc \in {"sync", "settle"} => proc[p].run \in Runs
    PROVE  EngineFits(proc[p])'
  BY DEF EngineFits

\* A process that has written all and changes nothing but what it is at.
LEMMA RestFits ==
    ASSUME JobInv, NEW p \in Procs, proc' \in [Procs -> Served], \A q \in Procs \ {p} : proc'[q] = proc[q],
           proc'[p].todo = <<>>, UNCHANGED <<files, ledger, hasLegacy, retired, nextId>>,
           Routed(proc[p])', EngineFits(proc[p])', Leaves(proc[p])'
    PROVE  JobInv'
  <1>0. Typed /\ LedgerFits /\ Apart /\ UNCHANGED <<job, copied, pointer, mapping>>
    BY DEF JobInv, files
  <1>1. Typed'
    BY <1>0 DEF Typed
  <1>2. Grows
    BY <1>0, RunFacts DEF Grows, Advances, Typed
  <1>3. Plain(proc'[p].todo) /\ TodoFits(proc[p].todo)'
    BY DEF Plain, TodoFits
  <1>4. Apart' /\ Fits(proc[p])'
    BY <1>0, <1>3, PlainApart DEF Fits
  <1>5. LedgerFits'
    BY <1>0 DEF LedgerFits
  <1> QED BY <1>1, <1>2, <1>4, <1>5, StepOf

\* A process at rest is typed, and fits.
LEMMA DeadFits ==
    /\ Dead \in Served /\ Dead.todo = <<>>
    /\ Routed(Dead) /\ EngineFits(Dead) /\ Leaves(Dead)
  BY RunFacts DEF Dead, Served, Pcs, Ops, Routed, EngineFits, Leaves

\* Beginning an operation.
LEMMA BeginFits ==
    ASSUME JobInv, NEW p \in Procs, Open(p) \/ Run(p) \/ Enter(p) \/ Reset(p)
    PROVE  JobInv'
  <1>1. proc \in [Procs -> Served] /\ proc[p] \in Served
    BY DEF JobInv, Typed
  <1>2. PICK op \in Ops, pc \in {"migrate", "rotate", "active"} :
            /\ Begin(p, op, pc)
            /\ <<op, pc>> \in {<<"open", "migrate">>, <<"run", "migrate">>, <<"enter", "rotate">>, <<"reset", "active">>}
    BY DEF Open, Run, Enter, Reset, Ops
  <1>3. proc' = [proc EXCEPT ![p] = [proc[p] EXCEPT !.op = op, !.pc = pc]] /\ proc[p].pc = "idle" /\ proc[p].todo = <<>>
    BY <1>1, <1>2 DEF Begin, At
  <1>4. pc \in Pcs
    BY DEF Pcs
  <1>5. LET e == [proc[p] EXCEPT !.op = op, !.pc = pc]
        IN e \in Served /\ e.op = op /\ e.pc = pc /\ e.todo = proc[p].todo /\ e.run = proc[p].run /\ e.seen = proc[p].seen
           /\ e.state = proc[p].state /\ e.ref = proc[p].ref
    BY <1>1, <1>4 DEF Served
  <1>6. /\ proc' \in [Procs -> Served] /\ \A q \in Procs \ {p} : proc'[q] = proc[q]
        /\ proc'[p].op = op /\ proc'[p].pc = pc /\ proc'[p].todo = <<>> /\ proc'[p].run = proc[p].run
        /\ proc'[p].seen = proc[p].seen /\ proc'[p].state = proc[p].state
    BY <1>1, <1>3, <1>5
  <1>7. UNCHANGED <<files, ledger, hasLegacy, retired, nextId>> /\ UNCHANGED <<ledger, job>>
    BY <1>2 DEF Begin, fixed, files
  <1>8. EngineFits(proc[p])'
    <2>1. EngineFits(proc[p])
      BY DEF JobInv, Fits
    <2> QED BY <1>3, <1>6, <1>7, <2>1, EngineKept
  <1>9. Routed(proc[p])' /\ Leaves(proc[p])'
    BY <1>2, <1>6 DEF Routed, Leaves
  <1> QED BY <1>6, <1>7, <1>8, <1>9, RestFits

\* Reading the active run, for itself or to see whether it has ended.
LEMMA ReadFits ==
    ASSUME JobInv, NEW p \in Procs, ReadActive(p) \/ Rotate(p)
    PROVE  JobInv'
  <1>1. proc \in [Procs -> Served] /\ proc[p] \in Served /\ Typed /\ Filed
    BY DEF JobInv, Typed
  <1>2. Fits(proc[p])
    BY DEF JobInv
  <1>3. ActiveRef \in Runs
    BY <1>1, RunFacts, ResolveFacts
  <1> DEFINE away == JobOf(ActiveRef) # None /\ Terminal(JobOf(ActiveRef))
  <1>4. \E ref \in Runs, pc \in Pcs :
            /\ proc' = [proc EXCEPT ![p] = [proc[p] EXCEPT !.ref = ref, !.pc = pc]]
            /\ \/ pc \in {"existing", "rotate", "migrate"}
               \/ pc = "archive" /\ (proc[p].op = "reset" \/ (ref = ActiveRef /\ away))
            /\ pc = "migrate" => proc[p].op = "enter"
            /\ pc = "rotate" => proc[p].op = "run"
            /\ pc = "archive" => proc[p].op \in {"run", "enter", "reset"}
    <2>1. CASE ReadActive(p)
      <3>1. proc[p].op \in {"open", "run", "reset"}
        BY <1>2, <2>1 DEF ReadActive, At, Fits, Routed
      <3>2. After("open", "active") = "existing" /\ After("run", "active") = "rotate" /\ After("reset", "active") = "archive"
        BY DEF After
      <3>3. proc' = [proc EXCEPT ![p] = [proc[p] EXCEPT !.ref = ActiveRef, !.pc = After(proc[p].op, "active")]]
        BY <1>1, <2>1 DEF ReadActive
      <3> QED BY <1>3, <3>1, <3>2, <3>3 DEF Pcs
    <2>2. CASE Rotate(p)
      <3>1. proc[p].op \in {"run", "enter"}
        BY <1>2, <2>2 DEF Rotate, At, Fits, Routed
      <3>2. After("run", "rotate") = "existing" /\ After("enter", "rotate") = "migrate"
        BY DEF After
      <3> DEFINE ref == IF away \/ proc[p].op = "enter" THEN ActiveRef ELSE proc[p].ref
                 pc == IF away THEN "archive" ELSE After(proc[p].op, "rotate")
      <3>3. proc' = [proc EXCEPT ![p] = [proc[p] EXCEPT !.ref = ref, !.pc = pc]]
        BY <1>1, <2>2 DEF Rotate
      <3>4. ref \in Runs /\ pc \in Pcs
        BY <1>1, <1>3, <3>1, <3>2 DEF Served, Pcs
      <3>5. CASE away
        <4>1. ref = ActiveRef /\ pc = "archive"
          BY <3>5
        <4> HIDE DEF ref, pc, away
        <4> QED BY <3>1, <3>3, <3>4, <3>5, <4>1
      <3>6. CASE ~away
        <4>1. pc = After(proc[p].op, "rotate")
          BY <3>6
        <4>2. (pc = "existing" /\ proc[p].op = "run") \/ (pc = "migrate" /\ proc[p].op = "enter")
          <5> HIDE DEF pc, away
          <5> QED BY <3>1, <3>2, <4>1
        <4> HIDE DEF ref, pc, away
        <4> QED BY <3>3, <3>4, <4>2
      <3> QED BY <3>5, <3>6
    <2> QED BY <2>1, <2>2
  <1>5. PICK ref \in Runs, pc \in Pcs :
            /\ proc' = [proc EXCEPT ![p] = [proc[p] EXCEPT !.ref = ref, !.pc = pc]]
            /\ \/ pc \in {"existing", "rotate", "migrate"}
               \/ pc = "archive" /\ (proc[p].op = "reset" \/ (ref = ActiveRef /\ away))
            /\ pc = "migrate" => proc[p].op = "enter"
            /\ pc = "rotate" => proc[p].op = "run"
            /\ pc = "archive" => proc[p].op \in {"run", "enter", "reset"}
    BY <1>4
  <1>6. LET e == [proc[p] EXCEPT !.ref = ref, !.pc = pc]
        IN e \in Served /\ e.op = proc[p].op /\ e.pc = pc /\ e.todo = proc[p].todo /\ e.run = proc[p].run
           /\ e.seen = proc[p].seen /\ e.state = proc[p].state /\ e.ref = ref
    BY <1>1 DEF Served
  <1>7. /\ proc' \in [Procs -> Served] /\ \A q \in Procs \ {p} : proc'[q] = proc[q]
        /\ proc'[p].op = proc[p].op /\ proc'[p].pc = pc /\ proc'[p].todo = proc[p].todo /\ proc'[p].run = proc[p].run
        /\ proc'[p].seen = proc[p].seen /\ proc'[p].state = proc[p].state /\ proc'[p].ref = ref
    BY <1>1, <1>5, <1>6
  <1>8. /\ UNCHANGED <<files, ledger, hasLegacy, retired, nextId>> /\ UNCHANGED <<ledger, job>>
        /\ proc[p].pc \in {"active", "rotate"} /\ proc[p].todo = <<>>
    BY DEF ReadActive, Rotate, At, fixed, bounds, files
  <1>9. EngineFits(proc[p])'
    BY <1>2, <1>5, <1>7, <1>8, EngineKept DEF Fits
  <1>10. away => Gone(ActiveRef)
    <2>1. ASSUME away PROVE Gone(ActiveRef)
      <3>1. Claims(JobOf(ActiveRef), Resolve(ActiveRef)) /\ Terminal(JobOf(ActiveRef))
        BY <1>3, <2>1, JobOfFacts
      <3>2. Gone(Resolve(ActiveRef))
        BY <3>1 DEF Claims, Terminal, Gone
      <3>3. Resolve(ActiveRef) # ActiveRef => Over(ActiveRef)
        BY <1>1, <1>3, ResolveFacts
      <3> QED BY <3>2, <3>3 DEF Gone
    <2> QED BY <2>1
  <1>11. Routed(proc[p])'
    BY <1>5, <1>7 DEF Routed
  <1>12. Leaves(proc[p])'
    <2>1. ASSUME pc = "archive", proc[p].op # "reset" PROVE Gone(ref)'
      <3>1. ref = ActiveRef /\ Gone(ref)
        BY <1>5, <1>10, <2>1
      <3> QED BY <1>8, <3>1 DEF Gone, Over, Unambiguous, files
    <2> QED BY <1>7, <2>1 DEF Leaves
  <1> QED BY <1>7, <1>8, <1>9, <1>11, <1>12, RestFits

\* Looking at the ledger of the run that was opened.
LEMMA BootFits ==
    ASSUME JobInv, NEW p \in Procs, Boot(p)
    PROVE  JobInv'
  <1>1. proc \in [Procs -> Served] /\ proc[p] \in Served /\ Typed /\ LedgerFits
    BY DEF JobInv, Typed
  <1>2. EngineFits(proc[p])
    BY DEF JobInv, Fits
  <1>3. proc[p].pc = "boot" /\ proc[p].todo = <<>> /\ UNCHANGED <<files, ledger, hasLegacy, retired, nextId>>
    BY DEF Boot, At, bounds, fixed
  <1>a. PICK r \in Runs : r = proc[p].run
    BY <1>2, <1>3 DEF EngineFits
  <1>b. PICK l : l = ledger[r]
    OBVIOUS
  <1>4. r = proc[p].run /\ l = ledger[r]
    BY <1>a, <1>b
  <1>5. l \in [events : Nat, finished : BOOLEAN, inits : Nat]
    BY <1>1, <1>4 DEF Typed
  <1>6. l.events = 0 => ~l.finished /\ l.inits = 0
    BY <1>1, <1>4 DEF LedgerFits
  <1>7. PICK pc \in {"init", "sync"}, state \in {"live", "done"} :
            /\ pc = IF l.events = 0 THEN "init" ELSE "sync"
            /\ state = IF l.finished THEN "done" ELSE "live"
    OBVIOUS
  <1>8. proc' = [proc EXCEPT ![p] = [proc[p] EXCEPT !.pc = pc, !.seen = l.events, !.state = state]]
    BY <1>1, <1>4, <1>7 DEF Boot
  <1>9. pc \in Pcs /\ l.events \in Nat
    BY <1>5 DEF Pcs
  <1>10. LET e == [proc[p] EXCEPT !.pc = pc, !.seen = l.events, !.state = state]
         IN e \in Served /\ e.op = proc[p].op /\ e.pc = pc /\ e.todo = proc[p].todo /\ e.run = proc[p].run
            /\ e.seen = l.events /\ e.state = state /\ e.ref = proc[p].ref
    BY <1>1, <1>9 DEF Served
  <1>11. /\ proc' \in [Procs -> Served] /\ \A q \in Procs \ {p} : proc'[q] = proc[q]
         /\ proc'[p].pc = pc /\ proc'[p].todo = <<>> /\ proc'[p].run = r /\ proc'[p].seen = l.events /\ proc'[p].state = state
    BY <1>1, <1>3, <1>4, <1>8, <1>10
  <1>12. r # 0 => job[r] # None
    BY <1>2, <1>3, <1>4 DEF EngineFits
  <1>13. job' = job /\ ledger' = ledger
    BY <1>3 DEF files
  <1>14. EngineFits(proc[p])'
    BY <1>4, <1>5, <1>6, <1>7, <1>11, <1>12, <1>13 DEF EngineFits
  <1>15. Routed(proc[p])' /\ Leaves(proc[p])'
    BY <1>7, <1>11 DEF Routed, Leaves
  <1> QED BY <1>3, <1>11, <1>14, <1>15, RestFits

\* A process that dies.
LEMMA CrashFits ==
    ASSUME JobInv, NEW p \in Procs, Crash(p)
    PROVE  JobInv'
  <1>1. proc \in [Procs -> Served]
    BY DEF JobInv, Typed
  <1>2. proc' = [proc EXCEPT ![p] = Dead] /\ UNCHANGED <<files, ledger, hasLegacy, retired, nextId>>
    BY DEF Crash, fixed
  <1>3. proc' \in [Procs -> Served] /\ proc'[p] = Dead /\ \A q \in Procs \ {p} : proc'[q] = proc[q]
    BY <1>1, <1>2, DeadFits
  <1>4. Routed(proc[p])' /\ Leaves(proc[p])'
    BY <1>3, DeadFits DEF Routed, Leaves, Dead
  <1>5. EngineFits(proc[p])'
    BY <1>3, RunFacts DEF EngineFits, Dead
  <1> QED BY <1>2, <1>3, <1>4, <1>5, DeadFits, RestFits

-----------------------------------------------------------------------------
(* Steps that plan what to write *)

\* A process that plans to write jobs and the pointer.
LEMMA PlanFits ==
    ASSUME JobInv, NEW p \in Procs, proc' \in [Procs -> Served], \A q \in Procs \ {p} : proc'[q] = proc[q],
           UNCHANGED <<files, ledger, hasLegacy>>, retired \subseteq retired', retired' \subseteq Runs,
           nextId' \in 1..NoRun, nextId <= nextId',
           Plain(proc'[p].todo), TodoFits(proc[p].todo)', Routed(proc[p])', EngineFits(proc[p])', Leaves(proc[p])'
    PROVE  JobInv'
  <1>0. Typed /\ LedgerFits /\ Apart /\ UNCHANGED <<job, copied, pointer, mapping>>
    BY DEF JobInv, files
  <1>1. Typed'
    BY <1>0 DEF Typed
  <1>2. Grows
    BY <1>0, RunFacts DEF Grows, Advances, Typed
  <1>3. Apart' /\ Fits(proc[p])'
    BY <1>0, PlainApart DEF Fits
  <1>4. LedgerFits'
    BY <1>0 DEF LedgerFits
  <1> QED BY <1>1, <1>2, <1>3, <1>4, StepOf

\* The job follows the engine, once it was opened and after each transition.
LEMMA FollowFits ==
    ASSUME JobInv, NEW p \in Procs, Sync(p) \/ Settle(p)
    PROVE  JobInv'
  <1>1. proc \in [Procs -> Served] /\ proc[p] \in Served /\ Typed /\ Filed
    BY DEF JobInv, Typed
  <1>2. Fits(proc[p])
    BY DEF JobInv
  <1>3. /\ proc[p].pc \in {"sync", "settle"} /\ proc[p].todo = <<>> /\ UNCHANGED <<files, ledger, bounds, fixed>>
    BY DEF Sync, Settle, At
  <1>4. PICK r \in Runs, state \in {"live", "done"} : r = proc[p].run /\ state = proc[p].state
    BY <1>1, <1>2, <1>3 DEF Fits, EngineFits, Served
  <1>5. PICK ch : /\ Goto(p, "idle", Update(r, ch))
                  /\ \A j \in Metadata :
                      /\ Merge(j, ch) \in Metadata /\ Merge(j, ch).state = state
                      /\ Merge(j, ch).status \in {j.status, IF state = "done" THEN "completed" ELSE "active"}
    <2>1. CASE Sync(p)
      BY <1>4, <2>1, MergeFacts DEF Sync
    <2>2. CASE Settle(p)
      <3> DEFINE s == IF state = "done" THEN "completed" ELSE "active"
      <3>1. s \in {"active", "completed", "archived"} /\ Goto(p, "idle", Update(r, [status |-> s, state |-> state]))
        BY <1>4, <2>2 DEF Settle
      <3>2. s = IF state = "done" THEN "completed" ELSE "active"
        OBVIOUS
      <3> HIDE DEF s
      <3> QED BY <1>4, <3>1, <3>2, MergeFacts
    <2> QED BY <2>1, <2>2
  <1>6. PICK t : t = Update(r, ch)
    OBVIOUS
  <1>7. t \in Seq(Writes) /\ \A k \in DOMAIN t :
            LET w == t[k] IN
            /\ w.file = "job" /\ w.run = Resolve(r)
            /\ w.content = Fresh \/ \E j \in Metadata : Claims(j, Resolve(r)) /\ w.content = Merge(j, ch)
    BY <1>5, <1>6, UpdateFacts
  <1>8. state = "done" => Over(Resolve(r))
    <2>1. ASSUME state = "done" PROVE Over(r)
      <3>1. ledger[r].finished \/ ledger[r].inits > 1
        BY <1>2, <1>3, <1>4, <2>1 DEF Fits, EngineFits
      <3>2. ledger[r].inits \in Nat
        BY <1>1 DEF Typed
      <3> QED BY <3>1, <3>2 DEF Over, Unambiguous
    <2> QED BY <1>1, <2>1, ResolveFacts
  <1>9. \A k \in DOMAIN t : t[k].file = "job" /\ Claims(t[k].content, t[k].run)
    <2> SUFFICES ASSUME NEW k \in DOMAIN t PROVE Claims(t[k].content, Resolve(r))
      BY <1>7
    <2>1. CASE t[k].content = Fresh
      BY <2>1, FileFacts DEF Claims
    <2>2. ASSUME NEW j \in Metadata, Claims(j, Resolve(r)), t[k].content = Merge(j, ch) PROVE Claims(t[k].content, Resolve(r))
      BY <1>5, <1>8, <2>2 DEF Claims
    <2> QED BY <1>7, <2>1, <2>2
  <1>10. proc' = [proc EXCEPT ![p] = [proc[p] EXCEPT !.pc = "idle", !.todo = t]]
    BY <1>1, <1>5, <1>6 DEF Goto
  <1>11. LET e == [proc[p] EXCEPT !.pc = "idle", !.todo = t]
         IN e \in Served /\ e.op = proc[p].op /\ e.pc = "idle" /\ e.todo = t /\ e.run = proc[p].run
            /\ e.seen = proc[p].seen /\ e.state = proc[p].state /\ e.ref = proc[p].ref
    BY <1>1, <1>7 DEF Served, Pcs
  <1>12. /\ proc' \in [Procs -> Served] /\ \A q \in Procs \ {p} : proc'[q] = proc[q]
         /\ proc'[p].pc = "idle" /\ proc'[p].todo = t /\ proc'[p].run = proc[p].run /\ proc'[p].seen = proc[p].seen
         /\ proc'[p].state = proc[p].state
    BY <1>1, <1>10, <1>11
  <1>13. UNCHANGED <<ledger, job, copied, hasLegacy, retired, nextId>> /\ UNCHANGED files
    BY <1>3 DEF files, bounds, fixed
  <1>14. Plain(proc'[p].todo) /\ TodoFits(proc[p].todo)'
    BY <1>9, <1>12, <1>13 DEF Plain, TodoFits, Claims, Over, Gone, Unambiguous
  <1>15. EngineFits(proc[p])'
    BY <1>2, <1>3, <1>12, <1>13, EngineKept DEF Fits
  <1>16. Routed(proc[p])' /\ Leaves(proc[p])'
    BY <1>12 DEF Routed, Leaves
  <1>17. nextId \in Nat /\ nextId \in 1..NoRun /\ retired \subseteq Runs
    BY <1>1, RunFacts DEF Typed
  <1> QED BY <1>12, <1>13, <1>14, <1>15, <1>16, <1>17, PlanFits

\* Switching the pointer to a run that has a job.
LEMMA SwitchFits ==
    ASSUME JobInv, NEW p \in Procs, NEW ref \in Runs, Switch(p, ref)
    PROVE  JobInv'
  <1>1. proc \in [Procs -> Served] /\ proc[p] \in Served /\ Typed /\ Filed
    BY DEF JobInv, Typed
  <1>2. EngineFits(proc[p])
    BY DEF JobInv, Fits
  <1>3. /\ proc[p].pc = "idle" /\ proc[p].todo = <<>> /\ UNCHANGED <<files, ledger, nextId, crashes, fixed>>
        /\ JobOf(ref) # None
    BY DEF Switch, At
  <1>4. PICK r \in Runs : r = Resolve(ref) /\ (r = 0 \/ job[r] # None)
    BY <1>1, <1>3, ResolveFacts, JobOfFacts
  <1>5. PICK t : t = <<Pointer(r)>>
    OBVIOUS
  <1>6. t \in Seq(Writes) /\ DOMAIN t = {1} /\ t[1].file = "pointer" /\ t[1].run = r
    BY <1>5, WriteFacts
  <1>7. proc' = [proc EXCEPT ![p] = [proc[p] EXCEPT !.pc = "idle", !.todo = t]]
    BY <1>1, <1>4, <1>5 DEF Switch, Goto
  <1>8. LET e == [proc[p] EXCEPT !.pc = "idle", !.todo = t]
         IN e \in Served /\ e.op = proc[p].op /\ e.pc = "idle" /\ e.todo = t /\ e.run = proc[p].run
            /\ e.seen = proc[p].seen /\ e.state = proc[p].state /\ e.ref = proc[p].ref
    BY <1>1, <1>6 DEF Served, Pcs
  <1>9. /\ proc' \in [Procs -> Served] /\ \A q \in Procs \ {p} : proc'[q] = proc[q]
        /\ proc'[p].pc = "idle" /\ proc'[p].todo = t /\ proc'[p].run = proc[p].run /\ proc'[p].seen = proc[p].seen
        /\ proc'[p].state = proc[p].state
    BY <1>1, <1>7, <1>8
  <1>10. UNCHANGED <<ledger, job, hasLegacy, retired, nextId>> /\ UNCHANGED files
    BY <1>3 DEF files, fixed
  <1>11. Plain(proc'[p].todo) /\ TodoFits(proc[p].todo)'
    BY <1>4, <1>6, <1>9, <1>10 DEF Plain, TodoFits
  <1>12. EngineFits(proc[p])'
    BY <1>2, <1>3, <1>9, <1>10, EngineKept
  <1>13. Routed(proc[p])' /\ Leaves(proc[p])'
    BY <1>9 DEF Routed, Leaves
  <1>14. nextId \in Nat /\ nextId \in 1..NoRun /\ retired \subseteq Runs
    BY <1>1, RunFacts DEF Typed
  <1> QED BY <1>9, <1>10, <1>11, <1>12, <1>13, <1>14, PlanFits

\* A sequence with two elements more.
LEMMA TwoMore ==
    ASSUME NEW S, NEW a \in Seq(S), NEW b \in Seq(S), Len(b) = 2
    PROVE  /\ a \o b \in Seq(S) /\ Len(a \o b) = Len(a) + 2 /\ Len(a) \in Nat
           /\ \A k \in DOMAIN a : (a \o b)[k] = a[k]
           /\ (a \o b)[Len(a) + 1] = b[1] /\ (a \o b)[Len(a) + 2] = b[2]
  <1> DEFINE t == a \o b
  <1>1. t \in Seq(S) /\ Len(t) = Len(a) + Len(b)
    BY ConcatProperties, Zenon
  <1>2. \A i \in 1..Len(a) + Len(b) : t[i] = IF i <= Len(a) THEN a[i] ELSE b[i - Len(a)]
    BY ConcatProperties, Zenon
  <1>3. Len(a) \in Nat /\ DOMAIN a = 1..Len(a) /\ DOMAIN t = 1..Len(t)
    BY <1>1
  <1>4. Len(a) + 1 - Len(a) = 1 /\ Len(a) + 2 - Len(a) = 2
    BY <1>3
  <1>5. t[Len(a) + 1] = b[1] /\ t[Len(a) + 2] = b[2]
    <2>1. ASSUME NEW d \in {1, 2} PROVE t[Len(a) + d] = b[d]
      <3>1. Len(a) + d \in 1..Len(a) + Len(b) /\ ~(Len(a) + d <= Len(a)) /\ Len(a) + d - Len(a) = d
        BY <1>3
      <3>2. t[Len(a) + d] = b[(Len(a) + d) - Len(a)]
        <4>1. \A i \in 1..Len(a) + Len(b) : ~(i <= Len(a)) => t[i] = b[i - Len(a)]
          BY <1>2
        <4> QED BY <3>1, <4>1, Zenon
      <3> QED BY <3>1, <3>2
    <2> QED BY <2>1
  <1>6. \A k \in DOMAIN a : t[k] = a[k]
    BY <1>2, <1>3
  <1> QED BY <1>1, <1>3, <1>5, <1>6

\* The active run is put away and a fresh one made.
LEMMA ArchiveFits ==
    ASSUME JobInv, NEW p \in Procs, Archive(p)
    PROVE  JobInv'
  <1>1. proc \in [Procs -> Served] /\ proc[p] \in Served /\ Typed /\ Filed
    BY DEF JobInv, Typed
  <1>2. Fits(proc[p])
    BY DEF JobInv
  <1>3. /\ proc[p].pc = "archive" /\ proc[p].todo = <<>> /\ UNCHANGED <<files, ledger, ops, crashes, hasLegacy>>
        /\ nextId <= MaxRuns /\ nextId' = nextId + 1
    BY DEF Archive, At, NewId
  <1>4. nextId \in 1..NoRun /\ nextId \in Runs /\ nextId' \in 1..NoRun /\ nextId <= nextId'
    <2>1. nextId \in 1..NoRun
      BY <1>1 DEF Typed
    <2> QED BY <1>3, <2>1, RunFacts
  <1>a. PICK ref \in Runs, n \in Runs : ref = proc[p].ref /\ n = nextId
    BY <1>1, <1>4 DEF Served
  <1>5. PICK u, new : u = Update(ref, [status |-> "archived"]) /\ new = Create(n)
    OBVIOUS
  <1>6. PICK r \in Runs : r = Resolve(ref)
    BY <1>1, ResolveFacts
  <1>7. retired \subseteq retired' /\ retired' \subseteq Runs /\ (proc[p].op = "reset" => r \in retired')
    BY <1>1, <1>a, <1>6 DEF Archive, Typed
  <1>8. u \in Seq(Writes) /\ \A k \in DOMAIN u :
            LET w == u[k] IN
            /\ w.file = "job" /\ w.run = r
            /\ w.content = Fresh \/ \E j \in Metadata : Claims(j, r) /\ w.content = Merge(j, [status |-> "archived"])
    BY <1>5, <1>6, MergeFacts, UpdateFacts
  <1>9. new \in Seq(Writes) /\ Len(new) = 2 /\ new[1].file = "job" /\ new[1].run = n /\ new[1].content = Fresh
        /\ new[2].file = "pointer" /\ new[2].run = n
    BY <1>5, WriteFacts, FileFacts DEF Create
  <1>10. Gone(r)'
    <2>1. CASE proc[p].op = "reset"
      BY <1>7, <2>1 DEF Gone
    <2>2. CASE proc[p].op # "reset"
      <3>1. Gone(ref)
        BY <1>2, <1>3, <1>a, <2>2 DEF Fits, Leaves
      <3>2. Gone(r)
        BY <1>1, <1>6, <3>1, ResolveFacts DEF Gone
      <3> QED BY <1>3, <1>7, <3>2 DEF Gone, Over, Unambiguous, files
    <2> QED BY <2>1, <2>2
  <1>11. ASSUME NEW k \in DOMAIN u PROVE Claims(u[k].content, r)'
    <2>1. CASE u[k].content = Fresh
      BY <2>1, FileFacts DEF Claims
    <2>2. ASSUME NEW j \in Metadata, Claims(j, r), u[k].content = Merge(j, [status |-> "archived"])
          PROVE  Claims(u[k].content, r)'
      <3>1. u[k].content.state = j.state /\ u[k].content.status = "archived"
        BY <2>2, MergeFacts
      <3>2. j.state = "done" => Over(r)'
        BY <1>3, <2>2 DEF Claims, Over, Unambiguous, files
      <3> QED BY <1>10, <3>1, <3>2 DEF Claims
    <2> QED BY <1>8, <2>1, <2>2
  <1>12. PICK t : t = u \o new
    OBVIOUS
  <1>13. t \in Seq(Writes) /\ Len(t) = Len(u) + 2 /\ Len(u) \in Nat
         /\ (\A k \in DOMAIN u : t[k] = u[k]) /\ t[Len(u) + 1] = new[1] /\ t[Len(u) + 2] = new[2]
         /\ DOMAIN t = DOMAIN u \cup {Len(u) + 1, Len(u) + 2}
    <2>1. u \in Seq(Writes) /\ new \in Seq(Writes) /\ Len(new) = 2
      BY <1>8, <1>9
    <2>2. t \in Seq(Writes) /\ Len(t) = Len(u) + 2 /\ Len(u) \in Nat
      BY <1>12, <2>1, TwoMore, Zenon
    <2>3. ASSUME NEW k \in DOMAIN u PROVE t[k] = u[k]
      <3>1. k \in 1..Len(u) + Len(new) /\ k <= Len(u)
        BY <2>1, <2>3
      <3>2. (u \o new)[k] = IF k <= Len(u) THEN u[k] ELSE new[k - Len(u)]
        BY <2>1, <3>1, ConcatProperties, Zenon
      <3> QED BY <1>12, <3>1, <3>2
    <2>4. t[Len(u) + 1] = new[1] /\ t[Len(u) + 2] = new[2]
      BY <1>12, <2>1, TwoMore, Zenon
    <2>5. DOMAIN t = DOMAIN u \cup {Len(u) + 1, Len(u) + 2}
      BY <2>1, <2>2
    <2> QED BY <2>2, <2>3, <2>4, <2>5
  <1>14. Plain(t)
    <2>1. ASSUME NEW k \in DOMAIN t PROVE t[k].file \in {"job", "pointer"}
      <3>1. CASE k \in DOMAIN u
        BY <1>8, <1>13, <3>1
      <3>2. CASE k \in {Len(u) + 1, Len(u) + 2}
        BY <1>9, <1>13, <3>2
      <3> QED BY <1>13, <2>1, <3>1, <3>2
    <2> QED BY <2>1 DEF Plain
  <1>15. TodoFits(t)'
    <2> SUFFICES ASSUME NEW k \in DOMAIN t
                 PROVE  /\ t[k].file = "job" => Claims(t[k].content, t[k].run)'
                        /\ t[k].file = "pointer" => Before(t, k, "job", t[k].run)
      BY <1>14 DEF TodoFits, Plain
    <2>1. CASE k \in DOMAIN u
      BY <1>8, <1>11, <1>13, <2>1
    <2>2. CASE k = Len(u) + 1
      <3>1. Claims(Fresh, n)'
        BY FileFacts DEF Claims
      <3>2. t[k].file = "job" /\ t[k].content = Fresh /\ t[k].run = n
        BY <1>9, <1>13, <2>2
      <3> QED BY <3>1, <3>2
    <2>3. CASE k = Len(u) + 2
      <3>1. t[k].file = "pointer" /\ t[k].run = n
        BY <1>9, <1>13, <2>3
      <3>2. Len(u) + 1 \in DOMAIN t /\ Len(u) + 1 < k /\ t[Len(u) + 1].file = "job" /\ t[Len(u) + 1].run = n
        BY <1>9, <1>13, <2>3
      <3>3. Before(t, k, "job", n)
        BY <3>2 DEF Before
      <3> QED BY <3>1, <3>3
    <2> QED BY <1>13, <2>1, <2>2, <2>3
  <1>16. PICK pc : pc = After(proc[p].op, "archive")
    OBVIOUS
  <1>17. pc \in {"idle", "existing", "migrate"} /\ (pc = "migrate" => proc[p].op = "enter")
    <2>1. proc[p].op \in {"run", "enter", "reset"}
      BY <1>2, <1>3 DEF Fits, Routed
    <2>2. After("run", "archive") = "existing" /\ After("enter", "archive") = "migrate" /\ After("reset", "archive") = "idle"
      BY DEF After
    <2> QED BY <1>16, <2>1, <2>2
  <1>18. proc' = [proc EXCEPT ![p] = [proc[p] EXCEPT !.todo = t, !.ref = n, !.pc = pc]]
    BY <1>1, <1>a, <1>5, <1>12, <1>16 DEF Archive
  <1>19. LET e == [proc[p] EXCEPT !.todo = t, !.ref = n, !.pc = pc]
         IN e \in Served /\ e.op = proc[p].op /\ e.pc = pc /\ e.todo = t /\ e.run = proc[p].run
            /\ e.seen = proc[p].seen /\ e.state = proc[p].state /\ e.ref = n
    BY <1>1, <1>13, <1>17 DEF Served, Pcs
  <1>20. /\ proc' \in [Procs -> Served] /\ \A q \in Procs \ {p} : proc'[q] = proc[q]
         /\ proc'[p].op = proc[p].op /\ proc'[p].pc = pc /\ proc'[p].todo = t /\ proc'[p].run = proc[p].run
         /\ proc'[p].seen = proc[p].seen /\ proc'[p].state = proc[p].state
    BY <1>1, <1>18, <1>19
  <1>21. UNCHANGED <<ledger, job, hasLegacy>> /\ UNCHANGED files
    BY <1>3 DEF files
  <1>22. EngineFits(proc[p])'
    BY <1>2, <1>3, <1>17, <1>20, <1>21, EngineKept DEF Fits
  <1>23. Routed(proc[p])' /\ Leaves(proc[p])'
    BY <1>17, <1>20 DEF Routed, Leaves
  <1>24. Plain(proc'[p].todo) /\ TodoFits(proc[p].todo)'
    BY <1>14, <1>15, <1>20
  <1> QED BY <1>4, <1>7, <1>20, <1>21, <1>22, <1>23, <1>24, PlanFits

\* The run to open is found, or given a name and a job.
LEMMA ExistingFits ==
    ASSUME JobInv, NEW p \in Procs, Existing(p)
    PROVE  JobInv'
  <1>1. proc \in [Procs -> Served] /\ proc[p] \in Served /\ Typed /\ Filed
    BY DEF JobInv, Typed
  <1>3. /\ proc[p].pc = "existing" /\ proc[p].todo = <<>> /\ UNCHANGED <<files, ledger, ops, crashes, fixed>>
    BY DEF Existing, At
  <1>4. PICK ref \in Runs : ref = proc[p].ref
    BY <1>1 DEF Served
  <1> DEFINE known == Resolve(ref) # 0 \/ JobOf(0) # None
  <1>5. PICK r : r = IF known THEN Resolve(ref) ELSE nextId
    OBVIOUS
  <1>6. r \in Runs /\ nextId' \in 1..NoRun /\ nextId <= nextId'
    <2>1. nextId \in 1..NoRun /\ Resolve(ref) \in Runs
      BY <1>1, ResolveFacts DEF Typed
    <2>2. CASE known
      <3>1. nextId' = nextId /\ r = Resolve(ref)
        BY <1>4, <1>5, <2>2 DEF Existing
      <3> QED BY <2>1, <3>1, RunFacts
    <2>3. CASE ~known
      <3>1. nextId <= MaxRuns /\ nextId' = nextId + 1 /\ r = nextId
        BY <1>4, <1>5, <2>3 DEF Existing, NewId
      <3> QED BY <2>1, <3>1, RunFacts
    <2> QED BY <2>2, <2>3
  <1>7. PICK active \in BOOLEAN : active = (proc[p].op # "enter" \/ Resolve(ActiveRef) = r \/ ActiveRef = ref)
    OBVIOUS
  <1>8. PICK t : t = IF JobOf(r) # None THEN <<>> ELSE IF active THEN Create(r) ELSE <<Job(r, Fresh)>>
    OBVIOUS
  <1>9. proc' = [proc EXCEPT ![p] = [proc[p] EXCEPT !.run = r, !.pc = "boot", !.todo = t]]
    BY <1>1, <1>4, <1>5, <1>7, <1>8 DEF Existing
  <1>10. /\ Job(r, Fresh) \in Writes /\ Pointer(r) \in Writes
         /\ Job(r, Fresh).file = "job" /\ Job(r, Fresh).run = r /\ Job(r, Fresh).content = Fresh
         /\ Pointer(r).file = "pointer" /\ Pointer(r).run = r
    BY <1>6, WriteFacts, FileFacts
  <1>11. \/ t = <<>> /\ JobOf(r) # None
         \/ t = <<Job(r, Fresh)>>
         \/ t = <<Job(r, Fresh), Pointer(r)>>
    BY <1>8 DEF Create
  <1>12. \/ JobOf(r) # None /\ DOMAIN t = {}
         \/ 1 \in DOMAIN t /\ t[1] = Job(r, Fresh) /\ \A k \in DOMAIN t : k = 1 \/ (k = 2 /\ t[k] = Pointer(r))
    BY <1>11
  <1>13. t \in Seq(Writes)
    <2>1. <<>> \in Seq(Writes) /\ <<Job(r, Fresh)>> \in Seq(Writes) /\ <<Job(r, Fresh), Pointer(r)>> \in Seq(Writes)
      BY <1>10
    <2> QED BY <1>11, <2>1
  <1>14. LET e == [proc[p] EXCEPT !.run = r, !.pc = "boot", !.todo = t]
         IN e \in Served /\ e.op = proc[p].op /\ e.pc = "boot" /\ e.todo = t /\ e.run = r
            /\ e.seen = proc[p].seen /\ e.state = proc[p].state /\ e.ref = proc[p].ref
    BY <1>1, <1>6, <1>13 DEF Served, Pcs
  <1>15. /\ proc' \in [Procs -> Served] /\ \A q \in Procs \ {p} : proc'[q] = proc[q]
         /\ proc'[p].pc = "boot" /\ proc'[p].todo = t /\ proc'[p].run = r
    BY <1>1, <1>9, <1>14
  <1>16. UNCHANGED <<ledger, job, hasLegacy, retired>> /\ UNCHANGED files
    BY <1>3 DEF files, fixed
  <1>17. Claims(Fresh, r)'
    BY FileFacts DEF Claims
  <1>18. Plain(t) /\ TodoFits(t)'
    <2>1. ASSUME NEW k \in DOMAIN t
          PROVE  \/ t[k].file = "job" /\ t[k].content = Fresh /\ t[k].run = r
                 \/ t[k].file = "pointer" /\ t[k].run = r /\ Before(t, k, "job", r)
      <3>1. 1 \in DOMAIN t /\ t[1] = Job(r, Fresh) /\ (k = 1 \/ (k = 2 /\ t[k] = Pointer(r)))
        BY <1>12, <2>1
      <3>2. CASE k = 1
        BY <1>10, <3>1, <3>2
      <3>3. CASE k = 2 /\ t[k] = Pointer(r)
        BY <1>10, <3>1, <3>3 DEF Before
      <3> QED BY <3>1, <3>2, <3>3
    <2>2. Plain(t)
      BY <2>1 DEF Plain
    <2>3. TodoFits(t)'
      BY <1>17, <2>1 DEF TodoFits
    <2> QED BY <2>2, <2>3
  <1>19. r # 0 => job[r] # None \/ \E k \in DOMAIN t : t[k].file = "job" /\ t[k].run = r
    <2>1. CASE JobOf(r) # None
      <3>1. r # 0 => Resolve(r) = r
        BY DEF Resolve
      <3> QED BY <1>6, <2>1, <3>1, JobOfFacts
    <2>2. CASE JobOf(r) = None
      BY <1>10, <1>12, <2>2
    <2> QED BY <2>1, <2>2
  <1>20. EngineFits(proc[p])'
    BY <1>6, <1>15, <1>16, <1>19 DEF EngineFits
  <1>21. Routed(proc[p])' /\ Leaves(proc[p])'
    BY <1>15 DEF Routed, Leaves
  <1>22. Plain(proc'[p].todo) /\ TodoFits(proc[p].todo)'
    BY <1>15, <1>18
  <1>23. retired \subseteq retired' /\ retired' \subseteq Runs
    BY <1>1, <1>16 DEF Typed
  <1> QED BY <1>6, <1>15, <1>16, <1>20, <1>21, <1>22, <1>23, PlanFits

\* A legacy run is to be copied under a new name, before anything says that it was.
LEMMA MigrateFits ==
    ASSUME JobInv, NEW p \in Procs, Migrate(p)
    PROVE  JobInv'
  <1>1. proc \in [Procs -> Served] /\ proc[p] \in Served /\ Typed /\ Filed /\ LedgerFits /\ Apart
    BY DEF JobInv, Typed
  <1>2. Fits(proc[p])
    BY DEF JobInv
  <1>3. /\ proc[p].pc = "migrate" /\ proc[p].todo = <<>> /\ UNCHANGED <<files, ledger, ops, crashes, fixed>>
    BY DEF Migrate, At
  <1>4. PICK pc : pc = After(proc[p].op, "migrate")
    OBVIOUS
  <1>5. pc \in {"active", "existing"} /\ (pc = "active" => proc[p].op \in {"open", "run"})
    <2>1. proc[p].op \in {"open", "run", "enter"}
      BY <1>2, <1>3 DEF Fits, Routed
    <2>2. After("open", "migrate") = "active" /\ After("run", "migrate") = "active" /\ After("enter", "migrate") = "existing"
      BY DEF After
    <2> QED BY <1>4, <2>1, <2>2
  <1>6. UNCHANGED <<ledger, job, copied, pointer, mapping, hasLegacy, retired>> /\ UNCHANGED files
    BY <1>3 DEF files, fixed
  <1>7. nextId \in 1..NoRun
    BY <1>1 DEF Typed
  <1>8. ASSUME NEW t \in Seq(Writes), Goto(p, pc, t)
        PROVE  /\ proc' \in [Procs -> Served] /\ \A q \in Procs \ {p} : proc'[q] = proc[q]
               /\ proc'[p].todo = t /\ Routed(proc[p])' /\ EngineFits(proc[p])' /\ Leaves(proc[p])'
    <2>1. proc' = [proc EXCEPT ![p] = [proc[p] EXCEPT !.pc = pc, !.todo = t]]
      BY <1>1, <1>8 DEF Goto
    <2>2. LET e == [proc[p] EXCEPT !.pc = pc, !.todo = t]
          IN e \in Served /\ e.op = proc[p].op /\ e.pc = pc /\ e.todo = t /\ e.run = proc[p].run
             /\ e.seen = proc[p].seen /\ e.state = proc[p].state /\ e.ref = proc[p].ref
      BY <1>1, <1>5 DEF Served, Pcs
    <2>3. /\ proc' \in [Procs -> Served] /\ \A q \in Procs \ {p} : proc'[q] = proc[q]
          /\ proc'[p].op = proc[p].op /\ proc'[p].pc = pc /\ proc'[p].todo = t /\ proc'[p].run = proc[p].run
          /\ proc'[p].seen = proc[p].seen /\ proc'[p].state = proc[p].state
      BY <1>1, <2>1, <2>2
    <2>4. EngineFits(proc[p])'
      BY <1>2, <1>3, <1>5, <1>6, <2>3, EngineKept DEF Fits
    <2>5. Routed(proc[p])' /\ Leaves(proc[p])'
      BY <1>5, <2>3 DEF Routed, Leaves
    <2> QED BY <2>3, <2>4, <2>5
  <1>9. CASE ~(hasLegacy /\ mapping \notin Runs)
    <2>1. Goto(p, pc, <<>>) /\ nextId' = nextId /\ <<>> \in Seq(Writes)
      BY <1>4, <1>9 DEF Migrate
    <2> QED BY <1>6, <1>8, <2>1, RestFits
  <1>10. CASE hasLegacy /\ mapping \notin Runs
    <2>1. nextId <= MaxRuns /\ nextId' = nextId + 1 /\ Goto(p, pc, Migration(nextId))
      BY <1>4, <1>10 DEF Migrate, NewId
    <2>a. PICK n \in Runs : n = nextId
      BY <1>7, <2>1, RunFacts
    <2>b. PICK t : t = Migration(n)
      OBVIOUS
    <2>2. n = nextId /\ t = Migration(n)
      BY <2>a, <2>b
    <2>3. n \in 1..(nextId' - 1) /\ nextId' \in 1..NoRun /\ nextId <= nextId' /\ n \notin 1..(nextId - 1)
      BY <1>7, <2>1, <2>2, RunFacts
    <2>4. /\ Artifacts(n) \in Writes /\ Artifacts(n).file = "copied" /\ Artifacts(n).run = n
          /\ Job(n, Fresh) \in Writes /\ Job(n, Fresh).file = "job" /\ Job(n, Fresh).run = n /\ Job(n, Fresh).content = Fresh
          /\ Mapping(n) \in Writes /\ Mapping(n).file = "mapping" /\ Mapping(n).run = n
      BY WriteFacts, FileFacts
    <2>5. t \in Seq(Writes) /\ DOMAIN t = {1, 2, 3} /\ t[1] = Artifacts(n) /\ t[2] = Job(n, Fresh) /\ t[3] = Mapping(n)
      BY <2>2, <2>4 DEF Migration
    <2>6. /\ proc' \in [Procs -> Served] /\ \A q \in Procs \ {p} : proc'[q] = proc[q]
          /\ proc'[p].todo = t /\ Routed(proc[p])' /\ EngineFits(proc[p])' /\ Leaves(proc[p])'
      BY <1>8, <2>1, <2>2, <2>5
    <2>7. Typed'
      BY <1>1, <1>6, <2>3, <2>6 DEF Typed
    <2>8. Grows
      BY <1>6, <2>3 DEF Grows, Advances
    <2>9. TodoFits(t)'
      <3>1. Claims(Fresh, n)'
        BY FileFacts DEF Claims
      <3>2. Before(t, 3, "copied", n) /\ Before(t, 3, "job", n)
        BY <2>4, <2>5 DEF Before
      <3>3. hasLegacy' /\ mapping' # n
        BY <1>6, <1>10
      <3> QED BY <2>3, <2>4, <2>5, <3>1, <3>2, <3>3 DEF TodoFits
    <2>10. Apart'
      <3>1. ASSUME NEW q \in Procs \ {p}, NEW k \in DOMAIN proc[q].todo, proc[q].todo[k].file \in {"copied", "mapping"}
            PROVE  proc[q].todo[k].run # n
        <4>1. TodoFits(proc[q].todo)
          BY DEF JobInv, Fits
        <4>2. proc[q].todo[k].run \in 1..(nextId - 1)
          BY <3>1, <4>1 DEF TodoFits
        <4> QED BY <2>3, <4>2
      <3>2. \A k \in DOMAIN t : t[k].run = n /\ (t[k].file = "copied" => k = 1)
        BY <2>4, <2>5
      <3> SUFFICES ASSUME NEW x \in Procs, NEW y \in Procs, NEW i \in DOMAIN proc'[x].todo, NEW k \in DOMAIN proc'[y].todo,
                          proc'[x].todo[i].file = "copied", proc'[y].todo[k].file \in {"copied", "mapping"},
                          proc'[x].todo[i].run = proc'[y].todo[k].run
                   PROVE  x = y /\ i <= k
        BY DEF Apart
      <3>3. CASE x = p /\ y = p
        <4>1. proc'[x].todo = t /\ proc'[y].todo = t
          BY <2>6, <3>3
        <4>2. i \in DOMAIN t /\ k \in DOMAIN t /\ t[i].file = "copied"
          BY <4>1
        <4>3. i = 1 /\ k \in {1, 2, 3}
          BY <2>5, <3>2, <4>2
        <4> QED BY <3>3, <4>3
      <3>4. CASE x # p /\ y # p
        BY <1>1, <2>6, <3>4 DEF Apart
      <3>5. CASE x = p /\ y # p
        <4>1. /\ k \in DOMAIN proc[y].todo /\ proc[y].todo[k].file \in {"copied", "mapping"}
              /\ proc[y].todo[k].run = proc'[x].todo[i].run
          BY <2>6, <3>5
        <4>a. proc'[x].todo = t
          BY <2>6, <3>5
        <4>2. i \in DOMAIN t /\ proc'[x].todo[i].run = n
          BY <3>2, <4>a
        <4> QED BY <3>1, <3>5, <4>1, <4>2
      <3>6. CASE x # p /\ y = p
        <4>1. /\ i \in DOMAIN proc[x].todo /\ proc[x].todo[i].file \in {"copied", "mapping"}
              /\ proc[x].todo[i].run = proc'[y].todo[k].run
          BY <2>6, <3>6
        <4>a. proc'[y].todo = t
          BY <2>6, <3>6
        <4>2. k \in DOMAIN t /\ proc'[y].todo[k].run = n
          BY <3>2, <4>a
        <4> QED BY <3>1, <3>6, <4>1, <4>2
      <3> QED BY <3>3, <3>4, <3>5, <3>6
    <2>11. LedgerFits'
      BY <1>1, <1>6 DEF LedgerFits
    <2>12. Fits(proc[p])'
      BY <2>6, <2>9 DEF Fits
    <2> QED BY <1>6, <2>6, <2>7, <2>8, <2>10, <2>11, <2>12, StepOf
  <1> QED BY <1>9, <1>10

-----------------------------------------------------------------------------
(* Steps that append to a ledger *)

\* One event more, of an engine whose run has a job on file.
LEMMA AppendFits ==
    ASSUME JobInv, NEW p \in Procs, NEW r \in Runs, NEW finished \in BOOLEAN, NEW inits \in Nat,
           inits = ledger[r].inits \/ inits = ledger[r].inits + 1, inits > 0,
           ledger' \in [Runs -> [events : Nat, finished : BOOLEAN, inits : Nat]],
           \A x \in Runs \ {r} : ledger'[x] = ledger[x],
           ledger'[r].events = ledger[r].events + 1, ledger'[r].finished = finished, ledger'[r].inits = inits,
           ledger[r].finished => inits > 1,
           r # 0 => job[r] # None,
           proc' \in [Procs -> Served], \A q \in Procs \ {p} : proc'[q] = proc[q],
           proc'[p].todo = <<>>, proc'[p].pc \in {"sync", "settle"}, proc'[p].run = r,
           proc'[p].seen = ledger[r].events + 1, (proc'[p].state = "done") <=> finished,
           UNCHANGED <<files, hasLegacy, retired, nextId>>
    PROVE  JobInv'
  <1>1. Typed /\ LedgerFits /\ Apart /\ UNCHANGED <<job, copied, pointer, mapping>>
    BY DEF JobInv, files
  <1>2. ledger \in [Runs -> [events : Nat, finished : BOOLEAN, inits : Nat]]
    BY <1>1 DEF Typed
  <1>3. PICK l : l = ledger'[r]
    OBVIOUS
  <1>4. l \in [events : Nat, finished : BOOLEAN, inits : Nat] /\ ledger[r] \in [events : Nat, finished : BOOLEAN, inits : Nat]
        /\ l.events = ledger[r].events + 1 /\ l.finished = finished /\ l.inits = inits
    BY <1>2, <1>3
  <1>6. /\ ledger' \in [Runs -> [events : Nat, finished : BOOLEAN, inits : Nat]]
        /\ ledger'[r] = l /\ \A x \in Runs \ {r} : ledger'[x] = ledger[x]
    BY <1>3
  <1>7. Typed'
    BY <1>1, <1>6 DEF Typed
  <1>8. Grows
    <2>1. nextId <= nextId'
      BY <1>1, RunFacts DEF Typed
    <2>2. Advances(r)
      BY <1>4, <1>6 DEF Advances
    <2>3. \A x \in Runs : Advances(x)
      BY <1>6, <2>2 DEF Advances
    <2> QED BY <1>1, <2>1, <2>3 DEF Grows
  <1>9. LedgerFits'
    BY <1>1, <1>4, <1>6 DEF LedgerFits
  <1>10. Apart'
    <2>1. Plain(proc'[p].todo)
      BY DEF Plain
    <2> QED BY <1>1, <2>1, PlainApart
  <1>11. Fits(proc[p])'
    <2>1. TodoFits(proc[p].todo)' /\ Routed(proc[p])' /\ Leaves(proc[p])'
      BY DEF TodoFits, Routed, Leaves
    <2>2. proc'[p].state \in {"live", "done"}
      BY DEF Served
    <2>3. EngineFits(proc[p])'
      BY <1>1, <1>4, <1>6, <2>2 DEF EngineFits
    <2> QED BY <2>1, <2>3 DEF Fits
  <1> QED BY <1>1, <1>7, <1>8, <1>9, <1>10, <1>11, StepOf

\* A ledger that was read empty is initialised.
LEMMA InitialiseFits ==
    ASSUME JobInv, NEW p \in Procs, Initialise(p)
    PROVE  JobInv'
  <1>1. proc \in [Procs -> Served] /\ proc[p] \in Served /\ Typed /\ LedgerFits
    BY DEF JobInv, Typed
  <1>2. EngineFits(proc[p])
    BY DEF JobInv, Fits
  <1>3. proc[p].pc = "init" /\ proc[p].todo = <<>> /\ UNCHANGED <<files, hasLegacy, retired, nextId>>
    BY DEF Initialise, At, bounds, fixed
  <1>4. PICK r \in Runs : r = proc[p].run
    BY <1>2, <1>3 DEF EngineFits
  <1>5. ledger[r].events \in Nat /\ ledger[r].inits \in Nat /\ ledger[r].finished \in BOOLEAN
    BY <1>1 DEF Typed
  <1>6. PICK n \in Nat : n = ledger[r].events + 1
    BY <1>5, SMTT(30)
  <1>15. PICK inits \in Nat : inits = ledger[r].inits + 1
    BY <1>5, SMTT(30)
  <1>7. proc' = [proc EXCEPT ![p] = [proc[p] EXCEPT !.pc = "sync", !.seen = n]]
    BY <1>1, <1>4, <1>6 DEF Initialise
  <1>14. /\ ledger' \in [Runs -> [events : Nat, finished : BOOLEAN, inits : Nat]]
         /\ \A x \in Runs \ {r} : ledger'[x] = ledger[x]
         /\ ledger'[r].events = ledger[r].events + 1 /\ ledger'[r].finished = FALSE /\ ledger'[r].inits = inits
    <2>1. ledger' = [ledger EXCEPT ![r] = [events |-> n, finished |-> FALSE, inits |-> inits]]
      BY <1>4, <1>6, <1>15 DEF Initialise
    <2> QED BY <1>1, <1>6, <1>15, <2>1 DEF Typed
  <1>8. LET e == [proc[p] EXCEPT !.pc = "sync", !.seen = n]
        IN e \in Served /\ e.pc = "sync" /\ e.todo = proc[p].todo /\ e.run = proc[p].run
           /\ e.seen = n /\ e.state = proc[p].state
    BY <1>1 DEF Served, Pcs
  <1>9. /\ proc' \in [Procs -> Served] /\ \A q \in Procs \ {p} : proc'[q] = proc[q]
        /\ proc'[p].pc = "sync" /\ proc'[p].todo = <<>> /\ proc'[p].run = r
        /\ proc'[p].seen = ledger[r].events + 1 /\ proc'[p].state = proc[p].state
    BY <1>1, <1>3, <1>4, <1>6, <1>7, <1>8
  <1>10. ledger[r].finished => inits > 1
    BY <1>1, <1>5, <1>6, <1>15 DEF LedgerFits
  <1>11. proc[p].state = "live" /\ (r # 0 => job[r] # None)
    BY <1>2, <1>3, <1>4 DEF EngineFits
  <1>12. (proc'[p].state = "done") <=> FALSE
    BY <1>9, <1>11
  <1>13. inits > 0
    BY <1>5, <1>15
  <1> QED BY <1>3, <1>6, <1>15, <1>9, <1>10, <1>11, <1>12, <1>13, <1>14, AppendFits

\* A transition of an engine that has seen all.
LEMMA CommitFits ==
    ASSUME JobInv, NEW p \in Procs, Commit(p)
    PROVE  JobInv'
  <1>1. proc \in [Procs -> Served] /\ proc[p] \in Served /\ Typed /\ LedgerFits
    BY DEF JobInv, Typed
  <1>2. EngineFits(proc[p])
    BY DEF JobInv, Fits
  <1>3. /\ proc[p].pc = "idle" /\ proc[p].todo = <<>> /\ proc[p].run \in Runs /\ proc[p].state = "live"
        /\ UNCHANGED <<files, hasLegacy, retired, nextId>> /\ proc[p].seen = ledger[proc[p].run].events
    BY DEF Commit, Commit_Stale, At, fixed
  <1>4. PICK r \in Runs : r = proc[p].run
    BY <1>3
  <1>5. ledger[r] \in [events : Nat, finished : BOOLEAN, inits : Nat]
    BY <1>1 DEF Typed
  <1>6. PICK last \in BOOLEAN :
            /\ ledger' = [ledger EXCEPT ![r].events = @ + 1, ![r].finished = last]
            /\ proc' = [proc EXCEPT ![p].pc = "settle", ![p].seen = @ + 1, ![p].state = IF last THEN "done" ELSE "live"]
    BY <1>4 DEF Commit, Commit_Stale
  <1>7. PICK n \in Nat, inits \in Nat : n = ledger[r].events + 1 /\ inits = ledger[r].inits
    BY <1>5
  <1>8. PICK state \in {"live", "done"} : state = IF last THEN "done" ELSE "live"
    OBVIOUS
  <1>9. /\ ledger' \in [Runs -> [events : Nat, finished : BOOLEAN, inits : Nat]]
        /\ \A x \in Runs \ {r} : ledger'[x] = ledger[x]
        /\ ledger'[r].events = ledger[r].events + 1 /\ ledger'[r].finished = last /\ ledger'[r].inits = inits
    <2>1. PICK l : l = ledger[r]
      OBVIOUS
    <2>2. LET m == [l EXCEPT !.events = n, !.finished = last]
          IN  m \in [events : Nat, finished : BOOLEAN, inits : Nat] /\ m.events = n /\ m.finished = last /\ m.inits = l.inits
      BY <1>5, <2>1
    <2>3. ledger' = [ledger EXCEPT ![r] = [l EXCEPT !.events = n, !.finished = last]]
      BY <1>1, <1>6, <1>7, <2>1 DEF Typed
    <2> QED BY <1>1, <1>7, <2>1, <2>2, <2>3 DEF Typed
  <1>10. proc' = [proc EXCEPT ![p] = [proc[p] EXCEPT !.pc = "settle", !.seen = n, !.state = state]]
    BY <1>1, <1>3, <1>4, <1>6, <1>7, <1>8
  <1>11. LET e == [proc[p] EXCEPT !.pc = "settle", !.seen = n, !.state = state]
         IN e \in Served /\ e.pc = "settle" /\ e.todo = proc[p].todo /\ e.run = proc[p].run
            /\ e.seen = n /\ e.state = state
    BY <1>1 DEF Served, Pcs
  <1>12. /\ proc' \in [Procs -> Served] /\ \A q \in Procs \ {p} : proc'[q] = proc[q]
         /\ proc'[p].pc = "settle" /\ proc'[p].todo = <<>> /\ proc'[p].run = r
         /\ proc'[p].seen = ledger[r].events + 1 /\ proc'[p].state = state
    BY <1>1, <1>3, <1>4, <1>7, <1>10, <1>11
  <1>13. /\ r # 0 => job[r] # None
         /\ ledger[r].events > 0
         /\ ledger[r].finished => inits > 1
    BY <1>2, <1>3, <1>4, <1>5, <1>7 DEF EngineFits
  <1>14. inits > 0
    BY <1>1, <1>5, <1>7, <1>13 DEF LedgerFits
  <1>15. (proc'[p].state = "done") <=> last
    BY <1>8, <1>12
  <1> QED BY <1>3, <1>7, <1>9, <1>12, <1>13, <1>14, <1>15, AppendFits

-----------------------------------------------------------------------------
(* Writing *)

\* One half of a write: a file is emptied, or filled with what it is to hold.
LEMMA WriteFits ==
    ASSUME JobInv, NEW p \in Procs, Write(p)
    PROVE  JobInv'
  <1>1. proc \in [Procs -> Served] /\ proc[p] \in Served /\ Typed /\ Filed /\ LedgerFits /\ Apart
    BY DEF JobInv, Typed
  <1>2. Fits(proc[p]) /\ UNCHANGED <<ledger, hasLegacy, retired, nextId>>
    BY DEF JobInv, Write, bounds, fixed
  <1>3. PICK t \in Seq(Writes) : t = proc[p].todo
    BY <1>1 DEF Served
  <1>4. t # <<>>
    BY <1>3 DEF Write
  <1>5. PICK torn \in BOOLEAN : torn = ~proc[p].torn
    OBVIOUS
  <1>6. PICK w \in Writes : w = Head(t) /\ w = t[1]
    BY <1>4
  <1>7. /\ w.file \in {"job", "copied", "pointer", "mapping"} /\ w.run \in Runs
        /\ w.file = "job" => w.content \in Metadata
        /\ w.file = "copied" => w.content = Whole
    BY WriteFacts
  <1>8. PICK u : u = IF torn THEN t ELSE Tail(t)
    OBVIOUS
  <1>9. PICK d \in {0, 1} : d = IF torn THEN 0 ELSE 1
    OBVIOUS
  \* What is left to write.
  <1>10. /\ u \in Seq(Writes) /\ DOMAIN t = 1..Len(t) /\ Len(t) \in Nat /\ 1 \in DOMAIN t /\ DOMAIN u = 1..(Len(t) - d)
         /\ \A k \in DOMAIN u : u[k] = t[k + d]
    <2>1. CASE torn
      BY <1>4, <1>8, <1>9, <2>1
    <2>2. CASE ~torn
      BY <1>4, <1>8, <1>9, <2>2
    <2> QED BY <2>1, <2>2
  <1>11. \A k \in DOMAIN u : k \in Nat /\ k >= 1 /\ k + d \in DOMAIN t
    BY <1>10
  <1>12. ASSUME NEW i \in DOMAIN t, ~(i = 1 /\ ~torn)
         PROVE  i - d \in DOMAIN u /\ u[i - d] = t[i]
    <2>1. i - d \in DOMAIN u /\ (i - d) + d = i
      BY <1>9, <1>10, <1>12
    <2> QED BY <1>10, <2>1
  <1>13. ASSUME NEW k \in DOMAIN u, NEW f, NEW r, Before(t, k + d, f, r)
         PROVE  Before(u, k, f, r) \/ (~torn /\ w.file = f /\ w.run = r)
    <2>1. PICK i \in DOMAIN t : i < k + d /\ t[i].file = f /\ t[i].run = r
      BY <1>13 DEF Before
    <2>2. CASE i = 1 /\ ~torn
      BY <1>6, <2>1, <2>2
    <2>3. CASE ~(i = 1 /\ ~torn)
      <3>1. i - d \in DOMAIN u /\ u[i - d] = t[i]
        BY <1>12, <2>3
      <3>2. i - d < k
        BY <1>9, <1>10, <1>11, <2>1
      <3> QED BY <2>1, <3>1, <3>2 DEF Before
    <2> QED BY <2>2, <2>3
  <1>14. proc' = [proc EXCEPT ![p] = [proc[p] EXCEPT !.torn = torn, !.todo = u]]
    BY <1>1, <1>3, <1>5, <1>8 DEF Write
  <1>15. LET e == [proc[p] EXCEPT !.torn = torn, !.todo = u]
         IN e \in Served /\ e.op = proc[p].op /\ e.pc = proc[p].pc /\ e.todo = u /\ e.run = proc[p].run
            /\ e.seen = proc[p].seen /\ e.state = proc[p].state /\ e.ref = proc[p].ref
    BY <1>1, <1>10 DEF Served
  <1>16. /\ proc' \in [Procs -> Served] /\ \A q \in Procs \ {p} : proc'[q] = proc[q]
         /\ proc'[p].op = proc[p].op /\ proc'[p].pc = proc[p].pc /\ proc'[p].todo = u /\ proc'[p].run = proc[p].run
         /\ proc'[p].seen = proc[p].seen /\ proc'[p].state = proc[p].state /\ proc'[p].ref = proc[p].ref
    BY <1>1, <1>14, <1>15
  \* What is in the files.
  <1>17. /\ job' = IF w.file = "job" THEN [job EXCEPT ![w.run] = IF torn THEN Torn ELSE w.content] ELSE job
         /\ copied' = IF w.file = "copied" THEN [copied EXCEPT ![w.run] = IF torn THEN Torn ELSE w.content] ELSE copied
         /\ pointer' = IF w.file = "pointer" THEN IF torn THEN Empty ELSE w.run ELSE pointer
         /\ mapping' = IF w.file = "mapping" THEN IF torn THEN Empty ELSE w.run ELSE mapping
    BY <1>3, <1>5, <1>6 DEF Write
  <1>18. /\ job' \in [Runs -> Metadata \cup {None, Torn}]
         /\ \A r \in Runs : job'[r] = job[r] \/ (r = w.run /\ w.file = "job" /\ job'[r] \in {Torn, w.content})
    BY <1>1, <1>7, <1>17 DEF Typed
  <1>19. /\ copied' \in [Runs -> {None, Torn, Whole}]
         /\ \A r \in Runs : copied'[r] = IF w.file = "copied" /\ r = w.run THEN (IF torn THEN Torn ELSE Whole) ELSE copied[r]
    BY <1>1, <1>7, <1>17 DEF Typed
  <1>20. /\ pointer' \in Runs \cup {NoName, Empty}
         /\ pointer' = pointer \/ pointer' = Empty \/ (pointer' = w.run /\ w.file = "pointer")
    BY <1>1, <1>7, <1>17 DEF Typed
  <1>21. /\ mapping' \in Runs \cup {NoName, Empty}
         /\ mapping' = mapping \/ mapping' = Empty \/ (mapping' = w.run /\ w.file = "mapping" /\ ~torn)
    BY <1>1, <1>7, <1>17 DEF Typed
  <1>22. Typed'
    BY <1>1, <1>2, <1>16, <1>18, <1>19, <1>20, <1>21 DEF Typed
  <1>23. (\A r \in Runs : job[r] # None => job'[r] # None) /\ (\A r \in Runs : copied[r] # None => copied'[r] # None)
    BY <1>7, <1>18, <1>19, FileFacts
  <1>24. ~torn /\ w.file = "job" => job'[w.run] # None
    BY <1>1, <1>7, <1>17, FileFacts DEF Typed
  <1>25. Grows
    <2>1. nextId <= nextId'
      BY <1>1, <1>2, RunFacts DEF Typed
    <2> QED BY <1>2, <1>23, <2>1 DEF Grows, Advances
  \* What was right of the first write and of each to come.
  <1>26. TodoFits(t)
    BY <1>2, <1>3 DEF Fits
  <1>27. ~Before(t, 1, "job", w.run) /\ ~Before(t, 1, "copied", w.run)
    BY <1>10 DEF Before
  <1>28. /\ w.file = "job" => Claims(w.content, w.run)
         /\ w.file = "pointer" => w.run = 0 \/ job[w.run] # None
         /\ w.file = "copied" => mapping # w.run
         /\ w.file = "mapping" => hasLegacy /\ w.run \in 1..(nextId - 1) /\ copied[w.run] = Whole /\ job[w.run] # None
    BY <1>6, <1>10, <1>26, <1>27 DEF TodoFits
  <1>29. ASSUME NEW q \in Procs \ {p}, NEW k \in DOMAIN proc[q].todo, NEW x, x = proc[q].todo[k]
         PROVE  /\ x.file = "copied" => mapping' # x.run
                /\ x.file = "mapping" /\ copied[x.run] = Whole => copied'[x.run] = Whole
    <2>1. TodoFits(proc[q].todo) /\ x \in Writes
      BY <1>1, <1>29 DEF JobInv, Fits, Served
    <2>2. x.run \in Runs
      BY <2>1, WriteFacts
    <2>3. x.file = "copied" => mapping # x.run
      BY <1>29, <2>1 DEF TodoFits
    <2>4. x.file = "copied" /\ w.file = "mapping" => x.run # w.run
      BY <1>1, <1>3, <1>6, <1>10, <1>29 DEF Apart
    <2>5. x.file = "mapping" /\ w.file = "copied" => x.run # w.run
      BY <1>1, <1>3, <1>6, <1>10, <1>29 DEF Apart
    <2> QED BY <1>19, <1>21, <2>2, <2>3, <2>4, <2>5, RunFacts
  <1>30. Filed'
    <2>1. ASSUME NEW r \in Runs, job'[r] \in Metadata PROVE Claims(job[r], r)'
      <3>1. PICK j : j = job'[r]
        OBVIOUS
      <3>2. Claims(j, r)
        BY <1>1, <1>18, <1>28, <2>1, <3>1, FileFacts DEF Filed
      <3>3. Claims(j, r)'
        BY <1>1, <1>22, <1>25, <3>2, GrowsFacts
      <3> QED BY <3>1, <3>3
    <2>2. pointer' \in Runs \ {0} => job'[pointer'] # None
      <3>1. pointer' \in Runs \ {0} => job[pointer'] # None
        BY <1>1, <1>20, <1>28, RunFacts DEF Filed
      <3> QED BY <1>23, <3>1
    <2>3. mapping' \in Runs => hasLegacy' /\ mapping' \in 1..(nextId' - 1) /\ copied'[mapping'] = Whole /\ job'[mapping'] # None
      <3>1. mapping' \in Runs => hasLegacy /\ mapping' \in 1..(nextId - 1) /\ copied[mapping'] = Whole /\ job[mapping'] # None
        BY <1>1, <1>21, <1>28, RunFacts DEF Filed
      <3>2. mapping' \in Runs => ~(w.file = "copied" /\ w.run = mapping')
        BY <1>21, <1>28, RunFacts
      <3> QED BY <1>2, <1>19, <1>23, <3>1, <3>2
    <2> QED BY <2>1, <2>2, <2>3 DEF Filed
  <1>31. LedgerFits'
    BY <1>1, <1>2, <1>23 DEF LedgerFits
  <1>32. Apart'
    <2> SUFFICES ASSUME NEW x \in Procs, NEW y \in Procs, NEW i \in DOMAIN proc'[x].todo, NEW k \in DOMAIN proc'[y].todo,
                        proc'[x].todo[i].file = "copied", proc'[y].todo[k].file \in {"copied", "mapping"},
                        proc'[x].todo[i].run = proc'[y].todo[k].run
                 PROVE  x = y /\ i <= k
      BY DEF Apart
    <2>1. PICK a \in DOMAIN proc[x].todo : proc[x].todo[a] = proc'[x].todo[i] /\ a = IF x = p THEN i + d ELSE i
      BY <1>3, <1>10, <1>11, <1>16
    <2>2. PICK b \in DOMAIN proc[y].todo : proc[y].todo[b] = proc'[y].todo[k] /\ b = IF y = p THEN k + d ELSE k
      BY <1>3, <1>10, <1>11, <1>16
    <2>3. x = y /\ a <= b
      BY <1>1, <2>1, <2>2 DEF Apart
    <2>4. CASE x = p
      <3>1. i \in Nat /\ k \in Nat /\ a = i + d /\ b = k + d
        BY <1>11, <1>16, <2>1, <2>2, <2>3, <2>4
      <3> QED BY <2>3, <3>1
    <2>5. CASE x # p
      BY <2>1, <2>2, <2>3, <2>5
    <2> QED BY <2>4, <2>5
  <1>33. TodoFits(u)'
    <2> SUFFICES ASSUME NEW k \in DOMAIN u, NEW x, x = u[k]
                 PROVE  /\ x.file = "job" => Claims(x.content, x.run)'
                        /\ x.file = "pointer" => x.run = 0 \/ job'[x.run] # None \/ Before(u, k, "job", x.run)
                        /\ x.file = "copied" => hasLegacy' /\ x.run \in 1..(nextId' - 1) /\ mapping' # x.run
                        /\ x.file = "mapping" =>
                            /\ hasLegacy' /\ x.run \in 1..(nextId' - 1)
                            /\ copied'[x.run] = Whole \/ Before(u, k, "copied", x.run)
                            /\ job'[x.run] # None \/ Before(u, k, "job", x.run)
      BY DEF TodoFits
    <2>1. k + d \in DOMAIN t /\ x = t[k + d] /\ k \in Nat /\ k >= 1
      BY <1>10, <1>11
    <2>2. x \in Writes /\ x.run \in Runs
      BY <2>1, WriteFacts
    <2>3. /\ x.file = "job" => Claims(x.content, x.run)
          /\ x.file = "pointer" => x.run = 0 \/ job[x.run] # None \/ Before(t, k + d, "job", x.run)
          /\ x.file = "copied" => hasLegacy /\ x.run \in 1..(nextId - 1) /\ mapping # x.run
          /\ x.file = "mapping" =>
              /\ hasLegacy /\ x.run \in 1..(nextId - 1)
              /\ copied[x.run] = Whole \/ Before(t, k + d, "copied", x.run)
              /\ job[x.run] # None \/ Before(t, k + d, "job", x.run)
      BY <1>26, <2>1 DEF TodoFits
    <2>4. Claims(x.content, x.run) => Claims(x.content, x.run)'
      BY <1>1, <1>22, <1>25, <2>2, GrowsFacts
    <2>5. job[x.run] # None \/ Before(t, k + d, "job", x.run) => job'[x.run] # None \/ Before(u, k, "job", x.run)
      BY <1>13, <1>23, <1>24, <2>2
    <2>6. x.file = "copied" => mapping' # x.run
      <3>1. ASSUME x.file = "copied", w.file = "mapping", w.run = x.run, ~torn PROVE FALSE
        <4>1. t[k + d].file = "copied" /\ t[1].file \in {"copied", "mapping"} /\ t[k + d].run = t[1].run
          BY <1>6, <2>1, <3>1
        <4>2. k + d <= 1
          BY <1>1, <1>3, <1>10, <2>1, <4>1 DEF Apart
        <4> QED BY <1>9, <2>1, <3>1, <4>2
      <3> QED BY <1>21, <2>2, <2>3, <3>1, RunFacts
    <2>7. x.file = "mapping" => copied'[x.run] = Whole \/ Before(u, k, "copied", x.run)
      <3>1. CASE copied[x.run] = Whole
        <4>1. CASE w.file = "copied" /\ w.run = x.run /\ torn /\ x.file = "mapping"
          <5>1. d = 0 /\ u = t /\ k # 1
            BY <1>6, <1>8, <1>9, <2>1, <4>1
          <5> QED BY <1>6, <1>10, <2>1, <4>1, <5>1 DEF Before
        <4> QED BY <1>19, <2>2, <3>1, <4>1
      <3>2. CASE Before(t, k + d, "copied", x.run)
        BY <1>13, <1>19, <2>2, <3>2
      <3> QED BY <2>3, <3>1, <3>2
    <2> QED BY <1>2, <2>3, <2>4, <2>5, <2>6, <2>7
  <1>34. EngineFits(proc[p])'
    <2>1. PICK e : e = proc[p]
      OBVIOUS
    <2>2. EngineFits(e) /\ e.todo = t
      BY <1>2, <1>3, <2>1 DEF Fits
    <2>3. ASSUME e.run \in Runs, job[e.run] # None \/ \E k \in DOMAIN t : t[k].file = "job" /\ t[k].run = e.run
          PROVE  job'[e.run] # None \/ \E k \in DOMAIN u : u[k].file = "job" /\ u[k].run = e.run
      <3>1. CASE job[e.run] # None
        BY <1>23, <2>3, <3>1
      <3>2. ASSUME NEW k \in DOMAIN t, t[k].file = "job", t[k].run = e.run
            PROVE  job'[e.run] # None \/ \E i \in DOMAIN u : u[i].file = "job" /\ u[i].run = e.run
        <4>1. CASE k = 1 /\ ~torn
          BY <1>6, <1>24, <3>2, <4>1
        <4>2. CASE ~(k = 1 /\ ~torn)
          BY <1>12, <3>2, <4>2
        <4> QED BY <4>1, <4>2
      <3> QED BY <2>3, <3>1, <3>2
    <2>4. e.run \in Runs => (job[e.run] # None => job'[e.run] # None)
      BY <1>23
    <2>5. e.pc = "boot" => e.run \in Runs
      BY <2>2 DEF EngineFits
    <2> QED BY <1>2, <1>16, <2>1, <2>2, <2>3, <2>4, <2>5 DEF EngineFits
  <1>35. Routed(proc[p])' /\ Leaves(proc[p])'
    <2>1. PICK e : e = proc[p]
      OBVIOUS
    <2>2. Routed(e) /\ Leaves(e) /\ e.ref \in Runs
      BY <1>1, <1>2, <2>1 DEF Fits, Served
    <2>3. Gone(e.ref) => Gone(e.ref)'
      BY <1>1, <1>22, <1>25, <2>2, GrowsFacts
    <2>4. Leaves(proc[p])'
      BY <1>16, <2>1, <2>2, <2>3 DEF Leaves
    <2> QED BY <1>16, <2>1, <2>2, <2>4 DEF Routed
  <1>36. Fits(proc[p])'
    BY <1>16, <1>33, <1>34, <1>35 DEF Fits
  <1>37. ASSUME NEW q \in Procs, q # p PROVE Fits(proc[q])'
    <2>1. Fits(proc[q]) /\ proc'[q] = proc[q]
      BY <1>16, <1>37 DEF JobInv
    <2> QED BY <1>1, <1>22, <1>25, <1>29, <1>37, <2>1, Bystander
  <1> QED BY <1>22, <1>30, <1>31, <1>32, <1>36, <1>37 DEF JobInv

-----------------------------------------------------------------------------
(* The job files *)

\* No file is there at first, and nobody does anything.
LEMMA JobInitiation == JobInit => JobInv
  <1> SUFFICES ASSUME JobInit PROVE JobInv
    OBVIOUS
  <1>1. Typed
    BY RunFacts, DeadFits, ConstantsAssumption DEF JobInit, Typed
  <1>2. Filed
    BY RunFacts, FileFacts DEF JobInit, Filed
  <1>3. LedgerFits
    BY DEF JobInit, LedgerFits
  <1>4. \A p \in Procs : proc[p] = Dead
    BY DEF JobInit
  <1>5. Apart
    BY <1>4, DeadFits DEF Apart
  <1>6. ASSUME NEW p \in Procs PROVE Fits(proc[p])
    <2>1. Fits(Dead)
      BY DeadFits DEF Fits, TodoFits
    <2> QED BY <1>4, <2>1
  <1> QED BY <1>1, <1>2, <1>3, <1>5, <1>6 DEF JobInv

\* A step in which no job file, ledger or process changes.
LEMMA JobsRest ==
    ASSUME JobInv, UNCHANGED jobVars
    PROVE  JobInv'
  <1>1. UNCHANGED <<job, copied, pointer, mapping, ledger, proc, hasLegacy, retired, nextId>>
    BY DEF jobVars, files, bounds
  <1>2. ASSUME NEW r PROVE (Over(r) <=> Over(r)') /\ (Gone(r) <=> Gone(r)')
    BY <1>1 DEF Over, Gone, Unambiguous
  <1>3. ASSUME NEW j, NEW r, Claims(j, r) PROVE Claims(j, r)'
    BY <1>2, <1>3 DEF Claims
  <1>4. Typed'
    BY <1>1 DEF JobInv, Typed
  <1>5. Filed'
    BY <1>1, <1>3 DEF JobInv, Filed
  <1>6. LedgerFits' /\ Apart'
    BY <1>1 DEF JobInv, LedgerFits, Apart
  <1>7. ASSUME NEW p \in Procs PROVE Fits(proc[p])'
    <2>1. Fits(proc[p])
      BY DEF JobInv
    <2>2. TodoFits(proc[p].todo)'
      BY <1>1, <1>3, <2>1 DEF Fits, TodoFits, Before
    <2>3. EngineFits(proc[p])'
      BY <1>1, <2>1 DEF Fits, EngineFits
    <2>4. Routed(proc[p])' /\ Leaves(proc[p])'
      BY <1>1, <1>2, <2>1 DEF Fits, Routed, Leaves
    <2> QED BY <2>2, <2>3, <2>4 DEF Fits
  <1> QED BY <1>4, <1>5, <1>6, <1>7 DEF JobInv

\* Every step of a process.
LEMMA JobStep ==
    ASSUME JobInv, JobNext
    PROVE  JobInv'
  <1>1. PICK p \in Procs : Open(p) \/ Run(p) \/ Enter(p) \/ Reset(p) \/ Commit(p) \/ (\E r \in Runs : Switch(p, r)) \/ Crash(p)
                          \/ Continue(p)
    BY DEF JobNext
  <1>2. CASE Open(p) \/ Run(p) \/ Enter(p) \/ Reset(p)
    BY <1>2, BeginFits
  <1>3. CASE Commit(p)
    BY <1>3, CommitFits
  <1>4. CASE \E r \in Runs : Switch(p, r)
    BY <1>4, SwitchFits
  <1>5. CASE Crash(p)
    BY <1>5, CrashFits
  <1>6. CASE Continue(p)
    <2>1. CASE Write(p)
      BY <2>1, WriteFits
    <2>2. CASE Migrate(p)
      BY <2>2, MigrateFits
    <2>3. CASE ReadActive(p) \/ Rotate(p)
      BY <2>3, ReadFits
    <2>4. CASE Archive(p)
      BY <2>4, ArchiveFits
    <2>5. CASE Existing(p)
      BY <2>5, ExistingFits
    <2>6. CASE Boot(p)
      BY <2>6, BootFits
    <2>7. CASE Initialise(p)
      BY <2>7, InitialiseFits
    <2>8. CASE Sync(p) \/ Settle(p)
      BY <2>8, FollowFits
    <2> QED BY <1>6, <2>1, <2>2, <2>3, <2>4, <2>5, <2>6, <2>7, <2>8 DEF Continue
  <1> QED BY <1>1, <1>2, <1>3, <1>4, <1>5, <1>6

\* The invariant of the job files.
LEMMA JobsHold == JobSpec => []JobInv
  <1>1. ASSUME JobInv, [JobNext]_jobVars PROVE JobInv'
    BY <1>1, JobStep, JobsRest
  <1> QED BY <1>1, JobInitiation, PTL DEF JobSpec

\* Whatever processes do to the files at once and wherever they die, the pointer names a run that has
\* a job, and the map one that was copied whole.
THEOREM NamesBacked == JobSpec => []NamesAreBacked
  <1>1. ASSUME JobInv PROVE NamesAreBacked
    <2>1. Typed /\ Filed
      BY <1>1 DEF JobInv
    <2>2. JobTypeOK
      BY <2>1 DEF Typed, JobTypeOK, Served
    <2>3. PointerIsBacked
      <3>1. ASSUME pointer \in Runs \ {0} PROVE job[Resolve(pointer)] # None
        BY <2>1, <3>1 DEF Resolve, Filed
      <3> QED BY <3>1 DEF PointerIsBacked
    <2>4. MappedIsWhole
      BY <2>1 DEF Filed, MappedIsWhole
    <2> QED BY <2>2, <2>3, <2>4 DEF NamesAreBacked
  <1> QED BY <1>1, JobsHold, PTL

\* No job says its run is finished before its ledger does, however the updates of several processes
\* overwrite each other.
THEOREM JobsFollow == JobSpec => []JobsFollowTheLedger
  <1>1. ASSUME JobInv PROVE JobsFollowTheLedger
    <2>1. \A r \in Runs : job[r] \in Metadata => Claims(job[r], r)
      BY <1>1 DEF JobInv, Filed
    <2> QED BY <2>1 DEF JobsFollowTheLedger, Claims, Over, Unambiguous
  <1> QED BY <1>1, JobsHold, PTL

\* A rotation takes a run away only if its ledger finished or a person archived it: between reading
\* the active run's job and archiving it, nobody makes another run the one that is archived.
THEOREM RotationsEarned == JobSpec => []OnlyFinishedRunsRotate
  <1>1. ASSUME JobInv PROVE OnlyFinishedRunsRotate
    <2>1. \A r \in Runs : job[r] \in Metadata => Claims(job[r], r)
      BY <1>1 DEF JobInv, Filed
    <2>2. \A r \in Runs : job[r] \in Metadata \cup {None, Torn}
      BY <1>1 DEF JobInv, Typed
    <2>3. None.status # "archived" /\ Torn.status # "archived"
      BY DEF None, Torn
    <2>4. \A r \in Unambiguous : r \in Runs /\ (Over(r) => ledger[r].finished)
      BY DEF Unambiguous, Over
    <2> QED BY <2>1, <2>2, <2>3, <2>4 DEF OnlyFinishedRunsRotate, Claims, Gone
  <1> QED BY <1>1, JobsHold, PTL

-----------------------------------------------------------------------------
(* Sequences of events *)

\* The numbers of an interval, in order.
LEMMA AscendingFacts ==
    ASSUME NEW m \in Nat, NEW e \in Nat, m <= e
    PROVE  /\ Ascending((m + 1)..e) \in Seq(Nat) /\ Len(Ascending((m + 1)..e)) = e - m
           /\ \A i \in 1..(e - m) : Ascending((m + 1)..e)[i] = m + i
  <1> DEFINE S == (m + 1)..e
  <1>1. Cardinality(S) = e - m
    <2>1. Cardinality(S) = IF m + 1 > e THEN 0 ELSE e - (m + 1) + 1
      BY FS_Interval
    <2> QED BY <2>1
  <1>2. ASSUME NEW i \in 1..(e - m)
        PROVE  (CHOOSE n \in S : Cardinality({k \in S : k <= n}) = i) = m + i
    <2>1. ASSUME NEW n \in S PROVE Cardinality({k \in S : k <= n}) = n - m
      <3>1. {k \in S : k <= n} = (m + 1)..n
        OBVIOUS
      <3>2. n \in Int /\ m + 1 <= n
        OBVIOUS
      <3>3. Cardinality((m + 1)..n) = IF m + 1 > n THEN 0 ELSE n - (m + 1) + 1
        BY <3>2, FS_Interval
      <3>4. Cardinality((m + 1)..n) = n - m
        BY <3>2, <3>3
      <3> QED BY <3>1, <3>4
    <2>2. m + i \in S /\ \A n \in S : n - m = i <=> n = m + i
      OBVIOUS
    <2> HIDE DEF S
    <2> QED BY <2>1, <2>2
  <1>3. Ascending(S) = [i \in 1..(e - m) |-> CHOOSE n \in S : Cardinality({k \in S : k <= n}) = i]
    BY <1>1 DEF Ascending
  <1> HIDE DEF S
  <1>4. DOMAIN Ascending(S) = 1..(e - m) /\ \A i \in 1..(e - m) : Ascending(S)[i] = m + i
    BY <1>2, <1>3
  <1>5. Ascending(S) = [i \in 1..(e - m) |-> m + i]
    BY <1>2, <1>3
  <1>6. [i \in 1..(e - m) |-> m + i] \in Seq(Nat) /\ Len([i \in 1..(e - m) |-> m + i]) = e - m
    OBVIOUS
  <1> QED BY <1>4, <1>5, <1>6 DEF S

\* Nothing due is nothing sent.
LEMMA AscendingNone == Ascending({}) = <<>>
  <1>1. Cardinality({}) = 0
    BY FS_EmptySet
  <1> QED BY <1>1 DEF Ascending

\* Events of a run one after the other, up to the one that was sent last.
Ordered(g, last) ==
    /\ g \in Seq(Nat)
    /\ \A i \in DOMAIN g : g[i] = g[1] + i - 1 /\ (i = Len(g) => last = g[i])

\* A client that was sent something was sent all before the cursor.
Caught(g, last, cur) == g # <<>> /\ cur # Absent => cur <= last

\* Sending what follows.
LEMMA SendFacts ==
    ASSUME NEW g, NEW last, Ordered(g, last), NEW m \in Nat, NEW e \in Nat, m < e, g # <<>> => m = last
    PROVE  Ordered(g \o Ascending((m + 1)..e), e)
  <1> DEFINE a == Ascending((m + 1)..e)
             h == g \o a
  <1>1. a \in Seq(Nat) /\ Len(a) = e - m /\ \A i \in 1..(e - m) : a[i] = m + i
    BY AscendingFacts
  <1>2. g \in Seq(Nat) /\ Len(g) \in Nat /\ DOMAIN g = 1..Len(g)
    BY DEF Ordered
  <1> HIDE DEF a
  <1>3. h \in Seq(Nat) /\ Len(h) = Len(g) + Len(a)
    BY <1>1, <1>2, ConcatProperties, Zenon
  <1>4. \A i \in 1..Len(g) + Len(a) : h[i] = IF i <= Len(g) THEN g[i] ELSE a[i - Len(g)]
    BY <1>1, <1>2, ConcatProperties, Zenon
  <1> HIDE DEF h
  <1>a. PICK n \in Nat : n = Len(g)
    BY <1>2
  <1>b. PICK d \in Nat : d = e - m /\ d >= 1
    OBVIOUS
  <1>c. \A i \in 1..n : h[i] = g[i]
    BY <1>1, <1>4, <1>a, <1>b
  <1>d. \A j \in 1..d : h[n + j] = m + j
    <2>1. ASSUME NEW j \in 1..d PROVE h[n + j] = m + j
      <3>1. PICK i \in 1..(n + d) : i = n + j /\ i > n /\ i - n = j
        BY <1>a, <1>b
      <3>2. h[i] = a[i - Len(g)]
        BY SMTT(20), <1>1, <1>4, <1>a, <1>b, <3>1
      <3> QED BY <1>1, <1>a, <1>b, <3>1, <3>2
    <2> QED BY <2>1
  <1>e. DOMAIN h = 1..(n + d) /\ Len(h) = n + d /\ m + d = e
    BY <1>1, <1>3, <1>a, <1>b
  <1>f. PICK b : b = g[1]
    OBVIOUS
  <1>g. ASSUME n # 0 PROVE b \in Nat /\ m = b + n - 1 /\ \A i \in 1..n : g[i] = b + i - 1
    <2>1. g # <<>> /\ 1 \in DOMAIN g /\ n \in DOMAIN g
      BY <1>2, <1>a, <1>g
    <2>2. \A i \in 1..n : g[i] = b + i - 1
      BY <1>2, <1>a, <1>f DEF Ordered
    <2>3. last = g[n]
      BY <1>2, <1>a, <2>1 DEF Ordered
    <2>4. m = last
      BY <2>1
    <2>5. g[n] = b + n - 1
      BY <1>2, <1>a, <2>1, <2>2
    <2>6. b \in Nat
      BY <1>2, <1>f, <2>1
    <2> QED BY <2>2, <2>3, <2>4, <2>5, <2>6
  <1>5. ASSUME NEW i \in DOMAIN h PROVE h[i] = h[1] + i - 1 /\ (i = Len(h) => e = h[i])
    <2>1. i \in Nat /\ 1 <= i /\ i <= n + d
      BY <1>e
    <2>2. i <= n \/ \E j \in 1..d : i = n + j
      <3>1. CASE i > n
        <4>1. i - n \in 1..d /\ i = n + (i - n)
          BY <2>1, <3>1
        <4> QED BY <4>1
      <3> QED BY <2>1, <3>1
    <2>3. CASE n = 0
      <3>1. 0 + 1 = 1 /\ 1 \in 1..d /\ 0 + i = i /\ i \in 1..d
        BY <1>b, <2>1, <2>3
      <3>2. h[1] = m + 1 /\ h[i] = m + i
        BY <1>d, <2>3, <3>1
      <3> QED BY <1>e, <2>1, <2>3, <3>2
    <2>4. CASE n # 0
      <3>1. h[1] = b /\ b \in Nat /\ m = b + n - 1 /\ \A k \in 1..n : g[k] = b + k - 1
        BY <1>c, <1>f, <1>g, <2>4
      <3>2. CASE i <= n
        <4>1. h[i] = b + i - 1
          BY <1>c, <2>1, <3>1, <3>2
        <4>2. i # n + d
          BY <1>b, <2>1, <3>2
        <4> QED BY <1>e, <3>1, <4>1, <4>2
      <3>3. ASSUME NEW k \in 1..d, i = n + k PROVE h[i] = b + i - 1 /\ (i = n + d => e = h[i])
        <4>1. h[i] = m + k
          BY <1>d, <3>3
        <4>2. h[i] = b + i - 1
          BY <3>1, <3>3, <4>1
        <4>3. i = n + d => k = d
          BY <3>3
        <4> QED BY <1>e, <4>1, <4>2, <4>3
      <3> QED BY <1>e, <2>2, <3>1, <3>2, <3>3
    <2> QED BY <2>3, <2>4
  <1> QED BY <1>3, <1>5 DEF Ordered, h, a

\* The greatest of an interval, also with a lesser number beside it.
LEMMA LatestFacts ==
    ASSUME NEW m \in Nat, NEW e \in Nat, m < e
    PROVE  Max((m + 1)..e) = e /\ Max(((m + 1)..e) \cup {m}) = e /\ Max({m}) = m
  <1>1. (m + 1)..e \subseteq 0..e /\ e \in (m + 1)..e /\ \A y \in (m + 1)..e : y <= e
    OBVIOUS
  <1>2. ((m + 1)..e) \cup {m} \subseteq 0..e /\ \A y \in ((m + 1)..e) \cup {m} : y <= e
    OBVIOUS
  <1>3. {m} \subseteq 0..e /\ \A y \in {m} : y <= m
    OBVIOUS
  <1>4. Max((m + 1)..e) = e
    BY <1>1, MaxUnique
  <1>5. Max(((m + 1)..e) \cup {m}) = e
    BY <1>1, <1>2, MaxUnique
  <1>6. Max({m}) = m
    BY <1>3, MaxUnique
  <1> QED BY <1>4, <1>5, <1>6

\* What a poll sends to one client of one run.
LEMMA PollFacts ==
    ASSUME NEW e \in Nat, NEW from \in 0..e, NEW last \in {Unseen} \cup Nat, NEW g, Ordered(g, last), Caught(g, last, from),
           NEW D, D = {n \in 1..e : n > from /\ n > last},
           NEW new, new = IF D = {} THEN last ELSE Max(D)
    PROVE  Ordered(g \o Ascending(D), new) /\ Caught(g \o Ascending(D), new, e) /\ new \in {Unseen} \cup Nat
  <1>1. from # Absent /\ Unseen = -1 /\ from \in Nat
    BY DEF Absent, Unseen
  <1>2. PICK m \in Nat : m = (IF from >= last THEN from ELSE last) /\ m >= from /\ m >= last
    BY <1>1
  <1>3. D = (m + 1)..e
    BY <1>1, <1>2
  <1>4. g # <<>> => m = last
    BY <1>1, <1>2 DEF Caught
  <1>5. CASE m < e
    <2>1. D # {} /\ new = e
      <3>1. e \in D
        BY <1>3, <1>5
      <3> QED BY ZenonT(30), <1>3, <1>5, <3>1, LatestFacts
    <2>2. Ordered(g \o Ascending(D), e)
      BY <1>3, <1>4, <1>5, SendFacts
    <2> QED BY <2>1, <2>2 DEF Caught
  <1>6. CASE m >= e
    <2>1. D = {}
      BY <1>3, <1>6
    <2>2. g \in Seq(Nat)
      BY DEF Ordered
    <2>3. g \o Ascending(D) = g
      BY <2>1, <2>2, AscendingNone, ConcatEmptySeq
    <2> QED BY <1>4, <1>6, <2>1, <2>3 DEF Caught
  <1> QED BY <1>2, <1>5, <1>6

\* What a client is sent of one run when it connects.
LEMMA BacklogFacts ==
    ASSUME NEW e \in Nat, NEW cur \in {Absent} \cup 0..e, NEW since \in {Unseen} \cup Nat,
           NEW B, B = IF since # Unseen /\ cur # Absent THEN {n \in 1..e : n > since} ELSE {},
           NEW base, base = IF since # Unseen THEN since ELSE cur,
           NEW new, new = IF cur = Absent THEN Unseen ELSE Max(B \cup {base})
    PROVE  Ordered(Ascending(B), new) /\ Caught(Ascending(B), new, cur) /\ new \in {Unseen} \cup Nat
  <1>1. Absent = -1 /\ Unseen = -1
    BY DEF Absent, Unseen
  <1>2. CASE B = {}
    <2>1. Ascending(B) = <<>>
      BY <1>2, AscendingNone
    <2>2. Ordered(<<>>, new) /\ Caught(<<>>, new, cur)
      BY DEF Ordered, Caught
    <2>3. cur # Absent => base \in Nat /\ new = Max({base})
      BY <1>1, <1>2
    <2>4. cur # Absent => new = base
      <3>1. ASSUME cur # Absent PROVE Max({base}) = base
        <4>1. base \in Nat /\ base < base + 1 /\ base + 1 \in Nat
          BY <2>3, <3>1
        <4> QED BY <4>1, LatestFacts
      <3> QED BY <2>3, <3>1
    <2> QED BY <1>1, <2>1, <2>2, <2>3, <2>4
  <1>3. CASE B # {}
    <2>1. since \in Nat /\ cur \in 0..e /\ cur # Absent /\ base = since
      BY <1>1, <1>3
    <2>a. B = {n \in 1..e : n > since}
      BY <1>1, <2>1
    <2>b. PICK n \in B : n \in 1..e /\ n > since
      BY <1>3, <2>a
    <2>c. since < e
      BY <2>1, <2>b
    <2>d. {k \in 1..e : k > since} = (since + 1)..e
      BY <2>1
    <2>2. B = (since + 1)..e /\ since < e
      BY <2>a, <2>c, <2>d
    <2>3. new = e
      <3>1. Max(((since + 1)..e) \cup {since}) = e
        BY <2>1, <2>2, LatestFacts
      <3>2. new = Max(B \cup {since})
        BY <2>1
      <3> QED BY <2>2, <3>1, <3>2
    <2>4. Ordered(<<>>, since)
      BY DEF Ordered
    <2>5. Ordered(<<>> \o Ascending(B), e)
      BY <2>1, <2>2, <2>4, SendFacts
    <2>6. Ascending(B) \in Seq(Nat)
      <3>1. since <= e
        BY <2>1, <2>2
      <3>2. Ascending((since + 1)..e) \in Seq(Nat)
        BY <2>1, <3>1, AscendingFacts
      <3> QED BY <2>2, <3>2
    <2>7. <<>> \o Ascending(B) = Ascending(B)
      BY <2>6, ConcatEmptySeq
    <2> QED BY <2>1, <2>3, <2>5, <2>7 DEF Caught
  <1> QED BY <1>2, <1>3

-----------------------------------------------------------------------------
(* The broker *)

Followed(r) == cursor[r] = Absent \/ cursor[r] \in 0..ledger[r].events

\* No cursor is ahead of its ledger, and a client that was sent something of a run was sent all
\* before the cursor; nobody was sent anything but who is connected.
BrokerInv ==
    /\ started \in BOOLEAN
    /\ \A r \in Runs : Followed(r)
    /\ client \in [Clients -> [on : BOOLEAN, last : [Runs -> {Unseen} \cup Nat]]]
    /\ got \in [Clients -> [Runs -> Seq(Nat)]]
    /\ \A c \in Clients, r \in Runs :
        /\ Ordered(got[c][r], client[c].last[r]) /\ Caught(got[c][r], client[c].last[r], cursor[r])
        /\ got[c][r] # <<>> => started /\ client[c].on

\* A run is followed from its first event, or from where it was when the server began to listen.
LEMMA RefreshedFacts ==
    ASSUME Typed, BrokerInv, NEW r \in Runs
    PROVE  /\ ledger[r].events \in Nat
           /\ Refreshed[r] = Absent \/ Refreshed[r] \in 0..ledger[r].events
           /\ \A c \in Clients : Caught(got[c][r], client[c].last[r], Refreshed[r])
  <1>1. ledger[r].events \in Nat
    BY DEF Typed
  <1>2. /\ Refreshed[r] = IF r \notin Listed THEN Absent ELSE IF cursor[r] = Absent THEN Found(r) ELSE cursor[r]
        /\ Found(r) = IF started THEN 0 ELSE ledger[r].events
    BY DEF Refreshed, Found
  <1>3. Refreshed[r] = Absent \/ Refreshed[r] \in 0..ledger[r].events
    BY <1>1, <1>2 DEF BrokerInv, Followed
  <1>4. ASSUME NEW c \in Clients PROVE Caught(got[c][r], client[c].last[r], Refreshed[r])
    <2>1. SUFFICES ASSUME got[c][r] # <<>>, Refreshed[r] # Absent PROVE Refreshed[r] <= client[c].last[r]
      BY DEF Caught
    <2>2. started /\ Caught(got[c][r], client[c].last[r], cursor[r])
      BY <2>1 DEF BrokerInv
    <2>3. CASE cursor[r] = Absent
      <3>1. Refreshed[r] = 0
        BY <1>2, <2>1, <2>2, <2>3
      <3>2. PICK g : g = got[c][r]
        OBVIOUS
      <3>a. PICK last : last = client[c].last[r]
        OBVIOUS
      <3>b. Ordered(g, last) /\ g # <<>>
        BY <2>1, <3>2, <3>a DEF BrokerInv
      <3>c. g \in Seq(Nat) /\ Len(g) \in DOMAIN g
        BY <3>b DEF Ordered
      <3>3. client[c].last[r] \in Nat
        <4>1. last = g[Len(g)]
          BY <3>b, <3>c DEF Ordered
        <4>2. g[Len(g)] \in Nat
          BY <3>c
        <4> QED BY <3>a, <4>1, <4>2
      <3> QED BY <3>1, <3>3
    <2>4. CASE cursor[r] # Absent
      BY <1>2, <2>1, <2>2, <2>4 DEF Caught
    <2> QED BY <2>3, <2>4
  <1> QED BY <1>1, <1>3, <1>4

\* Nothing is sent or followed at first.
LEMMA BrokerInitiation == JobInv /\ BrokerInit => BrokerInv
  <1> SUFFICES ASSUME JobInv, BrokerInit PROVE BrokerInv
    OBVIOUS
  <1>1. Off \in [on : BOOLEAN, last : [Runs -> {Unseen} \cup Nat]]
    BY DEF Off
  <1>2. \A c \in Clients, r \in Runs : got[c][r] = <<>>
    BY DEF BrokerInit
  <1>3. \A last, cur : Ordered(<<>>, last) /\ Caught(<<>>, last, cur)
    BY DEF Ordered, Caught
  <1>4. <<>> \in Seq(Nat) /\ [r \in Runs |-> <<>>] \in [Runs -> Seq(Nat)]
    OBVIOUS
  <1>5. client \in [Clients -> [on : BOOLEAN, last : [Runs -> {Unseen} \cup Nat]]] /\ got \in [Clients -> [Runs -> Seq(Nat)]]
    BY <1>1, <1>4 DEF BrokerInit
  <1>6. started \in BOOLEAN /\ \A r \in Runs : Followed(r)
    BY DEF BrokerInit, Followed
  <1> QED BY <1>2, <1>3, <1>5, <1>6 DEF BrokerInv

\* Ledgers only grow.
LEMMA EventsGrow ==
    ASSUME JobInv, JobNext, NEW r \in Runs
    PROVE  ledger[r].events \in Nat /\ ledger'[r].events \in Nat /\ ledger[r].events <= ledger'[r].events
  <1>1. Typed /\ Typed'
    BY JobStep DEF JobInv
  <1>2. ledger[r].events \in Nat /\ ledger'[r].events \in Nat
    BY <1>1 DEF Typed
  <1>3. PICK p \in Procs : UNCHANGED ledger \/ Initialise(p) \/ Commit(p)
    BY ZenonT(30) DEF JobNext, Open, Run, Enter, Reset, Begin, Switch, Crash, Continue, Write, Migrate, ReadActive, Rotate, Archive, Existing,
           Boot, Sync, Settle
  <1>4. CASE UNCHANGED ledger
    BY <1>2, <1>4
  <1>5. CASE Initialise(p)
    <2>1. proc[p].run \in Runs
      BY <1>5 DEF JobInv, Fits, EngineFits, Initialise, At
    <2>2. PICK x : x = [events |-> ledger[proc[p].run].events + 1, finished |-> FALSE, inits |-> ledger[proc[p].run].inits + 1]
      OBVIOUS
    <2>3. ledger' = [ledger EXCEPT ![proc[p].run] = x] /\ x.events = ledger[proc[p].run].events + 1
      BY <1>5, <2>2 DEF Initialise
    <2>4. ledger'[r] = ledger[r] \/ (r = proc[p].run /\ ledger'[r] = x)
      BY <1>1, <2>1, <2>3 DEF Typed
    <2> QED BY <1>2, <2>3, <2>4
  <1>6. CASE Commit(p)
    <2>1. PICK last \in BOOLEAN : ledger' = [ledger EXCEPT ![proc[p].run].events = @ + 1, ![proc[p].run].finished = last]
      BY <1>6 DEF Commit, Commit_Stale
    <2>2. proc[p].run \in Runs
      BY <1>6 DEF Commit, Commit_Stale
    <2>3. PICK l : l = ledger[proc[p].run]
      OBVIOUS
    <2>4. l \in [events : Nat, finished : BOOLEAN, inits : Nat]
      BY <1>1, <2>2, <2>3 DEF Typed
    <2>5. PICK n \in Nat : n = l.events + 1
      BY <2>4
    <2>6. ledger' = [ledger EXCEPT ![proc[p].run] = [l EXCEPT !.events = n, !.finished = last]]
      BY <1>1, <2>1, <2>2, <2>3, <2>5 DEF Typed
    <2>7. LET m == [l EXCEPT !.events = n, !.finished = last] IN m.events = n
      BY <2>4
    <2>8. ledger'[r] = ledger[r] \/ (r = proc[p].run /\ ledger'[r].events = n)
      BY <1>1, <2>2, <2>6, <2>7 DEF Typed
    <2> QED BY <1>2, <2>3, <2>5, <2>8
  <1> QED BY <1>3, <1>4, <1>5, <1>6

\* A step that sends nothing.
LEMMA FollowingFits ==
    ASSUME Typed, BrokerInv, started => started', started' \in BOOLEAN, UNCHANGED <<client, got>>,
           \A r \in Runs :
               /\ cursor'[r] = cursor[r] \/ cursor'[r] = Refreshed[r]
               /\ ledger'[r].events \in Nat /\ ledger[r].events <= ledger'[r].events
    PROVE  BrokerInv'
  <1>1. ASSUME NEW r \in Runs
        PROVE  Followed(r)' /\ \A c \in Clients : Caught(got'[c][r], client'[c].last[r], cursor'[r])
    <2>1. Followed(r) /\ \A c \in Clients : Caught(got[c][r], client[c].last[r], cursor[r])
      BY DEF BrokerInv
    <2>2. /\ ledger[r].events \in Nat
          /\ Refreshed[r] = Absent \/ Refreshed[r] \in 0..ledger[r].events
          /\ \A c \in Clients : Caught(got[c][r], client[c].last[r], Refreshed[r])
      BY RefreshedFacts
    <2>3. cursor'[r] = Absent \/ cursor'[r] \in 0..ledger[r].events
      BY <2>1, <2>2 DEF Followed
    <2>4. Followed(r)'
      BY <2>2, <2>3 DEF Followed
    <2> QED BY <2>1, <2>2, <2>4
  <1> QED BY <1>1 DEF BrokerInv

\* One client's records after a step that sends.
LEMMA PollFits ==
    ASSUME Typed, Typed', BrokerInv, Poll
    PROVE  BrokerInv'
  <1> DEFINE due(c, r) == IF Refreshed[r] # Absent /\ client[c].on THEN Due(c, r, Refreshed[r]) ELSE {}
             new(c, r) == IF due(c, r) = {} THEN client[c].last[r] ELSE Max(due(c, r))
  <1>1. /\ started /\ UNCHANGED <<jobVars, started>>
        /\ cursor' = [r \in Runs |-> IF Refreshed[r] = Absent THEN Absent ELSE ledger[r].events]
        /\ got' = [c \in Clients |-> [r \in Runs |-> got[c][r] \o Ascending(due(c, r))]]
        /\ client' = [c \in Clients |-> [client[c] EXCEPT !.last = [r \in Runs |-> new(c, r)]]]
    BY DEF Poll
  <1>2. ASSUME NEW c \in Clients, NEW r \in Runs
        PROVE  /\ new(c, r) \in {Unseen} \cup Nat
               /\ Ordered(got[c][r] \o Ascending(due(c, r)), new(c, r))
               /\ Caught(got[c][r] \o Ascending(due(c, r)), new(c, r), IF Refreshed[r] = Absent THEN Absent ELSE ledger[r].events)
               /\ got[c][r] \o Ascending(due(c, r)) # <<>> => client[c].on
    <2>1. PICK g : g = got[c][r]
      OBVIOUS
    <2>2. PICK last : last = client[c].last[r]
      OBVIOUS
    <2>3. PICK cur : cur = Refreshed[r]
      OBVIOUS
    <2>4. PICK e \in Nat : e = ledger[r].events
      BY RefreshedFacts
    <2>5. PICK D : D = due(c, r)
      OBVIOUS
    <2>6. PICK x : x = new(c, r)
      OBVIOUS
    <2>7. Ordered(g, last) /\ Caught(g, last, cur) /\ (cur = Absent \/ cur \in 0..e)
      BY <2>1, <2>2, <2>3, <2>4, RefreshedFacts DEF BrokerInv
    <2>8. last \in {Unseen} \cup Nat /\ (g # <<>> => client[c].on)
      BY <2>1, <2>2 DEF BrokerInv
    <2>9. x = IF D = {} THEN last ELSE Max(D)
      BY <2>2, <2>5, <2>6
    <2>10. CASE cur # Absent /\ client[c].on
      <3>1. D = {n \in 1..e : n > cur /\ n > last}
        BY <2>2, <2>3, <2>4, <2>5, <2>10 DEF Due
      <3>2. Ordered(g \o Ascending(D), x) /\ Caught(g \o Ascending(D), x, e) /\ x \in {Unseen} \cup Nat
        BY <2>7, <2>8, <2>9, <2>10, <3>1, PollFacts
      <3> QED BY <2>1, <2>3, <2>4, <2>5, <2>6, <2>10, <3>2
    <2>11. CASE ~(cur # Absent /\ client[c].on)
      <3>1. D = {} /\ x = last
        BY <2>3, <2>5, <2>9, <2>11
      <3>2. g \in Seq(Nat)
        BY <2>7 DEF Ordered
      <3>3. g \o Ascending(D) = g
        BY <3>1, <3>2, AscendingNone, ConcatEmptySeq
      <3>4. Caught(g, last, IF cur = Absent THEN Absent ELSE e)
        BY <2>8, <2>11 DEF Caught
      <3> QED BY <2>1, <2>3, <2>4, <2>5, <2>6, <2>7, <2>8, <3>1, <3>3, <3>4
    <2> QED BY <2>10, <2>11
  <1> HIDE DEF due, new
  <1>3. client' \in [Clients -> [on : BOOLEAN, last : [Runs -> {Unseen} \cup Nat]]]
        /\ \A c \in Clients : client'[c].on = client[c].on /\ \A r \in Runs : client'[c].last[r] = new(c, r)
    <2>1. ASSUME NEW c \in Clients
          PROVE  LET k == [client[c] EXCEPT !.last = [r \in Runs |-> new(c, r)]]
                 IN  /\ k \in [on : BOOLEAN, last : [Runs -> {Unseen} \cup Nat]]
                     /\ k.on = client[c].on /\ k.last = [r \in Runs |-> new(c, r)]
      <3>1. client[c] \in [on : BOOLEAN, last : [Runs -> {Unseen} \cup Nat]]
        BY DEF BrokerInv
      <3>2. [r \in Runs |-> new(c, r)] \in [Runs -> {Unseen} \cup Nat]
        BY <1>2
      <3> QED BY <3>1, <3>2
    <2> QED BY <1>1, <2>1
  <1>4. ASSUME NEW r \in Runs PROVE Followed(r)'
    <2>1. ledger[r].events \in Nat /\ ledger' = ledger
      BY <1>1, RefreshedFacts DEF jobVars
    <2> QED BY <1>1, <2>1 DEF Followed
  <1>5. ASSUME NEW c \in Clients, NEW r \in Runs
        PROVE  /\ Ordered(got'[c][r], client'[c].last[r]) /\ Caught(got'[c][r], client'[c].last[r], cursor'[r])
               /\ got'[c][r] # <<>> => started' /\ client'[c].on
    <2>1. got'[c][r] = got[c][r] \o Ascending(due(c, r)) /\ client'[c].last[r] = new(c, r)
          /\ cursor'[r] = (IF Refreshed[r] = Absent THEN Absent ELSE ledger[r].events)
      BY <1>1, <1>3
    <2> QED BY ZenonT(30), <1>1, <1>2, <1>3, <2>1
  <1>6. got' \in [Clients -> [Runs -> Seq(Nat)]]
    BY <1>1, <1>2 DEF Ordered
  <1> QED BY <1>1, <1>3, <1>4, <1>5, <1>6 DEF BrokerInv

\* A client that connects.
LEMMA ConnectFits ==
    ASSUME Typed, BrokerInv, NEW c \in Clients, NEW since \in {Unseen} \cup 0..MaxEvents, Connect(c, since)
    PROVE  BrokerInv'
  <1> DEFINE base(r) == IF since # Unseen THEN since ELSE Refreshed[r]
             backlog(r) == IF since # Unseen /\ Refreshed[r] # Absent THEN {n \in 1..ledger[r].events : n > since} ELSE {}
             new(r) == IF Refreshed[r] = Absent THEN Unseen ELSE Max(backlog(r) \cup {base(r)})
  <1>1. /\ started /\ UNCHANGED <<jobVars, started>> /\ cursor' = Refreshed
        /\ got' = [got EXCEPT ![c] = [r \in Runs |-> Ascending(backlog(r))]]
        /\ client' = [client EXCEPT ![c] = [on |-> TRUE, last |-> [r \in Runs |-> new(r)]]]
    BY DEF Connect
  <1>2. ASSUME NEW r \in Runs
        PROVE  /\ new(r) \in {Unseen} \cup Nat
               /\ Ordered(Ascending(backlog(r)), new(r)) /\ Caught(Ascending(backlog(r)), new(r), Refreshed[r])
    <2>1. PICK cur : cur = Refreshed[r]
      OBVIOUS
    <2>2. PICK e \in Nat : e = ledger[r].events
      BY RefreshedFacts
    <2>3. PICK B : B = backlog(r)
      OBVIOUS
    <2>4. PICK b : b = base(r)
      OBVIOUS
    <2>5. PICK x : x = new(r)
      OBVIOUS
    <2>6. /\ B = IF since # Unseen /\ cur # Absent THEN {n \in 1..e : n > since} ELSE {}
          /\ b = IF since # Unseen THEN since ELSE cur
          /\ x = IF cur = Absent THEN Unseen ELSE Max(B \cup {b})
      BY <2>1, <2>2, <2>3, <2>4, <2>5
    <2>7. cur \in {Absent} \cup 0..e /\ since \in {Unseen} \cup Nat
      BY <2>1, <2>2, RefreshedFacts, ConstantsAssumption
    <2>8. Ordered(Ascending(B), x) /\ Caught(Ascending(B), x, cur) /\ x \in {Unseen} \cup Nat
      BY <2>6, <2>7, BacklogFacts
    <2> QED BY <2>1, <2>3, <2>5, <2>8
  <1> HIDE DEF base, backlog, new
  <1>3. /\ client' \in [Clients -> [on : BOOLEAN, last : [Runs -> {Unseen} \cup Nat]]]
        /\ client'[c].on = TRUE /\ \A r \in Runs : client'[c].last[r] = new(r)
        /\ \A d \in Clients \ {c} : client'[d] = client[d]
    <2>1. PICK f : f = [r \in Runs |-> new(r)]
      OBVIOUS
    <2>2. f \in [Runs -> {Unseen} \cup Nat] /\ \A r \in Runs : f[r] = new(r)
      BY <1>2, <2>1
    <2>3. client' = [client EXCEPT ![c] = [on |-> TRUE, last |-> f]]
      BY <1>1, <2>1
    <2> QED BY <2>2, <2>3 DEF BrokerInv
  <1>4. ASSUME NEW r \in Runs PROVE Followed(r)'
    <2>1. ledger[r].events \in Nat /\ ledger' = ledger /\ (Refreshed[r] = Absent \/ Refreshed[r] \in 0..ledger[r].events)
      BY <1>1, RefreshedFacts DEF jobVars
    <2> QED BY <1>1, <2>1 DEF Followed
  <1>5. ASSUME NEW d \in Clients, NEW r \in Runs
        PROVE  /\ Ordered(got'[d][r], client'[d].last[r]) /\ Caught(got'[d][r], client'[d].last[r], cursor'[r])
               /\ got'[d][r] # <<>> => started' /\ client'[d].on
    <2>1. CASE d = c
      <3>1. got'[c][r] = Ascending(backlog(r))
        BY <1>1 DEF BrokerInv
      <3> QED BY <1>1, <1>2, <1>3, <2>1, <3>1
    <2>2. CASE d # c
      <3>1. got'[d] = got[d] /\ client'[d] = client[d] /\ cursor'[r] = Refreshed[r] /\ started'
        BY <1>1, <1>3, <2>2
      <3> QED BY <3>1, RefreshedFacts DEF BrokerInv
    <2> QED BY <2>1, <2>2
  <1>6. got' \in [Clients -> [Runs -> Seq(Nat)]]
    <2>1. [r \in Runs |-> Ascending(backlog(r))] \in [Runs -> Seq(Nat)]
      BY <1>2 DEF Ordered
    <2> QED BY <1>1, <2>1 DEF BrokerInv
  <1> QED BY <1>1, <1>3, <1>4, <1>5, <1>6 DEF BrokerInv

\* A client that goes.
LEMMA DisconnectFits ==
    ASSUME Typed, BrokerInv, NEW c \in Clients, Disconnect(c)
    PROVE  BrokerInv'
  <1>1. /\ UNCHANGED <<jobVars, started, cursor>>
        /\ client' = [client EXCEPT ![c] = Off] /\ got' = [got EXCEPT ![c] = [r \in Runs |-> <<>>]]
    BY DEF Disconnect
  <1>2. Off \in [on : BOOLEAN, last : [Runs -> {Unseen} \cup Nat]] /\ [r \in Runs |-> <<>>] \in [Runs -> Seq(Nat)]
    BY DEF Off
  <1>3. /\ client' \in [Clients -> [on : BOOLEAN, last : [Runs -> {Unseen} \cup Nat]]]
        /\ got' \in [Clients -> [Runs -> Seq(Nat)]]
    BY <1>1, <1>2 DEF BrokerInv
  <1>4. ASSUME NEW r \in Runs PROVE Followed(r)'
    BY <1>1 DEF BrokerInv, Followed, jobVars
  <1>5. ASSUME NEW d \in Clients, NEW r \in Runs
        PROVE  /\ Ordered(got'[d][r], client'[d].last[r]) /\ Caught(got'[d][r], client'[d].last[r], cursor'[r])
               /\ got'[d][r] # <<>> => started' /\ client'[d].on
    <2>1. CASE d = c
      <3>1. got'[d][r] = <<>>
        BY <1>1, <2>1 DEF BrokerInv
      <3>2. \A last, cur : Ordered(<<>>, last) /\ Caught(<<>>, last, cur)
        BY DEF Ordered, Caught
      <3> QED BY <3>1, <3>2
    <2>2. CASE d # c
      <3>1. got'[d] = got[d] /\ client'[d] = client[d] /\ cursor'[r] = cursor[r] /\ started' = started
        BY <1>1, <2>2 DEF BrokerInv
      <3> QED BY <3>1 DEF BrokerInv
    <2> QED BY <2>1, <2>2
  <1> QED BY <1>1, <1>3, <1>4, <1>5 DEF BrokerInv

\* The invariant of the broker beside the processes.
BothInv == JobInv /\ BrokerInv

\* Each step of a process and of the broker.
LEMMA BrokerHolds == Spec => []BothInv
  <1>1. Init => BothInv
    BY JobInitiation, BrokerInitiation DEF Init, BothInv
  <1>2. ASSUME BothInv, [Next]_vars PROVE BothInv'
    <2>1. CASE JobNext /\ UNCHANGED brokerVars
      <3>1. JobInv' /\ Typed
        BY <1>2, <2>1, JobStep DEF BothInv, JobInv
      <3>2. \A r \in Runs : ledger'[r].events \in Nat /\ ledger[r].events <= ledger'[r].events
        BY <1>2, <2>1, EventsGrow DEF BothInv
      <3>3. UNCHANGED <<started, cursor, client, got>> /\ started \in BOOLEAN
        BY <1>2, <2>1 DEF brokerVars, BothInv, BrokerInv
      <3>4. BrokerInv'
        BY <1>2, <3>1, <3>2, <3>3, FollowingFits DEF BothInv
      <3> QED BY <3>1, <3>4 DEF BothInv
    <2>2. CASE UNCHANGED jobVars
      <3>1. JobInv' /\ Typed /\ Typed' /\ BrokerInv /\ ledger' = ledger
        BY <1>2, <2>2, JobsRest DEF BothInv, JobInv, jobVars
      <3>2. \A r \in Runs : ledger'[r].events \in Nat /\ ledger[r].events <= ledger'[r].events
        BY <3>1, RefreshedFacts
      <3>4. CASE Start \/ Refresh
        <4>1. started' = TRUE /\ cursor' = Refreshed /\ UNCHANGED <<client, got>>
          BY <3>4 DEF Start, Refresh
        <4> QED BY <3>1, <3>2, <4>1, FollowingFits DEF BothInv
      <3>5. CASE Poll
        BY <3>1, <3>5, PollFits DEF BothInv
      <3>6. CASE \E c \in Clients : Disconnect(c) \/ \E since \in {Unseen} \cup 0..MaxEvents : Connect(c, since)
        BY <3>1, <3>6, DisconnectFits, ConnectFits DEF BothInv
      <3>7. CASE UNCHANGED vars
        <4>1. UNCHANGED <<started, cursor, client, got>> /\ started \in BOOLEAN
          BY <3>1, <3>7 DEF vars, brokerVars, BrokerInv
        <4> QED BY <3>1, <3>2, <4>1, FollowingFits DEF BothInv
      <3>8. (JobNext /\ UNCHANGED brokerVars) \/ Start \/ Refresh \/ Poll \/ UNCHANGED vars
            \/ \E c \in Clients : Disconnect(c) \/ \E since \in {Unseen} \cup 0..MaxEvents : Connect(c, since)
        BY <1>2 DEF Next
      <3>9. CASE JobNext /\ UNCHANGED brokerVars
        BY <2>1, <3>9
      <3> QED BY <3>4, <3>5, <3>6, <3>7, <3>8, <3>9
    <2>3. (JobNext /\ UNCHANGED brokerVars) \/ UNCHANGED jobVars
      BY <1>2 DEF Next, Start, Poll, Refresh, Disconnect, Connect, vars
    <2> QED BY <2>1, <2>2, <2>3
  <1> QED BY <1>1, <1>2, PTL DEF Spec

\* A client gets the events of a run one after the other, none twice and none left out, although a run
\* whose job file is being written drops out of the catalog and comes back from its first event.
THEOREM DeliveriesOrdered == Spec => []DeliversInOrder
  <1>1. ASSUME BothInv PROVE DeliversInOrder
    <2>1. Typed /\ BrokerInv
      BY <1>1 DEF BothInv, JobInv
    <2>2. TypeOK
      <3>1. JobTypeOK
        BY <2>1 DEF Typed, JobTypeOK, Served
      <3> QED BY <2>1, <3>1 DEF TypeOK, BrokerInv, Followed
    <2>3. ASSUME NEW c \in Clients, NEW r \in Runs, NEW i \in DOMAIN got[c][r]
          PROVE  /\ got[c][r][i] = got[c][r][1] + i - 1
                 /\ i = Len(got[c][r]) => client[c].last[r] = got[c][r][i]
      BY <2>1 DEF BrokerInv, Ordered
    <2> QED BY <2>2, <2>3 DEF DeliversInOrder
  <1> QED BY <1>1, BrokerHolds, PTL

\* The broker only looks on: with it, the processes do what they do without it.
THEOREM BrokerWatches == Spec => JobSpec
  <1>1. Init => JobInit
    BY DEF Init
  <1>2. [Next]_vars => [JobNext]_jobVars
    BY DEF Next, Start, Poll, Refresh, Disconnect, Connect, vars
  <1> QED BY <1>1, <1>2, PTL DEF Spec, JobSpec

-----------------------------------------------------------------------------
(* The destination of a synchronised skill *)

\* A directory with every file is one whole version.
Sound(t) == (IsDirectory(t) /\ DOMAIN t.files = Files) => t \in Wholes

\* t holds some of the files of u.
Part(t, u) ==
    /\ IsDirectory(t) /\ IsDirectory(u)
    /\ DOMAIN t.files \subseteq DOMAIN u.files
    /\ \A f \in DOMAIN t.files : t.files[f] = u.files[f]

\* Where the destination is that the run found.
Placed ==
    /\ run.pc \in {"mirror", "link", "backup", "saving", "stage", "staging", "set aside"} =>
        dest = previous /\ old = Nothing
    /\ run.pc \in {"install", "restore", "catch"} =>
        dest \in Wholes \/ (dest = previous /\ old = Nothing) \/ (dest = Nothing /\ old = previous)
    /\ run.pc = "clean up" => dest \in Wholes
    /\ run.pc = "install" => dest = Nothing
    /\ run.pc \in {"set aside", "install"} => staging \in Wholes
    /\ run.pc \in {"link", "remove", "symlink"} => run.link
    /\ run.pc = "symlink" => ~IsDirectory(previous)

\* What the backup holds.
Copied ==
    /\ run.pc \in {"backup", "saving"} => run.backup /\ IsDirectory(previous)
    /\ run.pc = "remove" => IsDirectory(previous)
    /\ run.pc = "saving" => run.saved \in backups /\ Part(run.saved, previous)
    /\ run.saved # Nothing =>
        /\ run.backup /\ IsDirectory(previous)
        /\ run.pc = "saving" \/ (run.saved = previous /\ previous \in backups)
    /\ (run.pc \in {"stage", "staging", "set aside", "install", "clean up", "restore", "remove", "recovering"}
            /\ run.backup /\ IsDirectory(previous)) => run.saved = previous
    /\ (run.pc = "catch" /\ run.backup /\ IsDirectory(previous)) => run.saved = previous \/ dest = previous
    /\ run.pc = "recovering" => run.saved # Nothing /\ Part(dest, run.saved)

\* A destination is left aside only by a second failure.
Counted ==
    /\ run.pc = "restore" => faults >= 1
    /\ (run.pc = "catch" /\ dest = Nothing /\ previous # Nothing) => faults >= 2

OneVersion == Sound(dest) /\ Sound(old) /\ Sound(previous)

Promises == PreviousSurvives /\ HalfInstalledIsBackedUp /\ OneFailureKeepsDestination

IInv == SyncTypeOK /\ Placed /\ Copied /\ Counted /\ OneVersion /\ Promises

-----------------------------------------------------------------------------
(* Trees *)

LEMMA Kinds ==
    /\ ~IsDirectory(Nothing) /\ ~IsDirectory(Link) /\ ~IsDirectory(Elsewhere) /\ IsDirectory(EmptyDirectory)
    /\ Exists(Link) /\ Exists(Elsewhere) /\ Exists(EmptyDirectory)
    /\ \A t : IsDirectory(t) => Exists(t)
<1>1. \A t : IsDirectory(t) => t # Nothing
  BY DEF IsDirectory, Nothing
<1>2. Link # Nothing /\ Elsewhere # Nothing
  BY DEF Link, Elsewhere, Nothing
<1> QED
  BY <1>1, <1>2 DEF IsDirectory, Exists, Nothing, Link, Elsewhere, EmptyDirectory, Directory

\* What the trees of the type are.
LEMMA TreeShape ==
    ASSUME NEW t \in Trees
    PROVE  /\ DOMAIN t.files \subseteq Files
           /\ t.files \in [DOMAIN t.files -> Versions]
           /\ IsDirectory(t) => t = Directory(t.files)
           /\ ~IsDirectory(t) => t \in {Nothing, Link, Elsewhere} /\ DOMAIN t.files = {}
<1>1. CASE t \in {Nothing, Link, Elsewhere}
  <2>1. t.files = [f \in {} |-> 0] /\ ~IsDirectory(t)
    BY <1>1 DEF Nothing, Link, Elsewhere, IsDirectory
  <2>2. [f \in {} |-> 0] \in [{} -> Versions] /\ DOMAIN [f \in {} |-> 0] = {}
    OBVIOUS
  <2> QED
    BY <1>1, <2>1, <2>2
<1>2. CASE \E D \in SUBSET Files : \E held \in [D -> Versions] : t = Directory(held)
  BY <1>2 DEF Directory, IsDirectory
<1> QED
  BY <1>1, <1>2 DEF Trees

LEMMA DirectoryIsTree ==
    ASSUME NEW D \in SUBSET Files, NEW held \in [D -> Versions]
    PROVE  Directory(held) \in Trees /\ IsDirectory(Directory(held))
BY DEF Trees, Directory, IsDirectory

LEMMA NamedTrees == {Nothing, Link, Elsewhere, EmptyDirectory} \subseteq Trees
<1>1. EmptyDirectory \in Trees
  BY DirectoryIsTree DEF EmptyDirectory
<1> QED
  BY <1>1 DEF Trees

\* A whole version is a directory with every file.
LEMMA WholeTrees ==
    ASSUME NEW t \in Wholes
    PROVE  t \in Trees /\ IsDirectory(t) /\ Exists(t) /\ DOMAIN t.files = Files
<1>1. PICK v \in Versions : t = WholeDirectory(v)
  BY DEF Wholes
<1>2. t = Directory([f \in Files |-> v]) /\ [f \in Files |-> v] \in [Files -> Versions]
  BY <1>1 DEF WholeDirectory
<1>3. t \in Trees /\ IsDirectory(t)
  BY <1>2, DirectoryIsTree
<1> QED
  BY <1>2, <1>3, Kinds DEF Directory

LEMMA WithTree ==
    ASSUME NEW t \in Trees, NEW f \in Files, NEW v \in Versions
    PROVE  /\ With(t, f, v) \in Trees /\ IsDirectory(With(t, f, v))
           /\ DOMAIN With(t, f, v).files = DOMAIN t.files \cup {f}
           /\ With(t, f, v).files[f] = v
           /\ \A g \in DOMAIN t.files \ {f} : With(t, f, v).files[g] = t.files[g]
<1> DEFINE D == DOMAIN t.files \cup {f}
           held == [g \in D |-> IF g = f THEN v ELSE t.files[g]]
<1>1. D \in SUBSET Files /\ held \in [D -> Versions]
  BY TreeShape
<1>2. With(t, f, v) = Directory(held)
  BY DEF With
<1>3. With(t, f, v).files = held
  BY <1>2 DEF Directory
<1> HIDE DEF held
<1>4. With(t, f, v) \in Trees /\ IsDirectory(With(t, f, v))
  BY <1>1, <1>2, DirectoryIsTree
<1> QED
  BY <1>3, <1>4 DEF held

LEMMA WithoutTree ==
    ASSUME NEW t \in Trees, NEW f \in DOMAIN t.files
    PROVE  /\ Without(t, f) \in Trees /\ IsDirectory(Without(t, f))
           /\ DOMAIN Without(t, f).files # Files
<1> DEFINE D == DOMAIN t.files \ {f}
           held == [g \in D |-> t.files[g]]
<1>1. D \in SUBSET Files /\ held \in [D -> Versions] /\ f \in Files
  BY TreeShape
<1>2. Without(t, f) = Directory(held)
  BY DEF Without
<1>3. Without(t, f).files = held
  BY <1>2 DEF Directory
<1> HIDE DEF held
<1>4. Without(t, f) \in Trees /\ IsDirectory(Without(t, f))
  BY <1>1, <1>2, DirectoryIsTree
<1> QED
  BY <1>1, <1>3, <1>4 DEF held

\* A partial copy with every file is a copy.
LEMMA WholePart ==
    ASSUME NEW t \in Trees, NEW u \in Trees, Part(t, u), DOMAIN u.files \subseteq DOMAIN t.files
    PROVE  t = u
<1>1. t = Directory(t.files) /\ u = Directory(u.files)
  BY TreeShape DEF Part
<1>2. t.files \in [DOMAIN t.files -> Versions] /\ u.files \in [DOMAIN u.files -> Versions]
  BY TreeShape
<1>3. DOMAIN t.files = DOMAIN u.files /\ \A f \in DOMAIN t.files : t.files[f] = u.files[f]
  BY DEF Part
<1>4. t.files = u.files
  BY <1>2, <1>3
<1> QED
  BY <1>1, <1>4

\* Adding a file of the original to a partial copy.
LEMMA PartGrows ==
    ASSUME NEW t \in Trees, NEW u \in Trees, Part(t, u), NEW f \in DOMAIN u.files
    PROVE  Part(With(t, f, u.files[f]), u) /\ With(t, f, u.files[f]) \in Trees
<1>1. f \in Files /\ u.files[f] \in Versions
  BY TreeShape
<1> QED
  BY <1>1, WithTree DEF Part

\* A copy begins as part of any directory.
LEMMA EmptyPart == \A u : IsDirectory(u) => Part(EmptyDirectory, u)
<1>1. DOMAIN EmptyDirectory.files = {}
  BY DEF EmptyDirectory, Directory
<1> QED
  BY <1>1, Kinds DEF Part

\* What holds no file, one whole version, or part of a sound directory is sound.
LEMMA SoundTrees ==
    /\ Sound(Nothing) /\ Sound(Link) /\ Sound(Elsewhere) /\ Sound(EmptyDirectory)
    /\ \A t \in Wholes : Sound(t)
    /\ \A t, u \in Trees : Part(t, u) /\ Sound(u) => Sound(t)
<1>1. Sound(EmptyDirectory)
  <2>1. DOMAIN EmptyDirectory.files = {}
    BY DEF EmptyDirectory, Directory
  <2> QED
    BY <2>1, SyncAssumption DEF Sound
<1>2. ASSUME NEW t \in Trees, NEW u \in Trees, Part(t, u), Sound(u)
      PROVE  Sound(t)
  <2>1. SUFFICES ASSUME DOMAIN t.files = Files PROVE t \in Wholes
    BY DEF Sound
  <2>2. t = u
    BY <1>2, <2>1, WholePart, TreeShape
  <2> QED
    BY <1>2, <2>1, <2>2 DEF Sound, Part
<1> QED
  BY <1>1, <1>2, Kinds DEF Sound

-----------------------------------------------------------------------------

\* Faults, runs and edits are counted within their syncBounds.
LEMMA Counting ==
    ASSUME SyncTypeOK
    PROVE  /\ Fault => faults' \in 0 .. MaxFaults
           /\ Fault => faults' >= 1 /\ (faults >= 1 => faults' >= 2) /\ (faults' <= 1 => faults = 0)
           /\ faults >= 2 => ~(faults <= 1)
           /\ runs < MaxSyncs => runs + 1 \in 0 .. MaxSyncs
           /\ edits < MaxEdits => edits + 1 \in 0 .. MaxEdits
BY SyncAssumption DEF SyncTypeOK, Fault

\* SyncTypeOK is inductive: one step per action.
LEMMA SyncTyped ==
    ASSUME SyncTypeOK, [SyncNext]_syncVars
    PROVE  SyncTypeOK'
<1> USE NamedTrees, Counting
<1> USE DEF SyncTypeOK, Points, Outcomes, syncVars, world, syncBounds, SyncGoto, End, Retire, FailTo, Throws
<1>1. CASE UNCHANGED syncVars
  BY ZenonT(30), <1>1
<1>2. ASSUME NEW link \in BOOLEAN, NEW backup \in BOOLEAN, NEW guard \in BOOLEAN, BeginSync(link, backup, guard)
      PROVE  SyncTypeOK'
  BY <1>2 DEF BeginSync, Idle
<1>3. CASE Unchanged
  BY <1>3 DEF Unchanged
<1>4. CASE Refused
  BY <1>4 DEF Refused
<1>5. CASE StartMirror
  BY <1>5 DEF StartMirror
<1>6. CASE StartBackup
  BY <1>6 DEF StartBackup
<1>7. CASE SaveFile
  <2>1. PICK f \in DOMAIN dest.files \ DOMAIN run.saved.files :
            run' = [run EXCEPT !.saved = With(run.saved, f, dest.files[f])]
            /\ backups' = backups \cup {With(run.saved, f, dest.files[f])}
    BY <1>7 DEF SaveFile
  <2>2. f \in Files /\ dest.files[f] \in Versions
    BY <2>1, TreeShape
  <2>3. With(run.saved, f, dest.files[f]) \in Trees
    BY <2>2, WithTree
  <2> QED
    BY <1>7, <2>1, <2>3 DEF SaveFile
<1>8. CASE Saved
  BY <1>8 DEF Saved
<1>9. CASE BackupFails
  BY ZenonT(30), <1>9 DEF BackupFails
<1>10. CASE StartStaging
  BY <1>10 DEF StartStaging
<1>11. CASE StageFile
  <2>1. PICK f \in Files : staging' = With(staging, f, source)
    BY <1>11 DEF StageFile
  <2>2. staging' \in Trees
    BY <2>1, WithTree
  <2> QED
    BY <1>11, <2>2 DEF StageFile
<1>12. CASE StagingFails
  BY <1>12 DEF StagingFails
<1>13. CASE Validate
  BY <1>13 DEF Validate
<1>14. CASE RenameOld
  BY <1>14 DEF RenameOld, SetAside
<1>15. CASE RenameOldFails
  BY <1>15 DEF RenameOldFails
<1>16. CASE RenameNew
  BY <1>16 DEF RenameNew
<1>17. CASE RenameNewFails
  BY <1>17 DEF RenameNewFails
<1>18. CASE CleanUp
  BY <1>18, WithoutTree DEF CleanUp
<1>19. CASE CleanUpFails
  BY <1>19 DEF CleanUpFails
<1>20. CASE Mirrored
  BY <1>20 DEF Mirrored
<1>21. CASE Restore
  BY <1>21 DEF Restore
<1>22. CASE RestoreFails
  BY <1>22 DEF RestoreFails
<1>23. CASE RemoveStaging
  BY <1>23, WithoutTree DEF RemoveStaging
<1>24. CASE HandlerFails
  BY <1>24 DEF HandlerFails
<1>25. CASE Recover
  BY <1>25 DEF Recover
<1>26. CASE RecoverFile
  <2>1. PICK f \in DOMAIN run.saved.files : dest' = With(dest, f, run.saved.files[f])
    BY <1>26 DEF RecoverFile
  <2>2. f \in Files /\ run.saved.files[f] \in Versions
    BY <2>1, TreeShape
  <2>3. dest' \in Trees
    BY <2>1, <2>2, WithTree
  <2> QED
    BY <1>26, <2>3 DEF RecoverFile
<1>27. CASE MirrorFailed
  BY <1>27 DEF MirrorFailed, Lost
<1>28. CASE LinkUnchanged
  BY <1>28 DEF LinkUnchanged
<1>29. CASE StartLink
  BY <1>29 DEF StartLink
<1>30. CASE UnlinkFails
  BY <1>30 DEF UnlinkFails
<1>31. CASE RemoveDestination
  BY <1>31, WithoutTree DEF RemoveDestination
<1>32. CASE RemoveFails
  BY <1>32 DEF RemoveFails
<1>33. CASE MakeLink
  BY <1>33 DEF MakeLink
<1>34. CASE MakeLinkFails
  BY <1>34 DEF MakeLinkFails
<1>35. CASE CrashSync
  BY <1>35 DEF CrashSync
<1>36. CASE Edit
  BY ZenonT(30), <1>36 DEF Edit
<1> QED
  BY <1>1, <1>2, <1>3, <1>4, <1>5, <1>6, <1>7, <1>8, <1>9, <1>10, <1>11, <1>12, <1>13,
     <1>14, <1>15, <1>16, <1>17, <1>18, <1>19, <1>20, <1>21, <1>22, <1>23, <1>24, <1>25,
     <1>26, <1>27, <1>28, <1>29, <1>30, <1>31, <1>32, <1>33, <1>34, <1>35, <1>36 DEF SyncNext,
     Mirror, Linking

\* Only the two renames, the handler and link mode move the destination, each from where
\* Placed has it.
LEMMA PlacedKept ==
    ASSUME SyncTypeOK, SyncTypeOK', Placed, [SyncNext]_syncVars
    PROVE  Placed'
<1> USE NamedTrees, Kinds, WholeTrees
<1> USE DEF SyncTypeOK, Placed, syncVars, world, syncBounds, SyncGoto, End, Retire, FailTo, Throws
<1>1. CASE UNCHANGED syncVars
  BY <1>1
<1>2. ASSUME NEW link \in BOOLEAN, NEW backup \in BOOLEAN, NEW guard \in BOOLEAN, BeginSync(link, backup, guard)
      PROVE  Placed'
  BY <1>2 DEF BeginSync, Idle
<1>3. CASE Unchanged
  BY <1>3 DEF Unchanged
<1>4. CASE Refused
  BY <1>4 DEF Refused
<1>5. CASE StartMirror
  BY <1>5 DEF StartMirror
<1>6. CASE StartBackup
  BY <1>6 DEF StartBackup
<1>7. CASE SaveFile
  BY <1>7 DEF SaveFile
<1>8. CASE Saved
  BY <1>8 DEF Saved
<1>9. CASE BackupFails
  BY <1>9 DEF BackupFails
<1>10. CASE StartStaging
  BY <1>10 DEF StartStaging
<1>11. CASE StageFile
  BY <1>11 DEF StageFile
<1>12. CASE StagingFails
  BY <1>12 DEF StagingFails
<1>13. CASE Validate
  <2>1. WholeDirectory(source) \in Wholes
    BY DEF SyncTypeOK, Wholes
  <2> QED
    BY <1>13, <2>1 DEF Validate, Validated
<1>14. CASE RenameOld
  BY <1>14 DEF RenameOld, SetAside, Exists
<1>15. CASE RenameOldFails
  BY <1>15 DEF RenameOldFails
<1>16. CASE RenameNew
  BY <1>16 DEF RenameNew
<1>17. CASE RenameNewFails
  BY <1>17 DEF RenameNewFails
<1>18. CASE CleanUp
  BY <1>18 DEF CleanUp
<1>19. CASE CleanUpFails
  BY <1>19 DEF CleanUpFails
<1>20. CASE Mirrored
  BY <1>20 DEF Mirrored
<1>21. CASE Restore
  BY <1>21 DEF Restore, Restorable, Exists
<1>22. CASE RestoreFails
  BY <1>22 DEF RestoreFails
<1>23. CASE RemoveStaging
  BY <1>23 DEF RemoveStaging
<1>24. CASE HandlerFails
  BY <1>24 DEF HandlerFails
<1>25. CASE Recover
  BY <1>25 DEF Recover
<1>26. CASE RecoverFile
  BY <1>26 DEF RecoverFile
<1>27. CASE MirrorFailed
  BY <1>27 DEF MirrorFailed
<1>28. CASE LinkUnchanged
  BY <1>28 DEF LinkUnchanged
<1>29. CASE StartLink
  BY <1>29 DEF StartLink
<1>30. CASE UnlinkFails
  BY <1>30 DEF UnlinkFails
<1>31. CASE RemoveDestination
  BY <1>31 DEF RemoveDestination
<1>32. CASE RemoveFails
  BY <1>32 DEF RemoveFails
<1>33. CASE MakeLink
  BY <1>33 DEF MakeLink
<1>34. CASE MakeLinkFails
  BY <1>34 DEF MakeLinkFails
<1>35. CASE CrashSync
  BY <1>35 DEF CrashSync
<1>36. CASE Edit
  BY <1>36 DEF Edit
<1> QED
  BY <1>1, <1>2, <1>3, <1>4, <1>5, <1>6, <1>7, <1>8, <1>9, <1>10, <1>11, <1>12, <1>13,
     <1>14, <1>15, <1>16, <1>17, <1>18, <1>19, <1>20, <1>21, <1>22, <1>23, <1>24, <1>25,
     <1>26, <1>27, <1>28, <1>29, <1>30, <1>31, <1>32, <1>33, <1>34, <1>35, <1>36 DEF SyncNext,
     Mirror, Linking

\* A backup is taken from the destination while it is in place, file by file, and is not
\* touched once it is complete.
LEMMA CopiedKept ==
    ASSUME SyncTypeOK, SyncTypeOK', Placed, Copied, [SyncNext]_syncVars
    PROVE  Copied'
<1> USE Kinds, EmptyPart
<1> USE DEF SyncTypeOK, Placed, Copied, syncVars, world, syncBounds, SyncGoto, End, Retire, FailTo, Throws
<1>1. CASE UNCHANGED syncVars
  BY <1>1
<1>2. ASSUME NEW link \in BOOLEAN, NEW backup \in BOOLEAN, NEW guard \in BOOLEAN, BeginSync(link, backup, guard)
      PROVE  Copied'
  BY <1>2 DEF BeginSync, Idle
<1>3. CASE Unchanged
  BY <1>3 DEF Unchanged
<1>4. CASE Refused
  BY <1>4 DEF Refused
<1>5. CASE StartMirror
  BY <1>5 DEF StartMirror
<1>6. CASE StartBackup
  BY <1>6 DEF StartBackup
<1>7. CASE SaveFile
  <2>1. PICK f \in DOMAIN dest.files :
            /\ run' = [run EXCEPT !.saved = With(run.saved, f, dest.files[f])]
            /\ backups' = backups \cup {With(run.saved, f, dest.files[f])}
    BY <1>7 DEF SaveFile
  <2>2. dest = previous /\ IsDirectory(previous) /\ Part(run.saved, previous) /\ run.backup
    BY <1>7 DEF SaveFile
  <2>3. Part(With(run.saved, f, dest.files[f]), previous)
    BY <2>1, <2>2, PartGrows DEF SyncTypeOK
  <2> HIDE DEF Placed
  <2> QED
    BY <1>7, <2>1, <2>2, <2>3 DEF SaveFile, SyncTypeOK
<1>8. CASE Saved
  BY <1>8 DEF Saved, BackedUp
<1>9. CASE BackupFails
  <2>1. CASE run.link
    <3>1. run'.pc = "idle" /\ run'.saved = Nothing
      BY <1>9, <2>1 DEF BackupFails
    <3> QED
      BY <3>1
  <2>2. CASE ~run.link
    <3>1. dest' = previous' /\ run'.pc = "catch" /\ run'.saved = Nothing
      BY <1>9, <2>2 DEF BackupFails
    <3> QED
      BY <3>1
  <2> QED
    BY <2>1, <2>2
<1>10. CASE StartStaging
  BY <1>10 DEF StartStaging
<1>11. CASE StageFile
  BY <1>11 DEF StageFile
<1>12. CASE StagingFails
  BY <1>12 DEF StagingFails
<1>13. CASE Validate
  BY <1>13 DEF Validate
<1>14. CASE RenameOld
  BY <1>14 DEF RenameOld, SetAside
<1>15. CASE RenameOldFails
  BY <1>15 DEF RenameOldFails
<1>16. CASE RenameNew
  BY <1>16 DEF RenameNew
<1>17. CASE RenameNewFails
  BY <1>17 DEF RenameNewFails
<1>18. CASE CleanUp
  BY <1>18 DEF CleanUp
<1>19. CASE CleanUpFails
  BY <1>19 DEF CleanUpFails
<1>20. CASE Mirrored
  BY <1>20 DEF Mirrored
<1>21. CASE Restore
  BY <1>21 DEF Restore
<1>22. CASE RestoreFails
  BY <1>22 DEF RestoreFails
<1>23. CASE RemoveStaging
  BY <1>23 DEF RemoveStaging
<1>24. CASE HandlerFails
  BY <1>24 DEF HandlerFails
<1>25. CASE Recover
  BY <1>25 DEF Recover, Lost, Exists
<1>26. CASE RecoverFile
  <2>1. PICK f \in DOMAIN run.saved.files : dest' = With(dest, f, run.saved.files[f])
    BY <1>26 DEF RecoverFile
  <2>2. Part(dest', run.saved)
    BY <1>26, <2>1, PartGrows DEF RecoverFile, SyncTypeOK
  <2> QED
    BY <1>26, <2>2 DEF RecoverFile, SyncTypeOK
<1>27. CASE MirrorFailed
  BY <1>27 DEF MirrorFailed
<1>28. CASE LinkUnchanged
  BY <1>28 DEF LinkUnchanged
<1>29. CASE StartLink
  BY <1>29 DEF StartLink
<1>30. CASE UnlinkFails
  BY <1>30 DEF UnlinkFails
<1>31. CASE RemoveDestination
  BY <1>31 DEF RemoveDestination
<1>32. CASE RemoveFails
  BY <1>32 DEF RemoveFails
<1>33. CASE MakeLink
  BY <1>33 DEF MakeLink
<1>34. CASE MakeLinkFails
  BY <1>34 DEF MakeLinkFails
<1>35. CASE CrashSync
  BY <1>35 DEF CrashSync
<1>36. CASE Edit
  BY <1>36 DEF Edit
<1> QED
  BY <1>1, <1>2, <1>3, <1>4, <1>5, <1>6, <1>7, <1>8, <1>9, <1>10, <1>11, <1>12, <1>13,
     <1>14, <1>15, <1>16, <1>17, <1>18, <1>19, <1>20, <1>21, <1>22, <1>23, <1>24, <1>25,
     <1>26, <1>27, <1>28, <1>29, <1>30, <1>31, <1>32, <1>33, <1>34, <1>35, <1>36 DEF SyncNext,
     Mirror, Linking

\* The renames fail one by one: the destination is gone only when its return failed too.
LEMMA CountedKept ==
    ASSUME SyncTypeOK, SyncTypeOK', Placed, Counted, [SyncNext]_syncVars
    PROVE  Counted'
<1> USE Kinds, Counting, WholeTrees
<1> USE DEF SyncTypeOK, Placed, Counted, syncVars, world, syncBounds, SyncGoto, End, Retire, FailTo, Throws
<1>1. CASE UNCHANGED syncVars
  BY <1>1
<1>2. ASSUME NEW link \in BOOLEAN, NEW backup \in BOOLEAN, NEW guard \in BOOLEAN, BeginSync(link, backup, guard)
      PROVE  Counted'
  BY <1>2 DEF BeginSync, Idle
<1>3. CASE Unchanged
  BY <1>3 DEF Unchanged
<1>4. CASE Refused
  BY <1>4 DEF Refused
<1>5. CASE StartMirror
  BY <1>5 DEF StartMirror
<1>6. CASE StartBackup
  BY <1>6 DEF StartBackup
<1>7. CASE SaveFile
  BY <1>7 DEF SaveFile
<1>8. CASE Saved
  BY <1>8 DEF Saved
<1>9. CASE BackupFails
  BY <1>9 DEF BackupFails, Fault
<1>10. CASE StartStaging
  BY <1>10 DEF StartStaging
<1>11. CASE StageFile
  BY <1>11 DEF StageFile
<1>12. CASE StagingFails
  BY <1>12 DEF StagingFails
<1>13. CASE Validate
  BY <1>13 DEF Validate
<1>14. CASE RenameOld
  BY <1>14 DEF RenameOld, SetAside
<1>15. CASE RenameOldFails
  BY <1>15 DEF RenameOldFails
<1>16. CASE RenameNew
  BY <1>16 DEF RenameNew
<1>17. CASE RenameNewFails
  BY <1>17 DEF RenameNewFails
<1>18. CASE CleanUp
  BY <1>18 DEF CleanUp
<1>19. CASE CleanUpFails
  BY <1>19 DEF CleanUpFails
<1>20. CASE Mirrored
  BY <1>20 DEF Mirrored
<1>21. CASE Restore
  BY <1>21 DEF Restore, Restorable, Exists
<1>22. CASE RestoreFails
  BY <1>22 DEF RestoreFails, Restorable
<1>23. CASE RemoveStaging
  BY <1>23 DEF RemoveStaging
<1>24. CASE HandlerFails
  BY <1>24 DEF HandlerFails
<1>25. CASE Recover
  BY <1>25 DEF Recover
<1>26. CASE RecoverFile
  BY <1>26 DEF RecoverFile
<1>27. CASE MirrorFailed
  BY <1>27 DEF MirrorFailed
<1>28. CASE LinkUnchanged
  BY <1>28 DEF LinkUnchanged
<1>29. CASE StartLink
  BY <1>29 DEF StartLink
<1>30. CASE UnlinkFails
  BY <1>30 DEF UnlinkFails
<1>31. CASE RemoveDestination
  BY <1>31 DEF RemoveDestination
<1>32. CASE RemoveFails
  BY <1>32 DEF RemoveFails
<1>33. CASE MakeLink
  BY <1>33 DEF MakeLink
<1>34. CASE MakeLinkFails
  BY <1>34 DEF MakeLinkFails
<1>35. CASE CrashSync
  BY <1>35 DEF CrashSync
<1>36. CASE Edit
  BY <1>36 DEF Edit
<1> QED
  BY <1>1, <1>2, <1>3, <1>4, <1>5, <1>6, <1>7, <1>8, <1>9, <1>10, <1>11, <1>12, <1>13,
     <1>14, <1>15, <1>16, <1>17, <1>18, <1>19, <1>20, <1>21, <1>22, <1>23, <1>24, <1>25,
     <1>26, <1>27, <1>28, <1>29, <1>30, <1>31, <1>32, <1>33, <1>34, <1>35, <1>36 DEF SyncNext,
     Mirror, Linking

\* A directory gets all its files from one complete tree, or does not have them all.
LEMMA OneVersionKept ==
    ASSUME SyncTypeOK, SyncTypeOK', Placed, Copied, OneVersion, [SyncNext]_syncVars
    PROVE  OneVersion'
<1> USE SoundTrees
<1> USE DEF SyncTypeOK, Placed, Copied, OneVersion, syncVars, world, syncBounds, SyncGoto, End, Retire,
    FailTo, Throws
<1>1. CASE UNCHANGED syncVars
  BY <1>1
<1>2. ASSUME NEW link \in BOOLEAN, NEW backup \in BOOLEAN, NEW guard \in BOOLEAN, BeginSync(link, backup, guard)
      PROVE  OneVersion'
  BY <1>2 DEF BeginSync, Idle
<1>3. CASE Unchanged
  BY <1>3 DEF Unchanged
<1>4. CASE Refused
  BY <1>4 DEF Refused
<1>5. CASE StartMirror
  BY <1>5 DEF StartMirror
<1>6. CASE StartBackup
  BY <1>6 DEF StartBackup
<1>7. CASE SaveFile
  BY <1>7 DEF SaveFile
<1>8. CASE Saved
  BY <1>8 DEF Saved
<1>9. CASE BackupFails
  BY <1>9 DEF BackupFails
<1>10. CASE StartStaging
  BY <1>10 DEF StartStaging
<1>11. CASE StageFile
  BY <1>11 DEF StageFile
<1>12. CASE StagingFails
  BY <1>12 DEF StagingFails
<1>13. CASE Validate
  BY <1>13 DEF Validate
<1>14. CASE RenameOld
  BY <1>14 DEF RenameOld, SetAside
<1>15. CASE RenameOldFails
  BY <1>15 DEF RenameOldFails
<1>16. CASE RenameNew
  BY <1>16 DEF RenameNew
<1>17. CASE RenameNewFails
  BY <1>17 DEF RenameNewFails
<1>18. CASE CleanUp
  <2>1. Sound(old')
    BY <1>18, WithoutTree, SoundTrees DEF CleanUp, SyncTypeOK, Sound
  <2> QED
    BY <1>18, <2>1 DEF CleanUp, OneVersion
<1>19. CASE CleanUpFails
  BY <1>19 DEF CleanUpFails
<1>20. CASE Mirrored
  BY <1>20 DEF Mirrored
<1>21. CASE Restore
  BY <1>21 DEF Restore
<1>22. CASE RestoreFails
  BY <1>22 DEF RestoreFails
<1>23. CASE RemoveStaging
  BY <1>23 DEF RemoveStaging
<1>24. CASE HandlerFails
  BY <1>24 DEF HandlerFails
<1>25. CASE Recover
  BY <1>25 DEF Recover
<1>26. CASE RecoverFile
  <2>1. PICK f \in DOMAIN run.saved.files : dest' = With(dest, f, run.saved.files[f])
    BY <1>26 DEF RecoverFile
  <2>2. Part(dest', run.saved) /\ run.saved = previous
    BY <1>26, <2>1, PartGrows DEF RecoverFile, SyncTypeOK, Copied
  <2>3. Sound(dest')
    BY <2>2, SoundTrees DEF SyncTypeOK, OneVersion
  <2> QED
    BY <1>26, <2>3 DEF RecoverFile, OneVersion
<1>27. CASE MirrorFailed
  BY <1>27 DEF MirrorFailed
<1>28. CASE LinkUnchanged
  BY <1>28 DEF LinkUnchanged
<1>29. CASE StartLink
  BY <1>29 DEF StartLink
<1>30. CASE UnlinkFails
  BY <1>30 DEF UnlinkFails
<1>31. CASE RemoveDestination
  <2>1. Sound(dest')
    BY <1>31, WithoutTree, SoundTrees DEF RemoveDestination, SyncTypeOK, Sound
  <2> QED
    BY <1>31, <2>1 DEF RemoveDestination, OneVersion
<1>32. CASE RemoveFails
  BY <1>32 DEF RemoveFails
<1>33. CASE MakeLink
  BY <1>33 DEF MakeLink
<1>34. CASE MakeLinkFails
  BY <1>34 DEF MakeLinkFails
<1>35. CASE CrashSync
  BY <1>35 DEF CrashSync
<1>36. CASE Edit
  BY <1>36 DEF Edit
<1> QED
  BY <1>1, <1>2, <1>3, <1>4, <1>5, <1>6, <1>7, <1>8, <1>9, <1>10, <1>11, <1>12, <1>13,
     <1>14, <1>15, <1>16, <1>17, <1>18, <1>19, <1>20, <1>21, <1>22, <1>23, <1>24, <1>25,
     <1>26, <1>27, <1>28, <1>29, <1>30, <1>31, <1>32, <1>33, <1>34, <1>35, <1>36 DEF SyncNext,
     Mirror, Linking

\* The properties, from where the previous destination is and what its backup holds.
LEMMA PromisesKept ==
    ASSUME SyncTypeOK, SyncTypeOK', Placed, Copied, Counted, Promises, [SyncNext]_syncVars
    PROVE  Promises'
<1> USE Kinds, Counting, WholeTrees
<1> USE DEF SyncTypeOK, Placed, Copied, Counted, Promises, PreviousSurvives,
    HalfInstalledIsBackedUp, OneFailureKeepsDestination, syncVars, world, syncBounds, SyncGoto, End,
    Retire, FailTo, Throws
<1>1. CASE UNCHANGED syncVars
  BY <1>1
<1>2. ASSUME NEW link \in BOOLEAN, NEW backup \in BOOLEAN, NEW guard \in BOOLEAN, BeginSync(link, backup, guard)
      PROVE  Promises'
  BY <1>2 DEF BeginSync, Idle
<1>3. CASE Unchanged
  BY <1>3 DEF Unchanged
<1>4. CASE Refused
  BY <1>4 DEF Refused
<1>5. CASE StartMirror
  BY <1>5 DEF StartMirror
<1>6. CASE StartBackup
  BY <1>6 DEF StartBackup
<1>7. CASE SaveFile
  BY <1>7 DEF SaveFile
<1>8. CASE Saved
  BY <1>8 DEF Saved
<1>9. CASE BackupFails
  BY <1>9 DEF BackupFails
<1>10. CASE StartStaging
  BY <1>10 DEF StartStaging
<1>11. CASE StageFile
  BY <1>11 DEF StageFile
<1>12. CASE StagingFails
  BY <1>12 DEF StagingFails
<1>13. CASE Validate
  BY <1>13 DEF Validate
<1>14. CASE RenameOld
  BY <1>14 DEF RenameOld, SetAside, Exists
<1>15. CASE RenameOldFails
  BY <1>15 DEF RenameOldFails
<1>16. CASE RenameNew
  BY <1>16 DEF RenameNew
<1>17. CASE RenameNewFails
  BY <1>17 DEF RenameNewFails
<1>18. CASE CleanUp
  BY <1>18 DEF CleanUp
<1>19. CASE CleanUpFails
  BY <1>19 DEF CleanUpFails
<1>20. CASE Mirrored
  BY <1>20 DEF Mirrored
<1>21. CASE Restore
  BY <1>21 DEF Restore, Restorable
<1>22. CASE RestoreFails
  BY <1>22 DEF RestoreFails
<1>23. CASE RemoveStaging
  BY <1>23 DEF RemoveStaging
<1>24. CASE HandlerFails
  BY <1>24 DEF HandlerFails, Lost
<1>25. CASE Recover
  BY <1>25 DEF Recover, Lost, Exists
<1>26. CASE RecoverFile
  BY <1>26 DEF RecoverFile
<1>27. CASE MirrorFailed
  <2>1. run'.pc = "idle" /\ dest' = dest /\ previous' = previous /\ backups' = backups
        /\ faults' = faults /\ run'.backup = run.backup /\ run'.link = run.link /\ left' = left \cup ({staging, old} \ {Nothing})
    BY <1>27 DEF MirrorFailed
  <2>2. dest \in {previous} \cup Wholes \/ faults >= 2
    <3>1. CASE run.pc = "recovering"
      BY <1>27, <3>1 DEF MirrorFailed
    <3>2. CASE run.pc = "catch"
      BY <3>2
    <3> QED
      BY <1>27, <3>1, <3>2 DEF MirrorFailed
  <2>3. PreviousSurvives'
    BY <2>1
  <2>4. HalfInstalledIsBackedUp'
    BY <2>1
  <2> QED
    BY <2>1, <2>2, <2>3, <2>4
<1>28. CASE LinkUnchanged
  BY <1>28 DEF LinkUnchanged
<1>29. CASE StartLink
  BY <1>29 DEF StartLink
<1>30. CASE UnlinkFails
  BY <1>30 DEF UnlinkFails
<1>31. CASE RemoveDestination
  <2>1. /\ run' = run /\ previous' = previous /\ backups' = backups /\ left' = left /\ old' = old
        /\ run.pc = "remove" /\ run.link
    BY <1>31 DEF RemoveDestination
  <2>2. IsDirectory(previous) /\ run.backup => previous \in backups
    BY <2>1
  <2>3. PreviousSurvives'
    BY <2>1, <2>2
  <2>4. IsDirectory(dest') => DOMAIN dest.files # {}
    BY <1>31 DEF RemoveDestination
  <2>5. IsDirectory(dest') => IsDirectory(dest)
    BY <2>4, TreeShape
  <2>6. HalfInstalledIsBackedUp'
    BY <2>1, <2>2, <2>5
  <2> QED
    BY <2>1, <2>3, <2>6
<1>32. CASE RemoveFails
  BY <1>32 DEF RemoveFails
<1>33. CASE MakeLink
  BY <1>33 DEF MakeLink
<1>34. CASE MakeLinkFails
  BY <1>34 DEF MakeLinkFails
<1>35. CASE CrashSync
  BY <1>35 DEF CrashSync
<1>36. CASE Edit
  BY <1>36 DEF Edit
<1> QED
  BY <1>1, <1>2, <1>3, <1>4, <1>5, <1>6, <1>7, <1>8, <1>9, <1>10, <1>11, <1>12, <1>13,
     <1>14, <1>15, <1>16, <1>17, <1>18, <1>19, <1>20, <1>21, <1>22, <1>23, <1>24, <1>25,
     <1>26, <1>27, <1>28, <1>29, <1>30, <1>31, <1>32, <1>33, <1>34, <1>35, <1>36 DEF SyncNext,
     Mirror, Linking

LEMMA InitIsSound == SyncInit => IInv
<1> SUFFICES ASSUME SyncInit PROVE IInv
  OBVIOUS
<1>1. dest \in {Nothing, Elsewhere} \cup Wholes /\ dest \in Trees /\ previous = dest
  BY NamedTrees, WholeTrees DEF SyncInit, Wholes
<1>2. SyncTypeOK
  BY <1>1, NamedTrees, SyncAssumption DEF SyncInit, SyncTypeOK, Idle, Points, Outcomes
<1>3. Placed /\ Copied /\ Counted
  BY <1>1 DEF SyncInit, Idle, Placed, Copied, Counted
<1>4. OneVersion
  BY <1>1, SoundTrees DEF SyncInit, OneVersion
<1>5. Promises
  BY <1>1 DEF SyncInit, Idle, Promises, PreviousSurvives, HalfInstalledIsBackedUp,
     OneFailureKeepsDestination
<1> QED
  BY <1>2, <1>3, <1>4, <1>5 DEF IInv

LEMMA Invariant == SyncSpec => []IInv
<1>1. ASSUME IInv, [SyncNext]_syncVars
      PROVE  IInv'
  BY <1>1, SyncTyped, PlacedKept, CopiedKept, CountedKept, OneVersionKept, PromisesKept DEF IInv
<1> QED
  BY InitIsSound, <1>1, PTL DEF SyncSpec

\* The variables of runSync and of the disk keep their types, and a run that ended has no
\* directories of its own.
THEOREM TypeCorrect == SyncSpec => []SyncTypeOK
<1>1. IInv => SyncTypeOK
  BY DEF IInv
<1> QED
  BY Invariant, <1>1, PTL

\* Whatever operation fails and wherever the process dies, the directory that was at the
\* destination stays on the disk, complete, until a new version or a link replaces it in a run
\* without a backup: of createExternalBackup, atomicSwap and the handler of runSync.
THEOREM PreviousIsKept == SyncSpec => []PreviousSurvives
<1>1. IInv => PreviousSurvives
  BY DEF IInv, Promises
<1> QED
  BY Invariant, <1>1, PTL

\* A destination with files missing is seen only where its predecessor is in a backup, or where
\* a link replaces it without one.
THEOREM HalfInstalledHasBackup == SyncSpec => []HalfInstalledIsBackedUp
<1>1. IInv => HalfInstalledIsBackedUp
  BY DEF IInv, Promises
<1> QED
  BY Invariant, <1>1, PTL

\* Both of the above for well typed states: what the runs of runSync may never do to a destination.
THEOREM DestinationStaysSafe == SyncSpec => []DestinationIsSafe
<1>1. SyncTypeOK /\ PreviousSurvives /\ HalfInstalledIsBackedUp => DestinationIsSafe
  BY DEF DestinationIsSafe
<1> QED
  BY TypeCorrect, PreviousIsKept, HalfInstalledHasBackup, <1>1, PTL

\* A complete directory at the destination holds files of one version, although the source is
\* edited while runSync copies it.
THEOREM DestinationIsOneVersion == SyncSpec => []InstallsOneVersion
<1>1. ASSUME IInv
      PROVE  InstallsOneVersion
  BY <1>1 DEF IInv, OneVersion, Sound, InstallsOneVersion
<1> QED
  BY Invariant, <1>1, PTL

\* A mirror that reports a failure after a single failed operation has left the destination as
\* it was, or the new version in place.
THEOREM OneFailureIsHarmless == SyncSpec => []OneFailureKeepsDestination
<1>1. IInv => OneFailureKeepsDestination
  BY DEF IInv, Promises
<1> QED
  BY Invariant, <1>1, PTL
====
