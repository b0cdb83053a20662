---- MODULE JobFiles ----
(***************************************************************************)
(* The files that name a skill's runs: each run's job.json, the pointer to  *)
(* the active run and the map of migrated legacy runs, as several processes *)
(* open, advance, rotate, archive and switch runs.                          *)
(*                                                                          *)
(* Nothing locks these files.  A write truncates the file and then fills    *)
(* it, so others may read it empty, and it stays empty when the writer dies *)
(* in between.  An update reads job.json, merges and writes it whole.       *)
(*                                                                          *)
(* A run is a number, in the order the identifiers were made; 0 is the name *)
(* "default".  A run is live until its ledger reaches a terminal state.     *)
(***************************************************************************)
EXTENDS Integers, Sequences

CONSTANTS
    Procs,
    Layouts,        \* whether there may or must be a run called "default" of an older layout to migrate
    MaxRuns,        \* bound: run identifiers
    MaxEvents,      \* bound: events of one run
    MaxOps,         \* bound: operations begun
    MaxCrashes      \* bound: processes that die

ASSUME ConstantsAssumption ==
    /\ Layouts \subseteq BOOLEAN /\ MaxRuns \in Nat /\ MaxEvents \in Nat /\ MaxOps \in Nat /\ MaxCrashes \in Nat

VARIABLES
    job,        \* job.json of each run
    copied,     \* artifacts a migration copied into each run
    pointer,    \* the file active_job
    mapping,    \* the file .legacy-run-migrations.json: the run "default" became
    ledger,     \* each run's events, whether they end in a terminal state, and how often it was initialised
    proc,       \* what each process is executing, and its engine's run, position and state
    hasLegacy,  \* whether there is such a run; it stays where it is
    retired,    \* runs a person archived
    nextId, ops, crashes

files == <<job, copied, pointer, mapping>>
fixed == <<hasLegacy, retired>>
bounds == <<nextId, ops, crashes>>
jobVars == <<files, ledger, proc, hasLegacy, retired, bounds>>

Runs == 0..MaxRuns
NoRun == MaxRuns + 1

Metadata == [status : {"active", "completed", "archived"}, state : {"live", "done"}]
Fresh == [status |-> "active", state |-> "live"]
\* A file that is not there, one that does not parse, and one that is complete but has no further content.
None == [status |-> "none", state |-> "none"]
Torn == [status |-> "torn", state |-> "none"]
Whole == [status |-> "whole", state |-> "none"]
NoName == -1
Empty == -2

Dead == [pc |-> "idle", op |-> "none", ref |-> 0, todo |-> <<>>, torn |-> FALSE,
         run |-> NoRun, seen |-> 0, state |-> "live"]

\* What each operation does next.  The constructor migrates and may rotate; the server rotates and
\* then constructs.
After(op, pc) ==
    CASE op = "open"  -> [migrate |-> "active", active |-> "existing"][pc]
      [] op = "run"   -> [migrate |-> "active", active |-> "rotate", rotate |-> "existing", archive |-> "existing"][pc]
      [] op = "enter" -> [rotate |-> "migrate", archive |-> "migrate", migrate |-> "existing"][pc]
      [] op = "reset" -> [active |-> "archive", archive |-> "idle"][pc]

\* Writes still to be made, in order.
Job(r, content) == [file |-> "job", run |-> r, content |-> content]
Artifacts(r) == [file |-> "copied", run |-> r, content |-> Whole]
Pointer(r) == [file |-> "pointer", run |-> r, content |-> None]
Mapping(r) == [file |-> "mapping", run |-> r, content |-> None]

-----------------------------------------------------------------------------
(* Reading *)

ActiveRef == IF pointer \in Runs THEN pointer ELSE 0

Resolve(ref) == IF ref = 0 /\ mapping \in Runs THEN mapping ELSE ref

\* getJob: a file that does not parse counts as none; a run that has a ledger, waits to be migrated
\* or is what an unreadable pointer stands for has a job without having a file.
JobOf(ref) ==
    LET r == Resolve(ref)
        implied == ledger[r].events > 0 \/ pointer = r \/ (r = 0 /\ (hasLegacy \/ pointer = Empty))
    IN
    IF job[r] \in Metadata THEN job[r] ELSE IF job[r] = None /\ implied THEN Fresh ELSE None

\* Mutant: any job is taken to be finished.
Terminal_Always(j) == TRUE

\* isJobTerminal
Terminal(j) == j.status \in {"completed", "archived"} \/ j.state = "done"

\* updateJob: what is on file with some of it changed; a job that cannot be read is created first.
Merge(j, change) == [f \in DOMAIN j |-> IF f \in DOMAIN change THEN change[f] ELSE j[f]]

Update(ref, change) ==
    LET r == Resolve(ref) IN
    IF JobOf(ref) = None
    THEN <<Job(r, Fresh), Job(r, Merge(Fresh, change))>>
    ELSE <<Job(r, Merge(JobOf(ref), change))>>

\* Mutant: the pointer names the run before its job is on file.
Create_PointerFirst(r) == <<Pointer(r), Job(r, Fresh)>>

\* createJob with setActive
Create(r) == <<Job(r, Fresh), Pointer(r)>>

-----------------------------------------------------------------------------
JobInit ==
    /\ job = [r \in Runs |-> None] /\ copied = [r \in Runs |-> None]
    /\ pointer = NoName /\ mapping = NoName
    /\ ledger = [r \in Runs |-> [events |-> 0, finished |-> FALSE, inits |-> 0]]
    /\ proc = [p \in Procs |-> Dead] /\ hasLegacy \in Layouts /\ retired = {}
    /\ nextId = 1 /\ ops = 0 /\ crashes = 0

At(p, pc) == proc[p].pc = pc /\ proc[p].todo = <<>>
Goto(p, pc, todo) == proc' = [proc EXCEPT ![p].pc = pc, ![p].todo = todo]
NewId == nextId <= MaxRuns /\ nextId' = nextId + 1

Begin(p, op, pc) ==
    /\ At(p, "idle") /\ ops < MaxOps
    /\ ops' = ops + 1
    /\ proc' = [proc EXCEPT ![p].op = op, ![p].pc = pc]
    /\ UNCHANGED <<files, ledger, nextId, crashes, fixed>>

\* The constructor, alone and with autoRotateTerminal.
Open(p) == Begin(p, "open", "migrate")
Run(p) == Begin(p, "run", "migrate")
\* getEngine of state and invoke
Enter(p) == Begin(p, "enter", "rotate")
\* archive and reset of the active run
Reset(p) == Begin(p, "reset", "active")

\* One truncation, or what fills the file again.
Write(p) ==
    LET w == Head(proc[p].todo)
        torn == ~proc[p].torn
    IN
    /\ proc[p].todo # <<>>
    /\ proc' = [proc EXCEPT ![p].torn = torn, ![p].todo = IF torn THEN @ ELSE Tail(@)]
    /\ job' = IF w.file = "job" THEN [job EXCEPT ![w.run] = IF torn THEN Torn ELSE w.content] ELSE job
    /\ copied' = IF w.file = "copied" THEN [copied EXCEPT ![w.run] = IF torn THEN Torn ELSE w.content] ELSE copied
    /\ pointer' = IF w.file = "pointer" THEN IF torn THEN Empty ELSE w.run ELSE pointer
    /\ mapping' = IF w.file = "mapping" THEN IF torn THEN Empty ELSE w.run ELSE mapping
    /\ UNCHANGED <<ledger, bounds, fixed>>

\* What migrating the legacy run to run r writes.
Migration(r) == <<Artifacts(r), Job(r, Fresh), Mapping(r)>>

\* migrateLegacyRuns: nothing to do for a run that is mapped.
Migrate(p) ==
    /\ At(p, "migrate")
    /\ IF hasLegacy /\ mapping \notin Runs
       THEN NewId /\ Goto(p, After(proc[p].op, "migrate"), Migration(nextId))
       ELSE Goto(p, After(proc[p].op, "migrate"), <<>>) /\ UNCHANGED nextId
    /\ UNCHANGED <<files, ledger, ops, crashes, fixed>>

\* getActiveJobId
ReadActive(p) ==
    /\ At(p, "active")
    /\ proc' = [proc EXCEPT ![p].ref = ActiveRef, ![p].pc = After(proc[p].op, "active")]
    /\ UNCHANGED <<files, ledger, bounds, fixed>>

\* rotateIfTerminal, as far as it decides.
Rotate(p) ==
    LET away == JobOf(ActiveRef) # None /\ Terminal(JobOf(ActiveRef)) IN
    /\ At(p, "rotate")
    /\ proc' = [proc EXCEPT ![p].ref = IF away \/ proc[p].op = "enter" THEN ActiveRef ELSE @,
                            ![p].pc = IF away THEN "archive" ELSE After(proc[p].op, "rotate")]
    /\ UNCHANGED <<files, ledger, bounds, fixed>>

\* The run that was read is archived and a fresh one becomes active.
Archive(p) ==
    /\ At(p, "archive")
    /\ NewId
    /\ proc' = [proc EXCEPT ![p].todo = Update(proc[p].ref, [status |-> "archived"]) \o Create(nextId),
                            ![p].ref = nextId, ![p].pc = After(proc[p].op, "archive")]
    /\ retired' = IF proc[p].op = "reset" THEN retired \cup {Resolve(proc[p].ref)} ELSE retired
    /\ UNCHANGED <<files, ledger, ops, crashes, hasLegacy>>

\* The run to open.  A name that stands for none gets an identifier; a run without a job gets one,
\* and becomes active if it was or was asked for as such.
Existing(p) ==
    LET ref == proc[p].ref
        known == Resolve(ref) # 0 \/ JobOf(0) # None
        r == IF known THEN Resolve(ref) ELSE nextId
        active == proc[p].op # "enter" \/ Resolve(ActiveRef) = r \/ ActiveRef = ref
    IN
    /\ At(p, "existing")
    /\ IF known THEN UNCHANGED nextId ELSE NewId
    /\ proc' = [proc EXCEPT ![p].run = r, ![p].pc = "boot",
            ![p].todo = IF JobOf(r) # None THEN <<>> ELSE IF active THEN Create(r) ELSE <<Job(r, Fresh)>>]
    /\ UNCHANGED <<files, ledger, ops, crashes, fixed>>

\* An empty ledger is initialised, any other replayed.
Boot(p) ==
    LET l == ledger[proc[p].run] IN
    /\ At(p, "boot")
    /\ proc' = [proc EXCEPT ![p].pc = IF l.events = 0 THEN "init" ELSE "sync",
                            ![p].seen = l.events, ![p].state = IF l.finished THEN "done" ELSE "live"]
    /\ UNCHANGED <<files, ledger, bounds, fixed>>

\* SKILL_INITIALIZED is appended whatever the ledger holds by then, and replays as a fresh start.
Initialise(p) ==
    LET l == ledger[proc[p].run] IN
    /\ At(p, "init")
    /\ ledger' = [ledger EXCEPT ![proc[p].run] = [events |-> l.events + 1, finished |-> FALSE, inits |-> l.inits + 1]]
    /\ proc' = [proc EXCEPT ![p].pc = "sync", ![p].seen = l.events + 1]
    /\ UNCHANGED <<files, bounds, fixed>>

\* The job follows the state of the engine that was opened.
Sync(p) ==
    /\ At(p, "sync")
    /\ Goto(p, "idle", Update(proc[p].run, [state |-> proc[p].state]))
    /\ UNCHANGED <<files, ledger, bounds, fixed>>

\* Mutant: the engine transitions whatever others appended.
Commit_Stale(p) ==
    /\ At(p, "idle") /\ proc[p].run \in Runs /\ proc[p].state = "live" /\ ops < MaxOps
    /\ ledger[proc[p].run].events < MaxEvents
    /\ ops' = ops + 1
    /\ \E last \in BOOLEAN :
        /\ ledger' = [ledger EXCEPT ![proc[p].run].events = @ + 1, ![proc[p].run].finished = last]
        /\ proc' = [proc EXCEPT ![p].pc = "settle", ![p].seen = @ + 1, ![p].state = IF last THEN "done" ELSE "live"]
    /\ UNCHANGED <<files, nextId, crashes, fixed>>

\* A transition is committed by an engine that has seen every event, and then the job updated.
Commit(p) ==
    /\ proc[p].seen = IF proc[p].run \in Runs THEN ledger[proc[p].run].events ELSE 0
    /\ Commit_Stale(p)

Settle(p) ==
    LET status == IF proc[p].state = "done" THEN "completed" ELSE "active" IN
    /\ At(p, "settle")
    /\ Goto(p, "idle", Update(proc[p].run, [status |-> status, state |-> proc[p].state]))
    /\ UNCHANGED <<files, ledger, bounds, fixed>>

\* reactive_switch_job: to a run that has a job.
Switch(p, r) ==
    /\ At(p, "idle") /\ ops < MaxOps /\ JobOf(r) # None
    /\ ops' = ops + 1
    /\ Goto(p, "idle", <<Pointer(Resolve(r))>>)
    /\ UNCHANGED <<files, ledger, nextId, crashes, fixed>>

Crash(p) ==
    /\ proc[p] # Dead /\ crashes < MaxCrashes
    /\ crashes' = crashes + 1
    /\ proc' = [proc EXCEPT ![p] = Dead]
    /\ UNCHANGED <<files, ledger, nextId, ops, fixed>>

\* What a process does once it has begun.
Continue(p) ==
    \/ Write(p) \/ Migrate(p) \/ ReadActive(p) \/ Rotate(p) \/ Archive(p)
    \/ Existing(p) \/ Boot(p) \/ Initialise(p) \/ Sync(p) \/ Settle(p)

JobNext ==
    \E p \in Procs :
        Open(p) \/ Run(p) \/ Enter(p) \/ Reset(p) \/ Commit(p) \/ (\E r \in Runs : Switch(p, r)) \/ Crash(p) \/ Continue(p)

JobSpec == JobInit /\ [][JobNext]_jobVars

-----------------------------------------------------------------------------
(* Properties *)

JobTypeOK ==
    /\ job \in [Runs -> Metadata \cup {None, Torn}] /\ copied \in [Runs -> {None, Torn, Whole}]
    /\ pointer \in Runs \cup {NoName, Empty} /\ mapping \in Runs \cup {NoName, Empty}
    /\ \A r \in Runs : ledger[r].events \in Nat /\ ledger[r].finished \in BOOLEAN /\ ledger[r].inits \in Nat
    /\ \A p \in Procs : proc[p].run \in Runs \cup {NoRun} /\ proc[p].ref \in Runs
    /\ hasLegacy \in BOOLEAN /\ retired \subseteq Runs

\* Whatever processes do to the files at once and wherever they die, the pointer names a run that
\* has a job, so that it can be listed, switched to and rotated away from; only the name "default"
\* needs no job.
PointerIsBacked == pointer \in Runs \ {0} => job[Resolve(pointer)] # None

\* A legacy run is known under its new identifier only once all of it was copied; a migration that
\* died is done again under another identifier.
MappedIsWhole == mapping \in Runs => copied[mapping] = Whole /\ job[mapping] # None

\* Runs with one identity that were initialised once: two processes that open a fresh run both
\* start it, and two that migrate a legacy run, or read the map while it is written, take the job
\* of one identifier for the other's.
Unambiguous == {r \in Runs : ledger[r].inits <= 1 /\ copied[r] = None /\ ~(r = 0 /\ hasLegacy)}

\* No job says its run is finished before its ledger does, however the updates of several processes
\* overwrite each other.
JobsFollowTheLedger ==
    \A r \in Unambiguous :
        job[r] \in Metadata /\ (job[r].state = "done" \/ job[r].status = "completed") => ledger[r].finished

\* A rotation takes a run away only if its ledger finished or a person archived it: between reading
\* the active run's job and archiving it, nobody makes another run the one that is archived.
OnlyFinishedRunsRotate ==
    \A r \in Unambiguous : job[r].status = "archived" => ledger[r].finished \/ r \in retired

\* The two files that name runs, the pointer and the map, name runs that are there.
NamesAreBacked == JobTypeOK /\ PointerIsBacked /\ MappedIsWhole
====
