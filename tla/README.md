# Reactive Skills in TLA+

Models, model-checking runs and proofs about the Reactive Skills runtime (v0.21.0):
the deterministic workflow engine that loads a skill (a hierarchical state machine
written in YAML), records what happens to it as an event ledger, and refuses or
accepts the signals an agent emits.

## How to run

    tlc -workers 2 -config SignalEngine_race.cfg MCSignalEngine.tla
    tlc -workers 2 -config JsonlMirror_shared.cfg MCJsonlMirror.tla
    tlc -workers 2 -config ViewDelivery_serve.cfg MCViewDelivery.tla
    tlapm SignalEngine_proof.tla
    tlapm HumanDecisions_proof.tla
    tlapm EvidenceStore_proof.tla
    tlapm AgentsAndMirror_proof.tla
    tlapm ViewDelivery_proof.tla
    tlapm Files_proof.tla
    tlapm RunLifecycle_proof.tla
    tlapm SetFacts.tla

and so on: `X_y.cfg` configures `MCX.tla`. Each run ends within a few minutes, and so
does each proof but that of `AgentsAndMirror_proof`, which takes ten.

`PROJECT.json` lists every run with the properties it checks, the mutant of the
code each property must catch, the source lines every definition stands for, the
hazards the properties are aimed at and the theorems. A definition whose comment
begins with "Mutant:" is never part of a specification: it is the definition after it
with a plausible bug, kept to show that a property notices the bug.

## The system

| component | state it keeps | operations | talks to |
|---|---|---|---|
| Signal engine (`core/fsm-engine.ts`) | active state path, context, signal queue, turn counters, last refusal | construct (boot or rehydrate), `handleSignal`, `recordTurnStart`, `recordStateDelivery`, `decideApproval`, `resumeRuntimeActions`, `reopen`, `close` | event store, guard evaluator, judgments, job manager, projections |
| Event store (`core/event-store.ts`, `jsonl-checkpoint.ts`) | SQLite tables of events, run counters, snapshots, recovered deliveries; JSONL segments and their certificate; run locks | append, query, snapshot, clear, import, rebuild, mirror, repair | file system, every process that opens the run |
| Guards and judgments (`guard-evaluator.ts`, `judgment-*.ts`) | declared guard cache, per-judgment circuit breaker | evaluate a transition's guard, ask a provider under a deadline | engine, external provider |
| Runtime actions (`runtime-actions.ts`) | none of its own: events of the run | authorize, run, settle the action of a state | engine, child processes |
| Approvals (`approval-grants.ts`, `payload-guard.ts`) | none of its own: events of the run | request, decide, consume a single-use grant | engine, humans through MCP or the CLI |
| Evidence store (`evidence-store.ts`, `-resolver`, `-submission`) | content-addressed blobs and receipts | register, read, export, restore | engine, MCP |
| Job manager (`job-manager.ts`) | job files, active-job pointer, run mapping, archive | create, update, rotate, activate, migrate | engine, CLI, MCP |
| Projections (`projection-engine.ts`, `context-ledger.ts`) | deliverable files, watermarks | project the ledger | engine |
| Context router, capabilities, bootloader, migration, validation | caches, none persistent | routing and loading | CLI, MCP |
| MCP server (`mcp/*.ts`) | engine per run, live human prompts | tools: signal, state, answer, approval, evidence | agents |
| Telemetry (`telemetry/*.ts`) | store catalog with tail cursors, SSE clients | poll, broadcast, replay, report | event stores (read only), browsers |
| Sync (`sync/*.ts`) | workspace skills, backups, lock file, git cache | plan, back up, swap, roll back | file system, git |
| Vetting (`vet/*.ts`) | none | rules over a package's text and code | CLI |
| CLI (`apps/axi`) | none of its own | front end of the packages above | users |

The parts meet in four places. An agent's tool call reaches the MCP server, which
looks up the engine of the run (dropping one that `hasExternalChanges` flags) and
calls it. The engine changes the run only by appending to the event store, one
SQLite transaction per event, and by saving a snapshot after a transition. Every
other process that opened the run, the CLI, a second MCP server, the telemetry
broker, sees those appends and nothing else. A provider, a person or a child
process answers a guard, an approval or an action while the engine awaits.

### What is hard

* Every append is atomic and nothing larger is: a signal is four or more
  transactions, and another process can be between any two of them.
* Guards, child invocations and runtime actions are awaited; in the meantime the
  same engine serves state views, and other processes move the run.
* A process can die anywhere. The next one rebuilds its state from the latest
  snapshot and the events after it.
* A retry under the same idempotency key can reach another process, before, while
  or after the first submission is decided.
* The JSONL copy is written after the SQLite commit, by whichever process holds a
  lock file, and is verified against a certificate when a store opens.
* The active-job pointer, the job file and the run's ledger are separate files,
  read and written without a common lock.

### What correct means, component by component

* Signal engine: a key is one submission, decided once; a decision is explained by
  the ledger; what a caller was told stays true; an engine between calls agrees
  with the committed history; a call ends; hook signals are served in order by the
  call that raised them, and cycles of them are cut.
* Event store: the mirror is a prefix of the canonical ledger and is complete after
  an open; a certificate never covers bytes nobody verified; the projection lock
  admits one writer; clearing or importing invalidates what was derived before.
* Views: an agent that reads its views over each other holds the committed context.
* Strict views: a delivered response counts once and has one receipt, whoever answers
  it; an engine counts what the ledger holds; a bypass is earned.
* Runtime actions: a completed action is not run again in its visit of the state, an
  interrupted one is, its result decides that visit only, and a runtime state is left.
* Approvals: a decision counts once, for the payload the person saw; a human response
  sends each of its signals once and has a receipt only when all of it was processed.
* Job manager: the pointer names a run that exists, a migrated run is whole, and
  neither a job file nor a rotation runs ahead of the ledger.
* Evidence: a receipt that was given reads back for good, what was captured is one
  version of the file, and a run can always be reopened and exported.
* Judgments: a late answer changes nothing, a judgment ends in time, and an agent's
  report on itself never stands in for a model that is out.
* Telemetry: a client sees each event of a run once, in order.
* Sync: at every moment the destination or a backup of it exists.

## Modules

| module | models | in |
|---|---|---|
| `SignalEngine` | `FSMEngine.handleSignal` of several processes over one run | `core/fsm-engine.ts`, `core/event-store.ts` |
| `KeyedSubmissions` | the abstract run: keyed submissions, each settled once | what `SignalEngine` implements |
| `SignalEngine_proof` | the theorems about `SignalEngine` | |
| `RunLifecycle` | what surrounds one signal: runtime states, hook signals and their drain, the job's metadata | `core/fsm-engine.ts`, `core/runtime-actions.ts`, `core/runtime-action-executor.ts` |
| `ViewDelivery` | strict execution: views handed out, counted, credited, bypassed | `core/fsm-engine.ts`, `mcp/continuation-response.ts`, `mcp/server.ts` |
| `DeltaViews` | views that show only what changed, and what an agent knows after them | `mcp/server.ts`, `core/state-view.ts`, `core/context-ledger.ts`, `core/fsm-engine.ts` |
| `HumanDecisions` | approvals from another terminal, and human responses through the agent | `core/fsm-engine.ts`, `axi/src/commands/approve.ts`, `mcp/human-response.ts` |
| `Judgments` | the cascade that asks a model, then a fallback, under deadlines and a circuit breaker | `core/judgment-engine.ts`, `core/judgment-execution.ts` |
| `JsonlMirror` | the JSONL copy of the ledger, its lock, its certificate | `core/event-store.ts`, `core/jsonl-checkpoint.ts` |
| `EvidenceStore` | the evidence registry and the submissions that refer to it | `core/evidence-store.ts`, `-resolver`, `-submission`, `core/fsm-engine.ts` |
| `JobFiles` | the files that name a skill's runs, without a lock | `core/job-manager.ts`, `mcp/server.ts` |
| `TelemetryBroker` | `JobFiles` watched by the live telemetry server | `telemetry/broker.ts` |
| `SyncSwap` | replacing an installed skill by a new version | `sync/engine.ts` |
| `RunLifecycle_proof`, `HumanDecisions_proof`, `ViewDelivery_proof`, `EvidenceStore_proof` | the theorems about each | |
| `AgentsAndMirror_proof` | the theorems about what a run takes from its agents and what it shows them, and about its copy: `Judgments`, `DeltaViews`, `JsonlMirror` | |
| `Files_proof` | the theorems about what is kept in files that nothing locks: `JobFiles`, `TelemetryBroker`, `SyncSwap` | |
| `SetFacts` | lemmas about finite sets that these share: least and greatest members, sets of at most one, sets that grow at the end | |
| `MC*` | instances for TLC | |

`TelemetryBroker` extends `JobFiles` and takes its steps beside its own. The others
meet in what they share of the engine: `RunLifecycle`, `ViewDelivery`, `DeltaViews`,
`HumanDecisions` and `EvidenceStore` each take `handleSignal` in the steps that
matter to them, in the order `SignalEngine` has them, and leave to it what it alone is
about (levels, keys and races of submissions). Within a module an event's id is its
position in the log and the version of the run is its length, for the sequence is dense
per run and every insert increments the version; `EvidenceStore` keeps a submission and
its settlement in one entry and counts both.

### SignalEngine

| state | code |
|---|---|
| `log` | the rows of `events` of one run, in `seq` order |
| `snapshot` | the latest row of `state_snapshots` |
| `state`, `ctx` | `activeStatePath`, `context` of each process's engine (the context as the submissions whose payload it contains) |
| `seqCounter`, `extSeen` | `EventStore.seqCounter`, `externalAppendSeen` |
| `job` | the locals of the `processSignal` in progress |
| `answers` | results returned to callers, so that properties can speak of them |

Every access to the ledger is an action, because every access is a transaction of its
own and another process may come between two of them: `OpenStore`, `Rehydrate`,
`DecideBoot`, `Boot`, `BootSnapshot` are the constructor; `Submit` (the key lookup,
and the replay when it finds one), `AssertCurrent`, `EmitSignal` or `EmitDuplicate`,
`StartGuard`, `GuardReturns` or `GuardConflict`, `RecordGuard`, `Transition`,
`TransitionSnapshot`, `Refuse` or `Unhandled` are `handleSignal` in the order of the
code. `DeliverView` is the turn a state fetch appends while a guard is awaited, and
`Crash` drops the engine between any two steps. The skill is a composite state with a leaf that declares the
signal too, a state only the composite answers for, a fallback and a final state;
guards answer anything. Appends that nothing reads back (`STATE_VISITED`,
`TRANSITION_COMPLETED`, `HUMAN_GATE_ENTERED`) are left out: they lengthen the log
between the same actions.

### JsonlMirror

| state | code |
|---|---|
| `rows`, `generation`, `lastSeq` | `events`, `ledger_identity.generation`, `ledger_counter.last_seq` |
| `files` | the segments, as sequences of lines, fragments and unreadable lines; `Active` is written to, rotated ones are numbered from 1 and read before it (`Precedes`) |
| `cert` | the published certificate; a digest is the text it is a digest of |
| `lock` | the lock file and whether its owner has been written |
| `pc`, `op`, `tries`, `boundary`, `base`, `todo` | each process in `withJsonlProjectionLock` and in its section |

Each file-system call another process can observe is an action (`Create`,
`WriteOwner`, `ReadOwner`, `Steal`, `Release`; `CloseFragment`, `Rotate`,
`WriteLine`; `Rewrite`, `Replace`, `Prune`; `Certify`). `Open`, `AppendEvent`,
`Clear`, `Rebuild` (with `ClearAll` and `Reinsert`, two transactions) and `Close` are
the operations. `Crash` may leave half a line, `WriteFails` is a write that throws in a
process that lives on, and `Damage` alters a line while the store is closed. As in the
code, an append checks the certificate by names and lengths (`Trusted`,
`InventoryMatches`), an open by every byte (`Verified`), and extending a certificate
reads only what follows the last complete chunk (`Extends`, `Digest`). `base` is what an
extended certificate says of the segments, and no segment (`NoSegments`) when the
certificate is made anew. `load` says who uses the store and what can go wrong, so that
one specification is instantiated and proved for all of it.

### ViewDelivery

| state | code |
|---|---|
| `log` | events of the run, with what deliveries and receipts are keyed by |
| `credits` | rows of `recovered_deliveries` |
| `snapshot` | sequence of the latest snapshot, where counters are replayed from |
| `engines`, `cached` | the engines opened so far and the one `getEngine` hands out per process; a replaced engine stays in use by the call that holds it |
| `call` | the submission (queued by `withMcpRun`, so one per process) and the fetch each process serves |

`Fetch` is `reactive_state`, `Submit` is `reactive_emit_signal`; the submission then
takes `SignalEngine`'s steps with one level of bubbling. `Respond`, `Scan`, `Refetch`,
`StartTurn`, `CheckPasses`, `DetectBypass`, `Bypass` and `SaveReceipt` are the original
response: `recordStateDelivery`, `recordTurnStart`, `checkBypass`, `saveReceipt`.
`Recover` and `Credit` are the answer to a retry without a receipt, which counts a view
beside the ledger. Reads that follow each other with no write and no await between
them are one step, so are opening a store and replaying it. The view a delivery was
counted for (`view` of an event) is not in the code: it is there for properties. The
keyed deduplication of a delivery itself does not occur: only the process that made a
submission delivers under its key, which `OneReceiptPerSubmission` confirms. Unkeyed
continuations, human responses and performance events are left out.

### DeltaViews

| state | code |
|---|---|
| `ledger` | signals and transitions of the run with their patches; a transition of an older version has none |
| `snapshot` | the latest snapshot |
| `engine` | sequence, context and state of each process's engine, and whether a failed call left its fields in the context |
| `emit` | the `processSignal` in progress: where it is, its event, its anchor, the context before it |
| `answer` | the view being assembled: taken from the engine, then stamped with a sequence |
| `session` | `deliveredViews` of each server process |
| `agent` | what an agent holds after reading its views, and what it knows about them |

`Submit`, `Accept`, `Refuse`, `Conflict` and `InvokeFails` are the signal as far as it
touches the context; `Answer`, `Fetch` and `Retry` take a view from the engine, `Stamp`
reads its sequence, `Deliver` and `Lose` are `rememberView` with what becomes of the
answer. `Patch` is `transitionContextUpdates`, `PatchOf` and `ReplayedContext` the
replay, `ContextChangesSince`, `DeltaKeys` and `Accepted` the delta view. `Compact` and
`Restart` are the agent's host and the server. A value is named by its origin (the
signal, or the hook that set it), so that two writes of a key are told apart. Synchronous
stretches are cut only where a foreign commit changes the outcome; `SignalEngine`
interleaves the rest. Left out are bookkeeping events, STATE_ENTRY_HOOK (its keys are in
the patch), signals raised by hooks, and the limits of strict delivery.

### RunLifecycle

| state | code |
|---|---|
| `log`, `snapshot` | the run's events, the latest snapshot |
| `engine` | `activeStatePath`, the store's own sequence, `signalQueue` and `signalQueueDepth` of each process |
| `job` | `currentState` and `status` in the job's metadata |
| `call` | the call in progress and what it works on: the caller's signal, an outcome of a runtime action, a hook's signal |
| `results` | how each call ended |

`Submit`, `Resume` (`resumeRuntimeActions`) and `Reopen` begin a call. `Dispatch`,
`FoldWindow`, `StartAction` and `CompleteAction` are the loop over runtime states;
`DecidedOutcome` is the signal an observation stands for. `Emit`, `EmitConflict`,
`BeginGuard`, `GuardReturns`, `GuardConflict`, `Refuse`, `Unhandled`, `RuntimeOwned`,
`Exit`, `Transit`, `Enter` and `SaveSnapshot` are `processSignal` with its hooks;
`DrainNext`, `CycleDetected` and `QueueEmpty` its end, and `UpdateJob` the copy to the
metadata. `Foreign` is an append of another program and `Crash` loses the engine with
its queue. The skill of the run has a runtime state, hooks that raise two signals of
which the second ends the run, two states whose hooks lead to each other for ever, and
a hook that raises an outcome signal only the runtime may send. What an action finds
(met, unmet, timed out, error) is an input.

### HumanDecisions

| state | code |
|---|---|
| `log` | the run's events with the payload they carry and the event that caused them |
| `engine` | state, own sequence and staleness flag of each process |
| `call` | `approve.ts` with the requests it listed and its attempt, a human response with the signal of its batch it is at, or one signal |
| `told` | the last answer a process gave |

The agent's side is `Submit` and `Respond`; `RecordResponse`, `NextOfBatch` and
`FinishResponse` are `human-response.ts`. `Emit`, `Resolve` (`resolveHumanDecision`),
`GuardReturns`, `Request`, `Refuse` and `Commit` are the signal's way through the
engine. The person's side is `OpenTerminal`, `Ask`, `Answer`, `Decide`,
`RecordDecision`, `Reload`, `Again` and `EndSession`. A payload stands for the payload
and for the context that the judgment selects, whose digests the code compares.

### Judgments

| state | code |
|---|---|
| `jev` | what `JevJudgmentAdapter` finds: no key, a key without the SDK, a usable model |
| `breaker`, `rejected` | each adapter's `CircuitBreaker`, and the kept rejection of its credentials |
| `judge` | the locals of each `evaluate` in progress: elapsed time, adapter asked, attempts, outage seen, result |

`Start`, `Available`, `AskPrimary`, `Settle`, `JevAnswer`, `ScriptAnswer` and `Timer`
run between one await and the next, `Tick` is the clock. Every judgment of a process
shares the circuits, so that one's failures change what another does half way. Time is
counted up to where no comparison of the code can tell a later time from it.

### EvidenceStore

| state | code |
|---|---|
| `source` | the workspace file that is imported |
| `dir`, `durable`, `damaged` | files of the registry by name, those a directory sync made durable, those altered from outside |
| `log`, `snapshot` | submissions with their fate, the latest snapshot |
| `proc` | the call each process serves, with the stamp, the bytes and the version it has read |
| `known`, `answers`, `bundle` | receipts, reports and the export that callers hold |

`ReadFirst`, `ReadRest` and `SourceChanged` are `importFile` between two `fstat`s;
`Link`, `Mismatch` and `Sync` are `publish` of the blob and then of the receipt;
`Verify` is `read`. `Check`, `Conflict`, `Emit`, `Duplicate`, `Refuse`, `Resolve`,
`Accept` and `SaveSnapshot` are the signal that refers to the evidence; `Retry` reads
what a keyed submission reported; `ExportEvents`, `ExportSnapshot`, `Bundle` and
`Restore` are export and import. `Abandon` is a process that dies or throws,
`PowerLoss` one that takes the names with it that were not synced, `Damage` an altered
file. A file is named after its content, so what matters of it is whether it holds that
content; bytes are two halves so that an edit can come between reading them.

### JobFiles and TelemetryBroker

| state | code |
|---|---|
| `job`, `pointer`, `mapping` | `job.json` of each run, `active_job`, `.legacy-run-migrations.json`; a write truncates a file before it fills it, so each can be read, or left, torn |
| `copied` | what a migration copied into a run's directory |
| `ledger` | the length of each run's ledger, whether it reached a terminal state, how often it was initialised |
| `proc` | each process's operation, its writes still to come, its engine's run, position and state |
| `cursor`, `client`, `got` | `tailCursor` of each target, clients with the last event sent of each run, what they were sent |

`Open`, `Run`, `Enter`, `Reset` and `Switch` begin what the CLI and the server do with
a skill's runs. `Migrate`, `ReadActive`, `Rotate`, `Archive` and `Existing` are the
steps of `JobManager` they are made of, `Write` puts one file through its two states,
`Boot`, `Initialise`, `Sync`, `Commit` and `Settle` are the engine as far as it moves
the ledger and the metadata. `Start`, `Poll`, `Refresh`, `Connect` and `Disconnect` are
the broker, which reads the same files.

### SyncSwap

| state | code |
|---|---|
| `source`, `dest` | the skill's source directory and its destination: nothing, a link, something else, or a directory of files with their versions |
| `staging`, `old`, `backups`, `left` | `.staging-` and `.old-` next to the destination, `.sync-backups`, what dead runs left |
| `run` | the point `runSync` is at, its options, and the backup it made |

One action per file operation, and one for its failure (`StageFile` and
`StagingFails`, `RenameOld` and `RenameOldFails`, ...); `Restore`, `Recover`,
`RecoverFile` and `MirrorFailed` are the handlers. `CrashSync` may come anywhere, and `Edit`
changes the source while it is copied.

## Runs

| run | asks | bounds |
|---|---|---|
| `engine_race` | two processes, one key or none: is a key one submission, guarded once per level, settled once, its answers final, its decision explained, `KeyedSubmissions` implemented | 2 calls, 1 crash |
| `engine_solo` | one process, two keys, under fairness: does an engine between calls hold the committed state and the accepted context, is a snapshot what the history gives at its point, does every call end | 3 calls, 1 view, 2 crashes |
| `lifecycle_solo` | one process with runtime states and hooks, and a foreign program: are results reused within their visit only, hook signals served in order and to the end, cycles cut, runtime states left | 2 submissions, 1 crash, 1 foreign append, drain limit 3 |
| `delivery_serve` | one server with restarts, or two at once: one count and one receipt per key, the window reaches the view; alone, the engine counts as the ledger and a bypass is earned | 3 submissions; 4 fetches and 2 restarts alone, 1 fetch with two |
| `decisions_gates` | an agent and a terminal: is a gate passed for the payload the person saw and once per decision, does a refused gate wait for a person, is a human response whole | 4 calls, 1 crash, 2 payloads, 2 attempts |
| `judgments_shared` | two judgments over one set of circuits: verdicts, self-reports and outages, deadlines and attempts, termination | total time 2, 1 per attempt, threshold 2 |
| `delta_pair` | an agent with its server and a terminal over one run: does the agent hold the committed context after any sequence of complete and delta views | 3 calls of the agent, 1 of the terminal, 1 fault (lost answer, restart, compaction, missing child skill), 2 keys, 2 states of which one hides a key |
| `mirror_shared` | one process that dies, also within a rebuild, or has writes fail and lines damaged, or two that open and append: is an accepted certificate right, does an open repair, is the mirror in order, do committed events survive a rebuild, does everyone get past the lock | alone 4 events, 6 uses of the lock, 2 clears or rebuilds, 2 faults; together 3 events, 5 uses, 1 fault |
| `evidence_shared` | two processes, crashes, loss of power and damage: do receipts stay readable, does a run reopen, do reports and exports agree with the ledger | 3 calls, 1 edit, 1 fault, 2 keys |
| `jobs_pair` | two processes over the job files, with and without a run to migrate: are names backed, do job files and rotations follow the ledger | 4 operations, 2 runs, 3 events each, 1 crash |
| `telemetry_watch` | a broker, a client and a process that advances, rotates and tears its files: in order, once, and all of it | 3 operations, 2 runs, 2 events each, 1 connection |
| `sync_faults` | mirroring and linking, with failures of every file operation, a crash and an edit of the source | 3 runs, 2 faults, 1 edit, 2 files, 2 versions |

Each module has one type invariant, `TypeOK` (`SyncTypeOK`, `DeltaTypeOK` and
`MirrorTypeOK` where a proof needs them beside another). Properties about one thing are
named parts of one conjunction, the property of the run: `ActionsDecideOnce`, for
instance, is `ResultsAreReused`, `ResultsAreOfThisVisit` and `OutcomesAreDecided`, each
with its own comment. What every conjunction contains is at the end of its module.

Why the bounds are enough. Two processes and two calls give every pairing of a
submission with a retry, a duplicate, a foreign submission or a restart; a third party
would only repeat one of these roles, and the theorems remove the bound for the
properties that matter most.

* `lifecycle_solo`: two submissions and a crash reach a second visit of the runtime
  state, a resumed chain and a hook cycle at its limit.
* `delivery_serve`: with an idle limit and a refetch allowance of one, four fetches and
  three submissions go through a first delivery, a free refetch, a counted one, the
  limit and what follows a reset; the window is then sixteen events, and the mutant
  that narrows it shows that its end is reached.
* `decisions_gates`: four calls are a refused signal, a decision in the terminal, the
  agent naming that decision, and one more of either; or a human response, its
  interruption and its retry.
* `judgments_shared`: a threshold of two failures is met by two judgments together and
  by one alone; time is counted to one unit past the longest limit.
* `delta_pair`: three calls are a view, a move to the state that hides a key and back, or
  a submission, its lost answer and a retry; the run is fresh, or has a transition without
  a patch that the agent has seen the signal of, which no delta may fold.
* `mirror_shared`: a segment holds two lines and a chunk two, so that four events rotate,
  complete a chunk, extend one and leave a tail. Two lock attempts give one failed try
  and one that gives up. The load `Alone` has every kind of fault, `Dying` only deaths,
  but also that between the two transactions of a rebuild, `Together` two processes.
* `evidence_shared`: three calls are a registration, its submission and a retry, an
  export or the same from the other process.
* `jobs_pair`: three events are the initialisation, one more and a terminal one; four
  operations are two on each side, or a rotation on both sides of a migration.
* `sync_faults`: two faults are a failure and the failure of its recovery; three runs
  install, replace, and find what the one before left.

All runs but `judgments_shared` disable the deadlock check: a run whose bounds are used
up stops, as a server does when nobody calls.

Fairness. `engine_solo` gives weak fairness to the steps of a call in progress
(`Work`), not to callers, crashes or views: the code runs on after each synchronous
statement, and each awaited guard is assumed to answer (the judgment deadline, or the
guard's own end). `mirror_shared` gives it to the lock and section steps of a process,
which are one synchronous stretch of code with a bounded number of attempts.
`lifecycle_solo` gives it to the steps of a call, whose actions end or time out, and to
`Resume` and `Reopen`: a client that has to show a view asks for one, and the request
resumes a runtime state. `judgments_shared` gives it to the clock, the timers and the
steps of this process, and none to the answer of the model. `telemetry_watch` gives it
to the poll, which is on a timer, and to nothing the watched processes do. Nothing is
assumed about a process that died.

## What is proved

46 theorems, proved with TLAPS for every value of the constants: any number of
processes, runs, keys, payloads or files, and any bound on calls, faults and time. Of
the constants each module assumes its `ConstantsAssumption` (`SyncAssumption`,
`DeltaAssumption`, `MirrorAssumption`) and nothing more, and `DeltaViews` that the
ledger a run starts with is one the program could have written (`HistoriesAssumption`);
ten theorems have a hypothesis of their own, stated with them; TLC and the observations
below show that each is needed. The invariants that took longest to find (`Faithful` of
the engine, `JobInv` of the job files, those of `RunLifecycle` and `JsonlMirror`) were
checked by TLC before they were proved.

Most of the proofs have one shape. A property speaks of what somebody was told or of
what is on the disk. What makes it inductive is the point each call has reached: what it has read,
what it owns, and why what the others do meanwhile cannot take that away. So each
invariant has a part about the shared state, a part about one call, and a part that
keeps two calls apart. Lemmas say what a step of one call leaves to the others
(`Bystander`, and those named `...Stay` about a growing ledger), and the proof has one
step per action for the call that moves.

### Signal engine

| theorem | says |
|---|---|
| `TypeCorrect` | every reachable state is well typed |
| `KeysAreUnique` | one SIGNAL_EMITTED per idempotency key |
| `SubmissionsMoveOnce` | no submission causes two transitions |
| `GuardsRunOnce` | no level of a submission is guarded twice |
| `OnceEach` | the three together, the property of `engine_race` |
| `AnswersAreFinal` | what a submitter was told is never contradicted |
| `PromiseIsKept` | `SignalEngine` implements `KeyedSubmissions` |
| `DecisionsExplained` | every transition and refusal has its guards in the ledger, failed below its level and passed at it |
| `EngineHolds` | with one process, an engine between calls holds the committed state, the accepted fields and no refused ones |
| `SnapshotsAreHistory` | with one process, a snapshot at `n` holds what the first `n` events lead to |

The first seven are not inductive: that a transition is unique depends on who may still
make one. Their inductive invariant is `TypeInv /\ Settlement /\ AnswersHold`.
`Settlement` says that a call in progress owns its SIGNAL_EMITTED and no two calls own
the same (`CallsOwnTheirSignal`, `OneOwner`), that an undecided call's submission has no
settling event yet (`UndecidedIsOpen`), that its recorded guards are of levels below the
one it is at (`GuardedBelow`), and that a submission is settled at most once
(`OneSettlement`). Four kinds of steps can touch it: ones that leave the ledger and the
ownership alone, one that appends a fresh submission, one that appends a guard, one that
settles. `StepIsOfAKind` sorts every action into a kind, and `NeutralStep`, `EmitStep`,
`GuardStep` and `SettleStep` show that each kind preserves the invariant, so that the
argument is made once per kind and not once per action. The refinement proof maps the
neutral and guard steps to stutters and the others to `Submit`, `Accept` and `Refuse`.

`DecisionsExplained` adds what a call in progress remembers: `Reasons` says that the
levels below the one it is at have failed in the ledger, after its submission, and that
the guard it accepted has passed; `Explained` is that of each decision already
recorded. Both follow the call from level to level.

`EngineHolds` and `SnapshotsAreHistory` assume `OneProcess`: two that race violate both,
as the observations say. `Faithful` describes the engine at every point of a call by the
history it has seen: which state the first `n` events lead to (`Led`) and which fields
they hold (`Holds`), where `n` is the length of the ledger between calls, that of the
snapshot while a fresh engine is being built, and that of the ledger before the call's
transition while the call decides (`EngineFits`, `SnapshotFits`). A crash leaves the
snapshot and the ledger, from which the replay brings the engine back.

### Runtime states and hooks

| theorem | says |
|---|---|
| `HookSignalsEndAlways` | the signals that hooks raise in a call are emitted by it, each in its turn, all of them when it succeeds, and never more in a row than the limit |
| `OutcomesAreDecidedAlways` | an outcome signal leaves a runtime state only with a recorded result of that state |
| `ActionsDecideOnceAlone` | with one process, a recorded result is used, not obtained again, and for the visit that obtained it |
| `CallsEndInOrderAlone` | with one process, a call that succeeds leaves no runtime state, and the job's metadata are those of the run between calls |

The first two are for any number of processes. `HookSignalsEndAlways` compares two
series of events of the ledger, what hooks raised and what was emitted, and what links
them is a queue in memory that no event records. `HookInv` says of each process what its
queue is in terms of the ledger: the signals that the hooks of its call raised, from the
rank on that the call has emitted, in order (`ServesCall`), with the one that has left
the queue and is not in the ledger yet counted apart (`Taken`). The depth of the drain
bounds what was emitted since the call's last signal of its own (`DepthCounts`). A
queue outlives a call that failed; it is never served, for such a call failed because
the ledger had moved, and no later call of that engine passes its first check
(`Unchecked`), while the limit of the drain empties the queue before it fails. Ranks in
a set that grows at its end are the two lemmas at the end of `SetFacts`.

`Decides` says that a signal on its way to a transition is not one the runtime owns, or
carries a result of the state it is about to leave (`WorkIsDecided`): hooks that raise
an outcome signal are refused, and a result is dispatched in the state it is of.

`Visits` is about the window of results. Every result up to the snapshot is of a visit
that was left, and an outcome on its way carries a later one (`VisitInv`); so a result
found in the window is of the visit that is being served, unless a crash came between a
transition and its snapshot, which is the exception that `ResultsAreOfThisVisit` names.
A second process could save a snapshot that covers a result of an open visit, and
restart its action.

`Ended` says where the job may lag behind the run (`LagAllowed`): in a transition, in
the drain behind it while the rest of the queue fits under the limit, and in front of
an engine that is due to be reopened. Two hypotheses on the skill go into it. The hooks
of one transition raise no more signals than one drain serves (`HooksFit`; the limit is
50), and no signal leaves a state whose name is terminal (`TerminalsAreFinal`). Without
either, TLC finds the metadata left behind, as the observations describe.

### Views

| theorem | says |
|---|---|
| `ResponsesCounted` | a response is counted under its key once and has one receipt, whoever answers it |
| `EnginesCount` | the engine of a server alone counts the turns and the bypass that the ledger holds |
| `BypassesEarned` | a server alone bypasses only when ledger and credits hold more deliveries than the limit |
| `WindowReachesAlone` | alone, and with no more deaths than the allowances leave room for, the window reaches the view |

`Inv` is for any number of processes: the call that holds the signal of its key is the
only one that does (`Apart`), it has recorded no receipt and, until it counts its turn,
no delivery (`Hand`), and a credit that still counts is of a view that no delivery of
its key counts (`Counted`): what a response found when it scanned the credits can only
be absorbed meanwhile. `Solo` is about `Alone`, which says that one process serves the
run, the premise of both properties themselves: its engine has missed no event, so its
counters are those of the ledger; a call that awaits a guard finds the ledger as it left
it, or learns from its version that a fetch moved it. `BypassIsEarned` is an action
property: an engine that counts as the ledger does cannot reach the limit before it.

`Few` counts what a server alone may record after the event that made the current view:
one turn more than the limit, because the next is checked and changes the view; one
refetch more than the allowance, which every scan of the window keeps to, also one that
looks past its end; one receipt, because its submission changed the view itself. A death
between a turn and its check costs one turn more. That is
`max_idle_turns + max_view_refetches + 3` and one for each death, against a window of
four times their sum and two (`core/fsm-engine.ts:675`). `WindowReachesAlone` therefore
allows `3 * (MaxRefetches + MaxIdleTurns + 1)` deaths. It cannot allow any number: with
both limits zero TLC finds the view out of the window after eight of them.

### Delta views

| theorem | says |
|---|---|
| `AgentHoldsItsViewAlways` | an agent that reads each view over the last one holds the committed value of every key its state shows, but for those no view has shown since a torn one |

For any agents, keys, scopes, hooks and submissions, any number of calls and faults, and
any ledger an agent may find: one whose transitions have a signal as their cause and
leave the state the last one entered (`HistoriesAssumption`), with or without patches.

A delta is read over what its agent held at the anchor, and the anchor was chosen before
others wrote and other views arrived. So the invariant `DeltaInv` speaks of every
position a view may still be anchored at: the agent's own, the session's, that of a
submission in progress and that of a view on its way. `HoldsSince` says of such a
position what survives all of it: where nothing was written since, the agent holds what
the state at that position showed. A write of any process only weakens it
(`AnchoredStays`); the views that arrive meanwhile keep it, for the code never anchors at
a position after the one it stamps (`NotAfter`, `DeliveredAnchors`). What a delta leaves
out was then shown at its anchor (`HiddenWasShown`: `anchorPath` is the state the first
transition after the anchor left) and not written since (`DeltaIsExact`: a fold that
would meet a transition without a patch, whose signal precedes the anchor, is refused).

The other half is that a view shows the run at its sequence. `EngineIsRun` says that an
engine nobody has overtaken holds the replay of the ledger, or that and the fields its
guard sees, or shows that it leaked them; `SnapshotIsRun` that a snapshot with what
follows it gives the same replay, which needs that no transition without a patch rests
on a signal the snapshot has swallowed. Both come from two facts about replay that are
proved for any ledger: it may be cut anywhere (`ReplayedFrom`), and an event adds its
patch and its target (`EventAt`). The proof brought no change to the property.

### Mirror

| theorem | says |
|---|---|
| `CertifiedIsMirroredAlone` | a certificate that an open accepts hides no row |
| `OpenRepairsAlone` | an open that comes to its end leaves every canonical row mirrored |
| `CommittedSurvivesAlone` | an event that was committed and not cleared is in the ledger, on its way back into it, or in the mirror that an empty ledger is filled from |
| `MirrorIsOrderedAlone` | the mirror reads in ledger order and holds no row twice |

All four are about a store that one process uses, with segments and chunks of any length
and any number of events, changes and faults. The first asks for nothing else. The
others need a lock that cannot be lost (`Undisturbed`): no death between creating the
lock file and writing the owner, which leaves one that nobody steals, and two attempts
or more (the code has 40), because stealing takes one. `MirrorIsOrderedAlone` also
leaves out deaths among the segments being removed, and, as `CommittedSurvives` does in
itself, writes that fail and lines that are damaged (`Clean`).

`CertifiedIsMirrored` speaks of a certificate that matches the files. Its inductive form
speaks of the certificate alone: if it is of this generation, the rows up to its
sequence are among the lines it names (`CertificateHolds`), whatever became of the files.
To publish such a certificate, the process in the section must account for every row up
to its boundary, which is all of them (`AtBoundary`): a row is in a segment of the
certificate it extends, in the files beyond such a segment, or still to be written
(`Covered`, `Section`). This survives damage to the certified lines, because a digest of
an unchanged length or of a completed chunk is taken over from the old certificate and
not computed from the file, and the rest is compared before it is (`DigestIs`, which
follows from `Extends`). A clear or a rebuild needs no more than the generation.

A complete mirror does depend on the files. `Kept` says that what an open verified is
still there while it extends it, and that in a mirror nothing was done to, the certificate
names exactly the files whenever an append checks their names and lengths: the cheap
check of an append is right because of what the sections before it left, not because of
what it looks at. `Saved` adds the rebuild: what it is about to reinsert is all that is
on disk, and every event is in the ledger or on disk at any point a death can leave
(`Survives`). `Neat` is the order: segments are in order and without gaps in their
numbers, and what is missing belongs behind what is there, so that appending it is
right and `HasGap` is what a death can never leave. A fact about `SortBySeq` was needed
throughout, that it lists a finite set completely, once and in order; it is proved from
the number of events before each.

### Decisions

| theorem | says |
|---|---|
| `TypesHold` | every reachable state is well typed, causes and requests point back |
| `ApprovalsInformed` | nobody passes the judged gate but on an approval of a request with that payload |
| `DecisionsCount` | a decision moves the run once |
| `RequestsDecided` | with one terminal, a request is decided once and its decision counts once |
| `RefusedWait` | an agent told to wait has a request with its payload that nobody had decided |
| `ResponsesWhole` | a response sends each of its signals once, in order, and has a receipt only when its approval was processed |

Each event has its reasons in the ledger before it (`AllSound`), and the ledger only
grows, so an append leaves them (`...Stay`). Between its event and its transition a
signal is in the hands of one call; `Fits` says what that call knows, `Apart` that no
two calls hold one signal or one decision. A decision counts once for a reason the code
does not spell out: its signal can come from the terminal that recorded it, once, or
from an agent whose engine had seen nothing after it, so at the next position of the
ledger (`Named`). Whoever resolves second counts two signals and is refused, and the
terminal's signal moves the run only where the agent's does not.
`RequestsDecided` assumes one terminal: between `Decide`, which reads, and
`RecordDecision`, which writes, a second terminal could record a decision of its own
for the same request.

### Evidence

| theorem | says |
|---|---|
| `EvidenceKept` | a receipt that anybody holds reads back, and a run that accepted it reopens |
| `VersionCaptured` | what is registered is what the workspace file held at one time |
| `AnswersAgreed` | all that submit under a key are told of the evidence that the ledger holds |
| `ExportConsistent` | an export holds no snapshot of a submission that it does not hold |

`Stored` says that a receipt is linked only when its blob is there to stay, `Recorded`
what the ledger and the answers refer to, `Bundled` what an export holds. For a call,
`RegisteringOf` says which of its names are linked and which durable, `SubmittingOf` and
`OwnedOnce` which open submission is its own, `ExportingOf` that an export whose version
still holds has read the accepted submissions of this very ledger. Names are only taken
away by a loss of power, and only those no directory sync made durable.

### Judgments

| theorem | says |
|---|---|
| `VerdictsEarned` | a run is moved only by a verdict somebody was entitled to give |
| `BoundsKept` | a bounded judgment is decided by what was said before its deadline, and no adapter is asked too often |

Judgments share circuit breakers and kept rejections, and no property may rest on them.
`Good` speaks of one judgment and of the model's availability, which no step changes: the
cascade decides from the circuit as it is when it looks, and what it writes into its own
record has to be enough. The proof found `OnlyVerdictsRoute` too strong as it was stated;
the exception it now has is under the observations.

### Job files and telemetry

| theorem | says |
|---|---|
| `NamesBacked` | the pointer names a run that has a job, the map one that was copied whole |
| `JobsFollow` | no job says its run is finished before its ledger does |
| `RotationsEarned` | a rotation archives a run only if its ledger finished or a person archived it |
| `DeliveriesOrdered` | a client gets the events of a run in order, none twice, none left out |
| `BrokerWatches` | every behaviour with the broker is one of the watched processes alone |

Nothing locks these files. They are protected by the order in which each process writes
and by what it still has to write: `TodoFits` says that this was right when it was
decided and stays so, because what a job may claim of its run (`Over`, `Gone`) is never
taken back, whatever the others do. `Filed` is what the files say, `EngineFits` what an
engine knows of its ledger, `Apart` that a name somebody made up is filled by nobody
else. Crashes are covered by the same clauses: a list of writes that is cut off leaves
a state that each of its prefixes leaves. For the broker, a client that was sent
something of a run was sent all before the cursor (`Caught`), so that what a poll adds
follows what it has, also when a run left the catalog and came back.

### Sync

| theorem | says |
|---|---|
| `TypeCorrect` | every reachable state is well typed |
| `PreviousIsKept` | the destination a run found is complete somewhere at every moment |
| `HalfInstalledHasBackup` | an incomplete destination is only seen where a backup has the previous one |
| `DestinationIsOneVersion` | what is installed is one version of the source |
| `OneFailureIsHarmless` | one failure leaves the destination in place |
| `DestinationStaysSafe` | the first three together, the property of `sync_faults` |

The inductive invariant is `TypeOK /\ Placed /\ Copied /\ Counted /\ OneVersion /\
Promises`. The properties speak of what is on the disk; what makes them inductive is
the point of the run: `Placed` says where the previous destination is at each point (in
place, set aside, replaced), `Copied` that the backup holds a part of it while it is
being saved and all of it afterwards, `Counted` that a destination is left aside only
after a second failure, `OneVersion` that no complete tree mixes versions. Each conjunct
has a lemma, with one step per action, on lemmas about adding and removing a file of a
tree.

### What is only model-checked

* Every liveness property (`CallsEnd` and its kin), for the prover reaches neither
  ENABLED nor fairness.
* `WindowReachesView` when several processes serve the run: a snapshot that one saves
  late makes the engines that others open forget the turns before it, each process can do
  so once in a view, and arbitrarily many of them fill any window of a fixed number of
  events. It is a fact about few processes, and the run has two.
* `CertifiedIsMirrored` and `CommittedSurvives` when two processes open and append, where
  the section can be lost to a process that saw a lock file vanish, and what
  `MirrorIsRepaired` says of the order after failed writes and damage.

## Where the code and its documents differ, and other observations

The runs check what the code keeps. What follows was seen while modelling, where a
document or a comment says more than the code does or where a property holds only with
the stated exception; lines are of `packages/runtime/src` unless a path says otherwise.

Signal engine.

* "It never acts on a state the run already left" (`packages/runtime/README.md:70`):
  two processes that both pass the staleness check (`core/fsm-engine.ts:1271`) and the
  version check after the guard (1374) append a transition each from the same state.
* A snapshot is stamped with the sequence that is latest when it is saved
  (`core/fsm-engine.ts:1445`): a foreign transition committed in between is covered by a
  snapshot without it, and a later rehydration never replays it.
  `SnapshotIsPointInTime` is therefore checked with one process.
* A replay recognises a bypass by the literal target BYPASS_DETECTED (420): a custom
  `bypass_target` is not restored as one by a reopened engine.
* A retry between a failed leaf guard and the guard of the enclosing state is told that
  the submission was refused (1253), which may still transition. `OwnAnswersStand` is
  about the submitter's answer.
* A call that ends in a version conflict keeps its payload in the context, and the next
  snapshot persists it; an append of its own that is a duplicate of a foreign event
  clears the engine's flag of external appends.

Runtime states.

* After crashes between STATE_TRANSITION and the snapshot, the window of a state reaches
  back into an earlier visit (`core/runtime-actions.ts:211`), and a result committed
  there can decide the new one. `ResultsAreOfThisVisit` names that exception.
* The metadata of the job are written after the drain (`core/fsm-engine.ts:1506`). When
  the hooks of one transition raise more signals than the drain serves (1481), the
  transition is in the ledger and its error leaves before the metadata are written: they
  name the state before, until the run is opened again.
* A state is terminal by its name (`core/job-manager.ts:52`), also one with a way out.
  When a process dies between such a transition and the metadata, opening the run
  updates their state and not their status (`core/fsm-engine.ts:279`): a job stays
  "completed" whose run has gone on.

Views.

* A fetch counts on from an engine that was current when the request came in; a signal
  that another process recorded since does not reset it, and the run is bypassed early.
  An engine whose submission duplicated another server's event keeps its old count. So
  `EngineCountsAsLedger` and `BypassIsEarned` are stated for a server alone.
* A credit between GUARD_EVALUATED and SIGNAL_REFUSED of a submission is for a view its
  response is not delivered at, and stays (`docs/mcp-continuation.md:71`,
  `core/event-store.ts:466`).
* While a guard runs, the fields of its signal are merged into the engine's context
  (`core/fsm-engine.ts:1299`), and `reactive_state` of the same engine shows them, although
  `docs/mcp-continuation.md:38` says "the complete view rebuilt from the ledger". When the
  guard refuses, the agent has read values that were never committed.
* A transition whose child skill is missing throws (770) after that merge and before
  anything restores it: the fields stay in the engine and in its next snapshot.
* A commit of another process between the refresh of an engine and `getStateViewSeq`
  gives a view whose sequence is newer than its context; one between the view and
  `rememberView` (`mcp/server.ts:173`) gives a session anchor newer than the view. A delta
  after either leaves out that commit. `AgentHoldsItsView` leaves the keys of a view
  overtaken in the first way in doubt until they are shown again, and its agent does not
  use a default anchor overtaken in the second.
* `docs/mcp-continuation.md:35` calls the default anchor "the last view sequence this MCP
  session delivered for the run". The view of a keyed retry is delivered and not remembered
  (`mcp/server.ts:548`), and one whose answer was lost is remembered. After a lost answer
  and a retry in another state, a default delta can omit a key the agent never received;
  an agent in that position has to give `since_seq` or fetch the complete view, and the
  agent of `DeltaViews` does.

Decisions.

* Two terminals that approve at the same time can both find the request pending
  (`core/fsm-engine.ts:1780`) and both append APPROVAL_DECIDED (1783), for the check and
  the append are two transactions: `RequestsDecidedOnce` is about one terminal, and an
  instance with two violates it. Each of the two decisions still counts once.
* `apps/axi/src/commands/approve.ts:253` says "this decision was not applied. Run
  approve again", although APPROVAL_DECIDED has consumed the request.
* A human response whose signal was interrupted between its event and its transition is
  answered by a retry and never gets a receipt under its key.

Judgments.

* A judgment without a deadline that is hinted "script", finds the circuit of the script
  open and asks a fallback that fails too, is routed to its fallback target although a
  model is configured: only the outage of a hinted or available model is recognised
  (`core/judgment-engine.ts:782`), the failure of a fallback is not (743).
  `OnlyVerdictsRoute` names that exception.
* A deadline that passes exactly while the outage is being determined loses the outage:
  the exception in `SelfReportsAreCovered`.
* The script fallback inherits the failure kind and its breaker is kept as rejected
  credentials (`core/judgment-engine.ts:756`, against the comment at 466); a primary
  skipped for the deadline deletes a kept rejection; HALF_OPEN lets every caller
  through, not one; an unbounded script fallback does not count on its breaker.

Mirror.

* A rebuild takes the mirror for complete: when the last repair was deferred by a failed
  write, the rows it misses are deleted from SQLite (`core/event-store.ts:1506`,
  `PERFORMANCE-STANDARDS.md:169`). `CommittedSurvives` is about crashes.
* `MirrorIsRepaired` names an exception. A write fails in a segment just rotated, so that
  rows are missing and no active segment is there; a rebuild reads that mirror
  (`core/event-store.ts:1506`) and dies between its two transactions (820); the next
  open finds the ledger empty and, without an active file (1033), takes nothing back.
  The ledger then counts from 1, and new rows are written behind rotated segments whose
  rows are no longer in the ledger. With three faults in one behaviour TLC finds it.
* A crash between creating the lock file and writing its owner (1240) leaves a lock that
  is never stolen; every later projection times out and SQLite is unaffected.
* The certificate can hide a row when one process clears the run while another, that
  stole or lost the lock file, is appending; two live processes can be in the section.

Evidence.

* A damaged blob stays: registering the same bytes again finds the file and fails with
  "Evidence immutable file mismatch".

Job files.

* Two processes that update `job.json` can lose an update: an archived run is active
  again. A `job.json` read torn is created anew as active; a pointer read torn stands
  for "default". Two rotations leave a run nobody points to, two migrations or a torn
  map give the legacy run a second identity, and two processes that open a fresh run
  both append SKILL_INITIALIZED (`core/fsm-engine.ts:284`). `Unambiguous` in
  `JobsFollowTheLedger` and `OnlyFinishedRunsRotate` leaves those runs out.
* A run counts as terminal by the name of its state, whatever the skill calls final.

Telemetry.

* The broker ignores Last-Event-ID when a browser reconnects (`telemetry/broker.ts:259`;
  the single-run server honours it), and a run that was not listed when a client
  connected is later sent from its first event, whatever position the client gave.

Sync.

* A cleanup of `.old-` that fails reports "Mirror failed" with the new version
  installed (`sync/engine.ts:536`). A crash between the two renames leaves no
  destination, and no later run restores `.old-`; a link that cannot be made after the
  destination was removed is not undone. `PreviousSurvives` counts what is left on disk.

## What is left out

* Signal engine: child invocations, the compaction of the context, the projection of
  deliverables. Appends that nothing reads back (`STATE_VISITED`,
  `TRANSITION_COMPLETED`, `HUMAN_GATE_ENTERED` in most modules).
* Event store: the import of legacy per-job stores, stores without SQLite or opened
  read-only, a pid that is used again, a lock file that cannot be probed. `crashAt`
  excludes a crash between creating the lock file and writing its owner (above: it would
  mask the other questions) and with one process one while a rewrite prunes
  segments; with two processes clears are left out.
* Views: unkeyed continuations, human responses and performance events.
* Decisions: standing grants of a policy file; several gates at once.
* Judgments: prompts, thresholds and the shape of answers; decisions of a person and
  inputs that fail their preflight, which ask no adapter.
* Evidence: canonical JSON, media types, sizes, symbolic links and inline payloads; the
  granularity of file times (a stamp is the number of edits).
* Job files: aliases, parents, a pinned REACTIVE_JOB_ID, the purge, the server's cache of
  engines (`ViewDelivery` has it).
* Telemetry: target filters, heartbeats, the single-run server, a store replaced under
  the same key. The dashboard is a page of markup.
* Sync: planning over several destinations, the git cache, two syncs at a time.
* Not modelled at all: the guard evaluator, whose answer is an input of every model that
  asks it; rendering, schemas, the shape of views, vetting rules, routing, discovery and
  migration of manifests, which compute over text and data without state between calls;
  the command lines, which make one call of what is modelled and end; the documentation
  site with its content, the research harness and the release scripts, which are not part
  of the runtime and are nearly half of its lines of code. `PROJECT.json` lists every
  component with its status and reason.

## Plan

What would add most next, in this order:

1. `CertifiedIsMirrored` for two processes that open and append: what a process in the
   section may assume when another was let in beside it.
2. An abstract registry (a set of readable receipts that only grows) that
   `EvidenceStore` implements, and an abstract client stream for `TelemetryBroker`.
3. Child invocations in `RunLifecycle`: a parent's call that drives a child run.
4. The engine's two ends joined: `HumanDecisions` over the store of `JsonlMirror`, with
   a clear under an open engine.
