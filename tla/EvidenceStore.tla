---- MODULE EvidenceStore ----
(***************************************************************************)
(* The evidence registry of one run and the signals that refer to it.       *)
(*                                                                          *)
(* Bytes are published under their digest, then a receipt that binds them   *)
(* to the run and a media type, each by writing a temporary file, linking   *)
(* it under its final name and syncing the directory.  Processes share the  *)
(* directory without a lock.  A submission registers or names evidence,     *)
(* is appended to the ledger, and is accepted only when its receipt reads   *)
(* back.  A process may die or fail anywhere, the machine may lose power,   *)
(* and a file may be damaged from outside.                                  *)
(*                                                                          *)
(* A file is named after its content, so what matters of it is whether it   *)
(* holds that content.  Temporary files have names of their own and are     *)
(* never read: they are left out.                                           *)
(***************************************************************************)
EXTENDS Integers, Sequences, FiniteSets

CONSTANTS
    Procs, Keys, NoKey,
    Versions,       \* what the workspace file holds, one after the other
    Types,          \* media types
    MaxCalls,       \* bound: tool calls
    MaxEdits,       \* bound: edits of the workspace file
    MaxFaults       \* bound: deaths, losses of power, damaged files

ASSUME ConstantsAssumption ==
    /\ NoKey \notin Keys /\ Versions \subseteq Nat \ {0} /\ "foreign" \notin Types
    /\ MaxCalls \in Nat /\ MaxEdits \in Nat /\ MaxFaults \in Nat

VARIABLES
    source,     \* what the workspace file holds
    dir,        \* the directory: the state of each file, by name
    durable,    \* names that outlive a loss of power
    damaged,    \* names whose file was damaged and not published again
    log,        \* submissions in the ledger
    snapshot,   \* the submission the latest snapshot was taken after
    proc,       \* the call each process serves
    known,      \* receipts that a caller was given
    answers,    \* evidence reported for keyed submissions
    bundle,     \* the last export
    calls, edits, faults

files == <<dir, durable, damaged>>
ledger == <<log, snapshot>>
outside == <<source, known, answers, bundle>>
bounds == <<calls, edits, faults>>
vars == <<source, dir, durable, damaged, log, snapshot, proc, known, answers, bundle, calls, edits, faults>>

\* Bytes are read in two parts, from one version or from two.
Bytes == Versions \X Versions
Receipts == [bytes : Bytes, type : Types]

\* A receipt that this run never gave.
Foreign == [bytes |-> <<0, 0>>, type |-> "foreign"]

BlobOf(r) == [kind |-> "blob", bytes |-> r.bytes, type |-> "any"]
ReceiptOf(r) == [kind |-> "receipt", bytes |-> r.bytes, type |-> r.type]

Names == {BlobOf(r) : r \in Receipts} \cup {ReceiptOf(r) : r \in Receipts}

Reads(n) == n \in DOMAIN dir /\ dir[n] # "wrong"

\* LocalEvidenceStore.read
Readable(r) == Reads(ReceiptOf(r)) /\ Reads(BlobOf(r))

Emitted(k) == {i \in DOMAIN log : k # NoKey /\ log[i].key = k}
Settled(fate) == {i \in DOMAIN log : log[i].fate = fate}

\* Every event counts: the signal, and what decided it.
RunVersion == 2 * Len(log) - Cardinality(Settled("open"))

\* The references a restored or exported run verifies: those of a signal that
\* a STATE_TRANSITION committed.
Retained == {log[i].ref : i \in Settled("accepted")}

NoCall == [pc |-> "idle", op |-> "none", key |-> NoKey, ref |-> Foreign, stamp |-> 0, stage |-> "blob",
           at |-> 0, version |-> 0, todo |-> {}, events |-> {}, snapshot |-> 0]
NoBundle == [refs |-> {}, events |-> {}, snapshot |-> 0]

Goto(p, pc) == proc' = [proc EXCEPT ![p].pc = pc]
End(p) == proc' = [proc EXCEPT ![p] = NoCall]
Throw(p) == End(p) /\ UNCHANGED <<files, ledger, outside, bounds>>

-----------------------------------------------------------------------------
Init ==
    /\ source \in Versions
    /\ dir = [n \in {} |-> "whole"] /\ durable = {} /\ damaged = {}
    /\ log = <<>> /\ snapshot = 0
    /\ proc = [p \in Procs |-> NoCall]
    /\ known = {} /\ answers = {} /\ bundle = NoBundle
    /\ calls = 0 /\ edits = 0 /\ faults = 0

Begin(p, call) ==
    /\ proc[p].pc = "idle" /\ calls < MaxCalls
    /\ calls' = calls + 1
    /\ proc' = [proc EXCEPT ![p] = [call EXCEPT !.version = RunVersion]]
    /\ UNCHANGED <<files, ledger, outside, edits, faults>>

\* The file is opened, and stamped with its times, size and identity.
Capture(call, t) == [call EXCEPT !.pc = "opened", !.ref.type = t, !.stamp = edits]

\* reactive_import_evidence
Import(p) == \E t \in Types : Begin(p, Capture([NoCall EXCEPT !.op = "import"], t))

\* reactive_emit_signal: evidence is a path, a text of the payload, or a receipt.
Submit(p, k) ==
    /\ Emitted(k) = {}
    /\ LET call == [NoCall EXCEPT !.op = "submit", !.key = k] IN
       \/ \E t \in Types : Begin(p, Capture(call, t))
       \/ \E t \in Types, v \in Versions :
            Begin(p, [call EXCEPT !.pc = "linking", !.ref = [bytes |-> <<v, v>>, type |-> t]])
       \/ \E r \in known \cup {Foreign} : Begin(p, [call EXCEPT !.pc = "checking", !.ref = r])

Report(k, r) == answers' = answers \cup {[key |-> k, ref |-> r] : x \in {k} \ {NoKey}}

\* A key the ledger holds: nothing is read or registered, and the answer has
\* the receipts of the event.
Retry(p, k) ==
    /\ proc[p].pc = "idle" /\ calls < MaxCalls /\ calls' = calls + 1
    /\ \E i \in Emitted(k) : Report(k, log[i].ref)
    /\ UNCHANGED <<source, files, ledger, proc, known, bundle, edits, faults>>

-----------------------------------------------------------------------------
\* importFile
ReadFirst(p) ==
    /\ proc[p].pc = "opened"
    /\ proc' = [proc EXCEPT ![p].pc = "reading", ![p].ref.bytes = <<source, source>>]
    /\ UNCHANGED <<files, ledger, outside, bounds>>

\* Mutant: the stamps are not compared.
Stable_Never(p) == TRUE

\* assertStableSource: an edit since the file was opened shows in its stamp.
Stable(p) == proc[p].stamp = edits

ReadRest(p) ==
    /\ proc[p].pc = "reading" /\ Stable(p)
    /\ proc' = [proc EXCEPT ![p].pc = "linking", ![p].ref.bytes[2] = source]
    /\ UNCHANGED <<files, ledger, outside, bounds>>

SourceChanged(p) == proc[p].pc = "reading" /\ ~Stable(p) /\ Throw(p)

\* publish: the temporary file is complete and synced before it is linked.
File(p) == IF proc[p].stage = "blob" THEN BlobOf(proc[p].ref) ELSE ReceiptOf(proc[p].ref)

Linked(p) == [n \in DOMAIN dir \cup {File(p)} |-> IF n \in DOMAIN dir THEN dir[n] ELSE "whole"]

\* A file of that name is somebody's copy of the same content, or damaged.
\* Mutant: whoever linked it is trusted to have synced the directory.
Link_Trusts(p) ==
    /\ proc[p].pc = "linking" /\ (File(p) \in DOMAIN dir => Reads(File(p)))
    /\ dir' = Linked(p)
    /\ proc' = [proc EXCEPT ![p].pc = IF File(p) \notin DOMAIN dir THEN "syncing"
                                      ELSE IF proc[p].stage = "blob" THEN "linking" ELSE "verifying",
                            ![p].stage = IF File(p) \in DOMAIN dir THEN "receipt" ELSE @]
    /\ UNCHANGED <<durable, damaged, ledger, outside, bounds>>

Link(p) ==
    /\ proc[p].pc = "linking" /\ (File(p) \in DOMAIN dir => Reads(File(p)))
    /\ dir' = Linked(p)
    /\ Goto(p, "syncing")
    /\ UNCHANGED <<durable, damaged, ledger, outside, bounds>>

Mismatch(p) == proc[p].pc = "linking" /\ File(p) \in DOMAIN dir /\ ~Reads(File(p)) /\ Throw(p)

\* syncDirectory
Sync(p) ==
    /\ proc[p].pc = "syncing"
    /\ durable' = DOMAIN dir
    /\ damaged' = {n \in damaged : ~Reads(n)}
    /\ proc' = [proc EXCEPT ![p].stage = "receipt",
                            ![p].pc = IF proc[p].stage = "blob" THEN "linking" ELSE "verifying"]
    /\ UNCHANGED <<dir, ledger, outside, bounds>>

\* restoreBundle registers the next entry; an import is answered.
AfterRegister(p) ==
    CASE proc[p].op = "submit" -> [proc[p] EXCEPT !.pc = "checking"]
      [] proc[p].op = "restore" -> [proc[p] EXCEPT !.pc = "restoring"]
      [] OTHER -> NoCall

\* The copy is read and hashed before the receipt is returned.
Verify(p) ==
    /\ proc[p].pc = "verifying" /\ Readable(proc[p].ref)
    /\ known' = known \cup {proc[p].ref}
    /\ proc' = [proc EXCEPT ![p] = AfterRegister(p)]
    /\ UNCHANGED <<files, ledger, source, answers, bundle, bounds>>

VerifyFails(p) == proc[p].pc = "verifying" /\ ~Readable(proc[p].ref) /\ Throw(p)

Register(p) == ReadFirst(p) \/ ReadRest(p) \/ SourceChanged(p) \/ Link(p) \/ Mismatch(p) \/ Sync(p)
               \/ Verify(p) \/ VerifyFails(p)

-----------------------------------------------------------------------------
\* handleSignal
Stale(p) == RunVersion # proc[p].version

Check(p) ==
    /\ proc[p].pc = "checking" /\ Emitted(proc[p].key) = {} /\ ~Stale(p)
    /\ Goto(p, "appending")
    /\ UNCHANGED <<files, ledger, outside, bounds>>

Conflict(p) ==
    /\ proc[p].pc \in {"checking", "guarding"}
    /\ (proc[p].pc = "checking" => Emitted(proc[p].key) = {})
    /\ Stale(p) /\ Throw(p)

Emit(p) ==
    /\ proc[p].pc = "appending" /\ Emitted(proc[p].key) = {}
    /\ log' = Append(log, [key |-> proc[p].key, ref |-> proc[p].ref, fate |-> "open"])
    /\ proc' = [proc EXCEPT ![p].pc = "resolving", ![p].at = Len(log'), ![p].version = RunVersion']
    /\ UNCHANGED <<files, snapshot, outside, bounds>>

\* Another process submitted under the key: its event is the result.
\* Mutant: the answer has the receipts of this call.
Duplicate_Own(p) ==
    /\ proc[p].pc \in {"checking", "appending"} /\ Emitted(proc[p].key) # {}
    /\ Report(proc[p].key, proc[p].ref)
    /\ End(p)
    /\ UNCHANGED <<files, ledger, source, known, bundle, bounds>>

Duplicate(p) ==
    /\ proc[p].pc \in {"checking", "appending"}
    /\ \E i \in Emitted(proc[p].key) : Report(proc[p].key, log[i].ref)
    /\ End(p)
    /\ UNCHANGED <<files, ledger, source, known, bundle, bounds>>

Settle(p, fate) == log' = [log EXCEPT ![proc[p].at].fate = fate]

Refuse(p) ==
    /\ Settle(p, "refused")
    /\ Report(proc[p].key, proc[p].ref)
    /\ End(p)
    /\ UNCHANGED <<files, snapshot, source, known, bundle, bounds>>

\* resolveSignalEvidence
Resolve(p) ==
    /\ proc[p].pc = "resolving" /\ Readable(proc[p].ref)
    /\ Goto(p, "guarding")
    /\ UNCHANGED <<files, ledger, outside, bounds>>

Unverified(p) == proc[p].pc = "resolving" /\ ~Readable(proc[p].ref) /\ Refuse(p)

\* The guard has answered.
Accept(p) ==
    /\ proc[p].pc = "accepting"
    /\ Settle(p, "accepted")
    /\ Goto(p, "saving")
    /\ UNCHANGED <<files, snapshot, outside, bounds>>

Answered(p) ==
    /\ proc[p].pc = "guarding" /\ ~Stale(p)
    /\ Refuse(p) \/ (Goto(p, "accepting") /\ UNCHANGED <<files, ledger, outside, bounds>>)

\* The snapshot holds the context with the reference of this submission.
SaveSnapshot(p) ==
    /\ proc[p].pc = "saving"
    /\ snapshot' = proc[p].at
    /\ Report(proc[p].key, proc[p].ref)
    /\ End(p)
    /\ UNCHANGED <<files, log, source, known, bundle, bounds>>

Signal(p) == Check(p) \/ Conflict(p) \/ Emit(p) \/ Duplicate(p) \/ Resolve(p) \/ Unverified(p)
             \/ Answered(p) \/ Accept(p) \/ SaveSnapshot(p)

-----------------------------------------------------------------------------
\* exportRun: the version and the events, the snapshot, the evidence of both.
ExportEvents(p) ==
    /\ Begin(p, [NoCall EXCEPT !.op = "export", !.pc = "snapshot", !.events = Settled("accepted")])
    /\ \A r \in Retained : Readable(r)

ExportSnapshot(p) ==
    /\ proc[p].pc = "snapshot"
    /\ proc' = [proc EXCEPT ![p].pc = "bundling", ![p].snapshot = snapshot]
    /\ UNCHANGED <<files, ledger, outside, bounds>>

Referenced(p) == {log[i].ref : i \in proc[p].events \cup ({proc[p].snapshot} \ {0})}

\* exportBundle, and assertRunVersion at the end.
\* Mutant: the version is not compared.
Bundle_Unchecked(p) ==
    /\ proc[p].pc = "bundling" /\ \A r \in Referenced(p) : Readable(r)
    /\ bundle' = [refs |-> Referenced(p), events |-> proc[p].events, snapshot |-> proc[p].snapshot]
    /\ End(p)
    /\ UNCHANGED <<files, ledger, source, known, answers, bounds>>

Bundle(p) ==
    /\ proc[p].pc = "bundling" /\ \A r \in Referenced(p) : Readable(r)
    /\ ~Stale(p)
    /\ bundle' = [refs |-> Referenced(p), events |-> proc[p].events, snapshot |-> proc[p].snapshot]
    /\ End(p)
    /\ UNCHANGED <<files, ledger, source, known, answers, bounds>>

BundleFails(p) ==
    /\ proc[p].pc = "bundling"
    /\ Stale(p) \/ \E r \in Referenced(p) : ~Readable(r)
    /\ Throw(p)

\* restoreBundle checks every entry against its digest, then registers each.
Restore(p) ==
    /\ bundle.refs # {}
    /\ Begin(p, [NoCall EXCEPT !.op = "restore", !.pc = "restoring", !.todo = bundle.refs])

RestoreNext(p) ==
    /\ proc[p].pc = "restoring"
    /\ \E r \in proc[p].todo :
         proc' = [proc EXCEPT ![p].pc = "linking", ![p].stage = "blob", ![p].ref = r, ![p].todo = @ \ {r}]
    /\ UNCHANGED <<files, ledger, outside, bounds>>

Restored(p) == proc[p].pc = "restoring" /\ proc[p].todo = {} /\ Throw(p)

Export(p) == ExportEvents(p) \/ ExportSnapshot(p) \/ Bundle(p) \/ BundleFails(p)
             \/ Restore(p) \/ RestoreNext(p) \/ Restored(p)

-----------------------------------------------------------------------------
Fault == faults < MaxFaults /\ faults' = faults + 1

\* The process dies, or a call of the file system fails.
Abandon(p) ==
    /\ proc[p].pc # "idle" /\ Fault
    /\ End(p)
    /\ UNCHANGED <<files, ledger, outside, calls, edits>>

\* Names that were not synced may be lost; the ledger is synced at each commit.
PowerLoss ==
    /\ Fault
    /\ proc' = [p \in Procs |-> NoCall]
    /\ \E lost \in SUBSET (DOMAIN dir \ durable) : dir' = [n \in DOMAIN dir \ lost |-> dir[n]]
    /\ UNCHANGED <<durable, damaged, ledger, outside, calls, edits>>

\* Somebody overwrites or removes a file of the registry.
Damage(n) ==
    /\ Fault
    /\ damaged' = damaged \cup {n}
    /\ \/ dir' = [dir EXCEPT ![n] = "wrong"] /\ UNCHANGED durable
       \/ dir' = [f \in DOMAIN dir \ {n} |-> dir[f]] /\ durable' = durable \ {n}
    /\ UNCHANGED <<ledger, outside, proc, calls, edits>>

Edit(v) ==
    /\ edits < MaxEdits /\ edits' = edits + 1
    /\ v # source /\ source' = v
    /\ UNCHANGED <<files, ledger, proc, known, answers, bundle, calls, faults>>

Next ==
    \/ \E p \in Procs : Import(p) \/ Register(p) \/ Signal(p) \/ Export(p) \/ Abandon(p)
    \/ \E p \in Procs, k \in Keys : Submit(p, k) \/ Retry(p, k)
    \/ \E n \in DOMAIN dir : Damage(n)
    \/ \E v \in Versions : Edit(v)
    \/ PowerLoss

Spec == Init /\ [][Next]_vars

-----------------------------------------------------------------------------
Calls == [pc : {"idle", "opened", "reading", "linking", "syncing", "verifying", "checking", "appending",
                "resolving", "guarding", "accepting", "saving", "snapshot", "bundling", "restoring"},
          op : {"none", "import", "submit", "export", "restore"}]

\* The type of the state.  What outlives a loss of power is in the directory,
\* the snapshot is of an accepted submission, and a key has one event.
TypeOK ==
    /\ source \in Versions /\ known \subseteq Receipts
    /\ DOMAIN dir \subseteq Names /\ \A n \in DOMAIN dir : dir[n] \in {"whole", "wrong"}
    /\ durable \subseteq DOMAIN dir
    /\ \A p \in Procs : [pc |-> proc[p].pc, op |-> proc[p].op] \in Calls
    /\ \A i \in DOMAIN log : log[i].ref \in Receipts \cup {Foreign}
    /\ snapshot # 0 => snapshot \in Settled("accepted")
    /\ \A k \in Keys : Cardinality(Emitted(k)) <= 1

\* publish, registerBytes: whoever links, loses power or dies, a receipt in the
\* directory has its bytes beside it, unless those were damaged from outside.
ReceiptsAreBacked ==
    \A n \in DOMAIN dir : n.kind = "receipt" =>
        LET blob == [n EXCEPT !.kind = "blob", !.type = "any"] IN blob \in damaged \/ Reads(blob)

\* read: a receipt that was returned to a caller reads back for good, through
\* any number of crashes, losses of power and registrations of the same bytes.
ReturnedReceiptsStay ==
    \A r \in known : \A n \in {BlobOf(r), ReceiptOf(r)} : n \in damaged \/ (n \in durable /\ Reads(n))

\* importFile: what is registered is what the file held at one time, however it
\* is edited while it is read.
CapturesOneVersion == \A n \in DOMAIN dir : n.bytes[1] = n.bytes[2]

\* resolveEvents: a run can always be reopened and exported.  What a restored
\* engine verifies reads back, whatever unverified references were refused.
RunReopens ==
    \A r \in Retained : \A n \in {BlobOf(r), ReceiptOf(r)} : n \in damaged \/ (n \in durable /\ Reads(n))

\* submitEvidenceSignal: all that submit under a key are told of the evidence
\* that the ledger holds, although the file has changed since.
AnswersAgree == \A a \in answers : \E i \in Emitted(a.key) : log[i].ref = a.ref

\* exportRun: an export holds no snapshot of a submission it does not hold, and
\* everything it refers to.
ExportIsConsistent ==
    /\ bundle.snapshot # 0 => bundle.snapshot \in bundle.events
    /\ \A i \in bundle.events : log[i].fate = "accepted" /\ log[i].ref \in bundle.refs

\* A receipt in the registry, in a caller's hands or in an accepted signal stands for
\* bytes that can be read.
EvidenceIsKept == TypeOK /\ ReceiptsAreBacked /\ ReturnedReceiptsStay /\ RunReopens
=============================================================================
