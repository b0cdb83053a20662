---- MODULE EvidenceStore_proof ----
(***************************************************************************)
(* Proofs about EvidenceStore, for any processes, keys, versions and media  *)
(* types, and any number of calls, edits and faults.                        *)
(*                                                                          *)
(* The properties speak of receipts that somebody holds.  What makes them   *)
(* inductive is how far each registration has come (RegisteringOf): which   *)
(* name is durable, which is only linked; which call owns which open        *)
(* submission (SubmittingOf, OwnedOnce); and that an export whose version   *)
(* still holds has read the accepted submissions of this very ledger        *)
(* (ExportingOf).  Grows is what no step takes back: a call is therefore    *)
(* not disturbed by the steps of the others (Bystander), and each action is *)
(* left with the shared state and its own call (StepOf).                    *)
(***************************************************************************)
EXTENDS EvidenceStore, FiniteSetTheorems, TLAPS

Pcs == {"idle", "opened", "reading", "linking", "syncing", "verifying", "checking", "appending",
        "resolving", "guarding", "accepting", "saving", "snapshot", "bundling", "restoring"}

Refs == [bytes : (Versions \cup {0}) \X (Versions \cup {0}), type : Types \cup {"foreign"}]

Served == [pc : Pcs, op : {"none", "import", "submit", "export", "restore"}, key : Keys \cup {NoKey},
           ref : Refs, stamp : Nat, stage : {"blob", "receipt"}, at : Nat, version : Int,
           todo : SUBSET Receipts, events : SUBSET Nat, snapshot : Nat]

Entries == [key : Keys \cup {NoKey}, ref : Receipts \cup {Foreign}, fate : {"open", "refused", "accepted"}]

Typed ==
    /\ source \in Versions /\ known \subseteq Receipts
    /\ dir \in [DOMAIN dir -> {"whole", "wrong"}] /\ DOMAIN dir \subseteq Names
    /\ durable \subseteq DOMAIN dir
    /\ log \in Seq(Entries) /\ snapshot \in Nat
    /\ proc \in [Procs -> Served]
    /\ bundle.refs \subseteq Receipts /\ edits \in Nat

OneVersion(r) == r \in Receipts /\ r.bytes[1] = r.bytes[2]

\* The file of this name will be read for good, unless it is damaged from outside.
Kept(n) == n \in damaged \/ (n \in durable /\ Reads(n))

Registered(r) == OneVersion(r) /\ Kept(BlobOf(r)) /\ Kept(ReceiptOf(r))

\* What the directory holds, synced or not.
Stored ==
    /\ \A n \in DOMAIN dir : dir[n] = "wrong" => n \in damaged
    /\ \A n \in DOMAIN dir : n.bytes[1] = n.bytes[2]
    /\ \A r \in Receipts : ReceiptOf(r) \in DOMAIN dir => Kept(BlobOf(r))

\* How far a registration has come.
RegisteringOf(p) ==
    /\ proc[p].pc \in {"opened", "reading"} =>
        /\ proc[p].ref.type \in Types /\ proc[p].stamp <= edits
        /\ proc[p].stage = "blob"
    /\ proc[p].pc = "reading" =>
        /\ \E v \in Versions : proc[p].ref.bytes = <<v, v>>
        /\ Stable(p) => proc[p].ref.bytes = <<source, source>>
    /\ proc[p].pc \in {"linking", "syncing", "verifying"} => OneVersion(proc[p].ref)
    /\ (proc[p].pc \in {"linking", "syncing"} /\ proc[p].stage = "receipt") => Kept(BlobOf(proc[p].ref))
    /\ proc[p].pc = "syncing" => File(p) \in DOMAIN dir \cup damaged
    /\ proc[p].pc = "verifying" => Registered(proc[p].ref)
    /\ \A r \in proc[p].todo : OneVersion(r)

Owning(p) == proc[p].pc \in {"resolving", "guarding", "accepting", "saving"}

\* Which submission a call owns, and how much is known of its evidence.
SubmittingOf(p) ==
    /\ proc[p].pc \in {"checking", "appending", "resolving"} => proc[p].ref = Foreign \/ Registered(proc[p].ref)
    /\ proc[p].pc \in {"guarding", "accepting", "saving"} => Registered(proc[p].ref)
    /\ Owning(p) =>
        /\ proc[p].at \in DOMAIN log
        /\ log[proc[p].at].key = proc[p].key /\ log[proc[p].at].ref = proc[p].ref
        /\ log[proc[p].at].fate = IF proc[p].pc = "saving" THEN "accepted" ELSE "open"

\* What the ledger holds and what was handed out.
Recorded ==
    /\ \A i, j \in DOMAIN log : log[i].key = log[j].key /\ log[i].key # NoKey => i = j
    /\ \A i \in Settled("accepted") : Registered(log[i].ref)
    /\ snapshot # 0 => snapshot \in Settled("accepted")
    /\ \A r \in known : Registered(r)
    /\ AnswersAgree

\* What an export has read, and what the last one holds.
ExportingOf(p) ==
    proc[p].pc \in {"snapshot", "bundling"} =>
        /\ proc[p].events \subseteq Settled("accepted")
        /\ proc[p].version <= RunVersion
        /\ ~Stale(p) => proc[p].events = Settled("accepted")
        /\ proc[p].pc = "bundling" /\ proc[p].snapshot # 0 => proc[p].snapshot \in Settled("accepted")

Bundled ==
    /\ ExportIsConsistent
    /\ bundle.events \subseteq Settled("accepted") /\ \A r \in bundle.refs : OneVersion(r)

Of(p) == RegisteringOf(p) /\ SubmittingOf(p) /\ ExportingOf(p)

\* A submission is owned once.
OwnedOnce == \A p, q \in Procs : Owning(p) /\ Owning(q) /\ proc[p].at = proc[q].at => p = q

IInv == Typed /\ Stored /\ Recorded /\ Bundled /\ OwnedOnce /\ \A p \in Procs : Of(p)

-----------------------------------------------------------------------------
(* Types *)

\* A call at rest is typed; the foreign reference is none of the receipts.
LEMMA Idle ==
    /\ Foreign \in Refs /\ Foreign \notin Receipts /\ Receipts \subseteq Refs
    /\ NoCall \in Served /\ NoCall.pc = "idle" /\ NoCall.todo = {} /\ NoCall.stage = "blob"
BY ConstantsAssumption DEF Foreign, Refs, Receipts, Bytes, NoCall, Served, Pcs

\* A receipt names two files, and no file is named by two receipts or by both stages.
LEMMA NamesOf ==
    ASSUME NEW r \in Receipts
    PROVE  /\ BlobOf(r) \in Names /\ ReceiptOf(r) \in Names
           /\ BlobOf(r).bytes = r.bytes /\ ReceiptOf(r).bytes = r.bytes
           /\ \A s \in Receipts : ReceiptOf(s) = ReceiptOf(r) => s = r
           /\ \A s \in Receipts : ReceiptOf(s) # BlobOf(r)
BY DEF Names, BlobOf, ReceiptOf, Receipts

\* The version of the run is a number, and shows every change of the ledger.
LEMMA VersionTyped ==
    ASSUME Typed
    PROVE  /\ RunVersion \in Int /\ DOMAIN log = 1 .. Len(log) /\ Len(log) \in Nat
           /\ IsFiniteSet(Settled("open")) /\ Cardinality(Settled("open")) \in Nat
<1>1. DOMAIN log = 1 .. Len(log) /\ Len(log) \in Nat
  BY DEF Typed
<1>2. IsFiniteSet(1 .. Len(log))
  BY <1>1, FS_Interval
<1>3. IsFiniteSet(Settled("open"))
  BY <1>1, <1>2, FS_Subset DEF Settled
<1>4. Cardinality(Settled("open")) \in Nat
  BY <1>3, FS_CardinalityType
<1> QED
  BY <1>1, <1>3, <1>4 DEF RunVersion

\* Emit: a new entry.
LEMMA EmitFacts ==
    ASSUME Typed, NEW p \in Procs, Emit(p), proc[p].ref \in Receipts \cup {Foreign}
    PROVE  /\ log' \in Seq(Entries)
           /\ DOMAIN log' = 1 .. Len(log) + 1 /\ DOMAIN log = 1 .. Len(log) /\ Len(log) \in Nat /\ Len(log') = Len(log) + 1
           /\ \A i \in DOMAIN log : log'[i] = log[i]
           /\ log'[Len(log) + 1] = [key |-> proc[p].key, ref |-> proc[p].ref, fate |-> "open"]
           /\ RunVersion' = RunVersion + 1
<1> DEFINE e == [key |-> proc[p].key, ref |-> proc[p].ref, fate |-> "open"]
<1>1. proc[p].key \in Keys \cup {NoKey}
  BY DEF Typed, Served
<1>2. e \in Entries
  BY <1>1 DEF Entries
<1>3. log' = Append(log, e) /\ log \in Seq(Entries)
  BY DEF Emit, Typed
<1>4. e.fate = "open"
  OBVIOUS
<1> HIDE DEF e
<1>5. /\ log' \in Seq(Entries) /\ DOMAIN log' = 1 .. Len(log) + 1 /\ DOMAIN log = 1 .. Len(log) /\ Len(log) \in Nat
      /\ Len(log') = Len(log) + 1 /\ \A i \in DOMAIN log : log'[i] = log[i]
      /\ log'[Len(log) + 1] = e
  BY <1>2, <1>3
<1>6. Settled("open")' = Settled("open") \cup {Len(log) + 1}
  BY <1>4, <1>5 DEF Settled
<1>7. Len(log) + 1 \notin Settled("open")
  BY <1>5 DEF Settled
<1>8. Cardinality(Settled("open")') = Cardinality(Settled("open")) + 1
  BY <1>6, <1>7, VersionTyped, FS_AddElement
<1>9. RunVersion' = RunVersion + 1
  BY <1>5, <1>8, VersionTyped DEF RunVersion
<1> QED
  BY <1>5, <1>9 DEF e

\* Settle: the fate of one open entry.
LEMMA SettleFacts ==
    ASSUME Typed, NEW p \in Procs, NEW fate \in {"refused", "accepted"}, Settle(p, fate),
           proc[p].at \in DOMAIN log, log[proc[p].at].fate = "open"
    PROVE  /\ log' \in Seq(Entries) /\ DOMAIN log' = DOMAIN log
           /\ \A i \in DOMAIN log : log'[i].key = log[i].key /\ log'[i].ref = log[i].ref
           /\ \A i \in DOMAIN log : i # proc[p].at => log'[i] = log[i]
           /\ log'[proc[p].at].fate = fate
           /\ RunVersion' = RunVersion + 1
<1> DEFINE a == proc[p].at
<1>1. log' = [log EXCEPT ![a].fate = fate] /\ log \in Seq(Entries) /\ a \in DOMAIN log /\ log[a].fate = "open"
  BY DEF Settle, Typed
<1> HIDE DEF a
<1>2. log[a] \in Entries
  BY <1>1
<1>3. [log[a] EXCEPT !.fate = fate] \in Entries
  BY <1>2 DEF Entries
<1>4. /\ log' \in Seq(Entries) /\ DOMAIN log' = DOMAIN log /\ Len(log') = Len(log)
      /\ \A i \in DOMAIN log : i # a => log'[i] = log[i]
      /\ log'[a] = [log[a] EXCEPT !.fate = fate]
  BY <1>1, <1>3
<1>5. log'[a].key = log[a].key /\ log'[a].ref = log[a].ref /\ log'[a].fate = fate
  BY <1>2, <1>4 DEF Entries
<1>6. Settled("open")' = Settled("open") \ {a} /\ a \in Settled("open")
  BY <1>1, <1>4, <1>5 DEF Settled
<1>7. Cardinality(Settled("open")') = Cardinality(Settled("open")) - 1
  BY <1>6, VersionTyped, FS_RemoveElement
<1>8. RunVersion' = RunVersion + 1
  BY <1>4, <1>7, VersionTyped DEF RunVersion
<1> QED
  BY <1>4, <1>5, <1>8 DEF a

\* A call with another counter.
LEMMA SetPc ==
    ASSUME NEW c \in Served, NEW pc \in Pcs
    PROVE  LET d == [c EXCEPT !.pc = pc] IN
           /\ d \in Served
           /\ d.pc = pc /\ d.op = c.op /\ d.key = c.key /\ d.ref = c.ref /\ d.stamp = c.stamp /\ d.stage = c.stage
           /\ d.at = c.at /\ d.version = c.version /\ d.todo = c.todo /\ d.events = c.events /\ d.snapshot = c.snapshot
BY DEF Served

\* One process moves.
Serves(p, d) ==
    /\ proc' \in [Procs -> Served] /\ d \in Served /\ proc'[p] = d
    /\ \A q \in Procs : q # p => proc'[q] = proc[q]

\* A process is given a typed call.
LEMMA Serving ==
    ASSUME Typed, NEW p \in Procs, NEW d \in Served, proc' = [proc EXCEPT ![p] = d]
    PROVE  Serves(p, d)
BY DEF Typed, Serves

\* Goto.
LEMMA GotoServes ==
    ASSUME Typed, NEW p \in Procs, NEW pc \in Pcs, Goto(p, pc)
    PROVE  Serves(p, [proc[p] EXCEPT !.pc = pc])
<1>1. proc[p] \in Served
  BY DEF Typed
<1> QED
  BY <1>1, SetPc, Serving, Zenon DEF Goto

\* End: the process is at rest.
LEMMA EndServes ==
    ASSUME Typed, NEW p \in Procs, End(p)
    PROVE  Serves(p, NoCall)
BY Idle, Serving DEF End

\* Begin: the call notes the version of the run.
LEMMA BeginServes ==
    ASSUME Typed, NEW p \in Procs, NEW call \in Served, Begin(p, call)
    PROVE  Serves(p, [call EXCEPT !.version = RunVersion])
<1>1. [call EXCEPT !.version = RunVersion] \in Served
  BY VersionTyped DEF Served
<1> QED
  BY <1>1, Serving DEF Begin

\* A call with another version.
LEMMA SetVersion ==
    ASSUME NEW c \in Served, NEW n \in Int
    PROVE  LET d == [c EXCEPT !.version = n] IN
           /\ d \in Served
           /\ d.pc = c.pc /\ d.op = c.op /\ d.key = c.key /\ d.ref = c.ref /\ d.stamp = c.stamp /\ d.stage = c.stage
           /\ d.at = c.at /\ d.version = n /\ d.todo = c.todo /\ d.events = c.events /\ d.snapshot = c.snapshot
BY DEF Served

\* The file is opened and stamped.
LEMMA CaptureFacts ==
    ASSUME NEW c \in Served, NEW t \in Types, edits \in Nat
    PROVE  LET d == Capture(c, t) IN
           /\ d \in Served /\ d.pc = "opened" /\ d.ref.type = t /\ d.stamp = edits /\ d.todo = c.todo
           /\ d.stage = c.stage /\ d.key = c.key /\ d.op = c.op
<1> DEFINE c1 == [c EXCEPT !.pc = "opened"]
           c2 == [c1 EXCEPT !.ref = [@ EXCEPT !.type = t]]
           c3 == [c2 EXCEPT !.stamp = edits]
<1>1. /\ c1 \in Served /\ c1.pc = "opened" /\ c1.ref = c.ref /\ c1.todo = c.todo /\ c1.stage = c.stage
      /\ c1.key = c.key /\ c1.op = c.op
  BY DEF Served, Pcs
<1>2. c.ref \in Refs
  BY DEF Served
<1>3. [c.ref EXCEPT !.type = t] \in Refs /\ [c.ref EXCEPT !.type = t].type = t
  BY <1>2 DEF Refs
<1> HIDE DEF c1
<1>4. /\ c2 \in Served /\ c2.pc = "opened" /\ c2.ref.type = t /\ c2.todo = c.todo /\ c2.stage = c.stage
      /\ c2.key = c.key /\ c2.op = c.op
  BY <1>1, <1>3 DEF Served
<1> HIDE DEF c2
<1>5. /\ c3 \in Served /\ c3.pc = "opened" /\ c3.ref.type = t /\ c3.todo = c.todo /\ c3.stage = c.stage
      /\ c3.key = c.key /\ c3.op = c.op /\ c3.stamp = edits
  BY <1>4 DEF Served
<1>6. Capture(c, t) = c3
  BY DEF Capture, c3, c2, c1
<1> QED
  BY <1>5, <1>6

\* ReadFirst: both parts are taken for those of the version that is read first.
LEMMA ReadFirstServes ==
    ASSUME Typed, NEW p \in Procs, ReadFirst(p)
    PROVE  \E d : /\ Serves(p, d) /\ d.pc = "reading" /\ d.ref.bytes = <<source, source>> /\ d.ref.type = proc[p].ref.type
                  /\ d.stamp = proc[p].stamp /\ d.stage = proc[p].stage /\ d.todo = proc[p].todo
<1> DEFINE c == proc[p]
           r == [c.ref EXCEPT !.bytes = <<source, source>>]
           c1 == [c EXCEPT !.pc = "reading"]
           d == [c1 EXCEPT !.ref = r]
<1>1. c \in Served /\ source \in Versions
  BY DEF Typed
<1>2. c.ref \in Refs
  BY <1>1 DEF Served
<1>3. r \in Refs /\ r.bytes = <<source, source>> /\ r.type = c.ref.type
  BY <1>1, <1>2 DEF Refs
<1>4. c1 \in Served /\ c1.pc = "reading" /\ c1.ref = c.ref /\ c1.stamp = c.stamp /\ c1.stage = c.stage /\ c1.todo = c.todo
  BY <1>1 DEF Served, Pcs
<1>5. proc' = [proc EXCEPT ![p] = d]
  BY DEF ReadFirst, Typed
<1> HIDE DEF c1, r, c
<1>6. d \in Served /\ d.pc = "reading" /\ d.ref = r /\ d.stamp = c.stamp /\ d.stage = c.stage /\ d.todo = c.todo
  BY <1>3, <1>4 DEF Served
<1> HIDE DEF d
<1>7. Serves(p, d)
  BY <1>5, <1>6, Serving
<1> QED
  BY <1>3, <1>6, <1>7 DEF c

\* ReadRest: the second part is of the version that is read now.
LEMMA ReadRestServes ==
    ASSUME Typed, NEW p \in Procs, ReadRest(p)
    PROVE  \E d : /\ Serves(p, d) /\ d.pc = "linking" /\ d.ref.bytes = <<proc[p].ref.bytes[1], source>>
                  /\ d.ref.type = proc[p].ref.type
                  /\ d.stage = proc[p].stage /\ d.todo = proc[p].todo
<1> DEFINE c == proc[p]
           b == [c.ref.bytes EXCEPT ![2] = source]
           r == [c.ref EXCEPT !.bytes = b]
           c1 == [c EXCEPT !.pc = "linking"]
           d == [c1 EXCEPT !.ref = r]
<1>1. c \in Served /\ source \in Versions
  BY DEF Typed
<1>2. c.ref \in Refs
  BY <1>1 DEF Served
<1>a. c.ref.bytes \in (Versions \cup {0}) \X (Versions \cup {0})
  BY <1>2 DEF Refs
<1>b. b = <<c.ref.bytes[1], source>>
  BY <1>a
<1>c. b \in (Versions \cup {0}) \X (Versions \cup {0})
  BY <1>1, <1>a, <1>b
<1>3. r \in Refs /\ r.bytes = b /\ r.type = c.ref.type
  BY <1>c, <1>2 DEF Refs
<1>4. c1 \in Served /\ c1.pc = "linking" /\ c1.ref = c.ref /\ c1.stamp = c.stamp /\ c1.stage = c.stage /\ c1.todo = c.todo
  BY <1>1 DEF Served, Pcs
<1>5. proc' = [proc EXCEPT ![p] = d]
  BY DEF ReadRest, Typed
<1> HIDE DEF c1, r, c, b
<1>6. d \in Served /\ d.pc = "linking" /\ d.ref = r /\ d.stage = c.stage /\ d.todo = c.todo
  BY <1>3, <1>4 DEF Served
<1> HIDE DEF d
<1>7. Serves(p, d)
  BY <1>5, <1>6, Serving
<1> QED
  BY <1>b, <1>3, <1>6, <1>7 DEF c

\* Sync: the receipt is next, or the registration is verified.
LEMMA SyncServes ==
    ASSUME Typed, NEW p \in Procs, Sync(p)
    PROVE  \E d : /\ Serves(p, d) /\ d.pc = (IF proc[p].stage = "blob" THEN "linking" ELSE "verifying")
                  /\ d.stage = "receipt" /\ d.ref = proc[p].ref /\ d.todo = proc[p].todo
<1> DEFINE c == proc[p]
           pc == IF c.stage = "blob" THEN "linking" ELSE "verifying"
           c1 == [c EXCEPT !.stage = "receipt"]
           d == [c1 EXCEPT !.pc = pc]
<1>1. c \in Served
  BY DEF Typed
<1>2. c1 \in Served /\ c1.ref = c.ref /\ c1.todo = c.todo /\ c1.stage = "receipt"
  BY <1>1 DEF Served
<1>3. pc \in Pcs
  BY DEF Pcs
<1>4. proc' = [proc EXCEPT ![p] = d]
  BY DEF Sync, Typed
<1> HIDE DEF c1, c, pc
<1>5. d \in Served /\ d.pc = pc /\ d.ref = c.ref /\ d.stage = "receipt" /\ d.todo = c.todo
  BY <1>2, <1>3 DEF Served
<1> HIDE DEF d
<1>6. Serves(p, d)
  BY <1>4, <1>5, Serving
<1> QED
  BY <1>5, <1>6 DEF c, pc

\* Verify: the call goes on with the receipt, or ends.
LEMMA VerifyServes ==
    ASSUME Typed, NEW p \in Procs, Verify(p)
    PROVE  \E d : /\ Serves(p, d) /\ d.pc \in {"checking", "restoring", "idle"}
                  /\ (d.pc = "checking" => d.ref = proc[p].ref) /\ d.todo \subseteq proc[p].todo
<1>1. proc[p] \in Served
  BY DEF Typed
<1>2. /\ [proc[p] EXCEPT !.pc = "checking"] \in Served /\ [proc[p] EXCEPT !.pc = "restoring"] \in Served
      /\ [proc[p] EXCEPT !.pc = "checking"].pc = "checking" /\ [proc[p] EXCEPT !.pc = "restoring"].pc = "restoring"
      /\ [proc[p] EXCEPT !.pc = "checking"].ref = proc[p].ref
      /\ [proc[p] EXCEPT !.pc = "checking"].todo = proc[p].todo /\ [proc[p] EXCEPT !.pc = "restoring"].todo = proc[p].todo
  BY <1>1 DEF Served, Pcs
<1>3. AfterRegister(p) \in {[proc[p] EXCEPT !.pc = "checking"], [proc[p] EXCEPT !.pc = "restoring"], NoCall}
  BY DEF AfterRegister
<1>4. Serves(p, AfterRegister(p))
  BY <1>2, <1>3, Idle, Serving DEF Verify
<1> QED
  BY <1>2, <1>3, <1>4, Idle

\* Emit: the call owns the new entry.
LEMMA EmitServes ==
    ASSUME Typed, NEW p \in Procs, Emit(p), Len(log') \in Nat, RunVersion' \in Int
    PROVE  \E d : /\ Serves(p, d) /\ d.pc = "resolving" /\ d.at = Len(log') /\ d.key = proc[p].key
                  /\ d.ref = proc[p].ref /\ d.todo = proc[p].todo
<1> DEFINE c == proc[p]
           c1 == [c EXCEPT !.pc = "resolving"]
           c2 == [c1 EXCEPT !.at = Len(log')]
           d == [c2 EXCEPT !.version = RunVersion']
<1>1. c \in Served
  BY DEF Typed
<1>2. c1 \in Served /\ c1.pc = "resolving" /\ c1.key = c.key /\ c1.ref = c.ref /\ c1.todo = c.todo
  BY <1>1 DEF Served, Pcs
<1>3. proc' = [proc EXCEPT ![p] = d]
  BY DEF Emit, Typed
<1> HIDE DEF c1, c
<1>4. c2 \in Served /\ c2.pc = "resolving" /\ c2.at = Len(log') /\ c2.key = c.key /\ c2.ref = c.ref /\ c2.todo = c.todo
  BY <1>2 DEF Served
<1> HIDE DEF c2
<1>5. d \in Served /\ d.pc = "resolving" /\ d.at = Len(log') /\ d.key = c.key /\ d.ref = c.ref /\ d.todo = c.todo
  BY <1>4 DEF Served
<1> HIDE DEF d
<1>6. Serves(p, d)
  BY <1>3, <1>5, Serving
<1> QED
  BY <1>5, <1>6 DEF c

\* ExportSnapshot: the snapshot that is read now.
LEMMA ExportSnapshotServes ==
    ASSUME Typed, NEW p \in Procs, ExportSnapshot(p)
    PROVE  \E d : /\ Serves(p, d) /\ d.pc = "bundling" /\ d.snapshot = snapshot /\ d.events = proc[p].events
                  /\ d.version = proc[p].version /\ d.todo = proc[p].todo
<1> DEFINE c == proc[p]
           c1 == [c EXCEPT !.pc = "bundling"]
           d == [c1 EXCEPT !.snapshot = snapshot]
<1>1. c \in Served /\ snapshot \in Nat
  BY DEF Typed
<1>2. c1 \in Served /\ c1.pc = "bundling" /\ c1.events = c.events /\ c1.version = c.version /\ c1.todo = c.todo
  BY <1>1 DEF Served, Pcs
<1>3. proc' = [proc EXCEPT ![p] = d]
  BY DEF ExportSnapshot, Typed
<1> HIDE DEF c1, c
<1>4. /\ d \in Served /\ d.pc = "bundling" /\ d.snapshot = snapshot /\ d.events = c.events /\ d.version = c.version
      /\ d.todo = c.todo
  BY <1>1, <1>2 DEF Served
<1> HIDE DEF d
<1>5. Serves(p, d)
  BY <1>3, <1>4, Serving
<1> QED
  BY <1>4, <1>5 DEF c

\* RestoreNext: one of the entries that are left.
LEMMA RestoreNextServes ==
    ASSUME Typed, NEW p \in Procs, RestoreNext(p)
    PROVE  \E d, r : /\ Serves(p, d) /\ r \in proc[p].todo /\ d.pc = "linking" /\ d.stage = "blob" /\ d.ref = r
                     /\ d.todo = proc[p].todo \ {r}
<1> DEFINE c == proc[p]
           c1 == [c EXCEPT !.pc = "linking"]
           c2 == [c1 EXCEPT !.stage = "blob"]
           c3(r) == [c2 EXCEPT !.ref = r]
           d(r) == [c3(r) EXCEPT !.todo = c.todo \ {r}]
<1>1. c \in Served
  BY DEF Typed
<1>2. c.todo \subseteq Receipts
  BY <1>1 DEF Served
<1>3. c1 \in Served /\ c1.pc = "linking" /\ c1.todo = c.todo
  BY <1>1 DEF Served, Pcs
<1>4. PICK r \in c.todo : proc' = [proc EXCEPT ![p] = d(r)]
  BY DEF RestoreNext, Typed
<1>5. r \in Refs
  BY <1>2, Idle
<1> HIDE DEF c1, c
<1>6. c2 \in Served /\ c2.pc = "linking" /\ c2.todo = c.todo /\ c2.stage = "blob"
  BY <1>3 DEF Served
<1> HIDE DEF c2
<1>7. c3(r) \in Served /\ c3(r).pc = "linking" /\ c3(r).todo = c.todo /\ c3(r).stage = "blob" /\ c3(r).ref = r
  BY <1>5, <1>6 DEF Served
<1> HIDE DEF c3
<1>8. d(r) \in Served /\ d(r).pc = "linking" /\ d(r).todo = c.todo \ {r} /\ d(r).stage = "blob" /\ d(r).ref = r
  BY <1>7 DEF Served
<1> HIDE DEF d
<1>9. Serves(p, d(r))
  BY <1>4, <1>8, Serving
<1> QED
  BY <1>4, <1>8, <1>9 DEF c

\* Import begins with a file that is opened.
LEMMA ImportServes ==
    ASSUME Typed, NEW p \in Procs, Import(p)
    PROVE  \E d : /\ Serves(p, d) /\ d.pc = "opened" /\ d.stage = "blob" /\ d.ref.type \in Types
                  /\ d.stamp = edits /\ d.todo = {}
<1> DEFINE c == [NoCall EXCEPT !.op = "import"]
<1>1. c \in Served /\ c.todo = {} /\ c.stage = "blob"
  BY Idle DEF Served
<1>2. PICK t \in Types : Begin(p, Capture(c, t))
  BY DEF Import
<1> HIDE DEF c
<1> DEFINE a == Capture(c, t)
           d == [a EXCEPT !.version = RunVersion]
<1>3. a \in Served /\ a.pc = "opened" /\ a.ref.type = t /\ a.stamp = edits /\ a.todo = {} /\ a.stage = "blob"
  BY <1>1, CaptureFacts DEF Typed
<1> HIDE DEF a
<1>4. d.pc = a.pc /\ d.ref = a.ref /\ d.stamp = a.stamp /\ d.stage = a.stage /\ d.todo = a.todo
  BY <1>3, VersionTyped, SetVersion
<1>5. Serves(p, d)
  BY <1>2, <1>3, BeginServes DEF a
<1> QED
  BY <1>3, <1>4, <1>5

\* Submit begins with a file that is opened, with bytes, or with a receipt.
LEMMA SubmitServes ==
    ASSUME Typed, NEW p \in Procs, NEW k \in Keys, Submit(p, k)
    PROVE  \E d : /\ Serves(p, d) /\ d.todo = {}
                  /\ \/ d.pc = "opened" /\ d.stage = "blob" /\ d.ref.type \in Types /\ d.stamp = edits
                     \/ d.pc = "linking" /\ d.stage = "blob" /\ OneVersion(d.ref)
                     \/ d.pc = "checking" /\ d.ref \in known \cup {Foreign}
<1> DEFINE c1 == [NoCall EXCEPT !.op = "submit"]
           c == [c1 EXCEPT !.key = k]
<1>1. c1 \in Served /\ c1.todo = {} /\ c1.stage = "blob"
  BY Idle DEF Served
<1> HIDE DEF c1
<1>2. c \in Served /\ c.todo = {} /\ c.stage = "blob"
  BY <1>1 DEF Served
<1>3. \/ \E t \in Types : Begin(p, Capture(c, t))
      \/ \E t \in Types, v \in Versions :
            Begin(p, [c EXCEPT !.pc = "linking", !.ref = [bytes |-> <<v, v>>, type |-> t]])
      \/ \E r \in known \cup {Foreign} : Begin(p, [c EXCEPT !.pc = "checking", !.ref = r])
  BY Zenon DEF Submit, c1
<1> HIDE DEF c
<1> DEFINE Given(pc, r) == Begin(p, [c EXCEPT !.pc = pc, !.ref = r])
<1>4. CASE \E t \in Types : Begin(p, Capture(c, t))
  <2>1. PICK t \in Types : Begin(p, Capture(c, t))
    BY <1>4
  <2> DEFINE a == Capture(c, t)
             d == [a EXCEPT !.version = RunVersion]
  <2>2. a \in Served /\ a.pc = "opened" /\ a.ref.type = t /\ a.stamp = edits /\ a.todo = {} /\ a.stage = "blob"
    BY <1>2, CaptureFacts DEF Typed
  <2> HIDE DEF a
  <2>3. d.pc = a.pc /\ d.ref = a.ref /\ d.stamp = a.stamp /\ d.stage = a.stage /\ d.todo = a.todo
    BY <2>2, VersionTyped, SetVersion
  <2>4. Serves(p, d)
    BY <2>1, <2>2, BeginServes DEF a
  <2> QED
    BY <2>2, <2>3, <2>4
<1>a. ASSUME NEW pc \in Pcs, NEW r \in Refs, Given(pc, r)
      PROVE  \E d : Serves(p, d) /\ d.todo = {} /\ d.pc = pc /\ d.stage = "blob" /\ d.ref = r
  <2> DEFINE a1 == [c EXCEPT !.pc = pc]
             a == [a1 EXCEPT !.ref = r]
             d == [a EXCEPT !.version = RunVersion]
  <2>1. a1 \in Served /\ a1.pc = pc /\ a1.todo = {} /\ a1.stage = "blob"
    BY <1>2 DEF Served
  <2>2. Begin(p, a)
    BY <1>a
  <2> HIDE DEF a1
  <2>3. a \in Served /\ a.pc = pc /\ a.todo = {} /\ a.stage = "blob" /\ a.ref = r
    BY <2>1 DEF Served
  <2> HIDE DEF a
  <2>4. d.pc = a.pc /\ d.ref = a.ref /\ d.stage = a.stage /\ d.todo = a.todo
    BY <2>3, VersionTyped, SetVersion
  <2>5. Serves(p, d)
    BY <2>2, <2>3, BeginServes
  <2> QED
    BY <2>3, <2>4, <2>5
<1>5. CASE \E t \in Types, v \in Versions :
             Begin(p, [c EXCEPT !.pc = "linking", !.ref = [bytes |-> <<v, v>>, type |-> t]])
  <2>1. PICK t \in Types, v \in Versions : Begin(p, [c EXCEPT !.pc = "linking", !.ref = [bytes |-> <<v, v>>, type |-> t]])
    BY <1>5
  <2>2. OneVersion([bytes |-> <<v, v>>, type |-> t])
    BY DEF OneVersion, Receipts, Bytes
  <2>3. [bytes |-> <<v, v>>, type |-> t] \in Refs /\ "linking" \in Pcs
    BY <2>2, Idle DEF OneVersion, Pcs
  <2>4. PICK d : /\ Serves(p, d) /\ d.todo = {} /\ d.pc = "linking" /\ d.stage = "blob"
                 /\ d.ref = [bytes |-> <<v, v>>, type |-> t]
    BY <2>1, <2>3, <1>a
  <2> QED
    BY <2>2, <2>4
<1>6. CASE \E r \in known \cup {Foreign} : Begin(p, [c EXCEPT !.pc = "checking", !.ref = r])
  <2>1. PICK s \in known \cup {Foreign} : Given("checking", s)
    BY <1>6
  <2> HIDE DEF Given
  <2>2. s \in Refs /\ "checking" \in Pcs
    BY Idle DEF Typed, Pcs
  <2>3. \E d : Serves(p, d) /\ d.todo = {} /\ d.pc = "checking" /\ d.stage = "blob" /\ d.ref = s
    BY <2>1, <2>2, <1>a
  <2>4. PICK d : Serves(p, d) /\ d.todo = {} /\ d.pc = "checking" /\ d.ref = s
    BY <2>3
  <2> QED
    BY <2>4
<1> QED
  BY <1>3, <1>4, <1>5, <1>6

\* ExportEvents begins with the accepted submissions.
LEMMA ExportEventsServes ==
    ASSUME Typed, NEW p \in Procs, ExportEvents(p)
    PROVE  \E d : /\ Serves(p, d) /\ d.pc = "snapshot" /\ d.events = Settled("accepted") /\ d.version = RunVersion
                  /\ d.todo = {}
<1> DEFINE c1 == [NoCall EXCEPT !.op = "export"]
           c2 == [c1 EXCEPT !.pc = "snapshot"]
           c == [c2 EXCEPT !.events = Settled("accepted")]
           d == [c EXCEPT !.version = RunVersion]
<1>1. c1 \in Served /\ c1.todo = {}
  BY Idle DEF Served
<1>2. Begin(p, c)
  BY DEF ExportEvents
<1> HIDE DEF c1
<1>3. c2 \in Served /\ c2.pc = "snapshot" /\ c2.todo = {}
  BY <1>1 DEF Served, Pcs
<1>4. Settled("accepted") \subseteq Nat
  BY VersionTyped DEF Settled
<1> HIDE DEF c2
<1>5. c \in Served /\ c.pc = "snapshot" /\ c.todo = {} /\ c.events = Settled("accepted")
  BY <1>3, <1>4 DEF Served
<1> HIDE DEF c
<1>6. d.pc = c.pc /\ d.events = c.events /\ d.version = RunVersion /\ d.todo = c.todo
  BY <1>5, VersionTyped, SetVersion
<1>7. Serves(p, d)
  BY <1>2, <1>5, BeginServes
<1> QED
  BY <1>5, <1>6, <1>7

\* Restore begins with the entries of the last export.
LEMMA RestoreServes ==
    ASSUME Typed, NEW p \in Procs, Restore(p)
    PROVE  \E d : Serves(p, d) /\ d.pc = "restoring" /\ d.todo = bundle.refs
<1> DEFINE c1 == [NoCall EXCEPT !.op = "restore"]
           c2 == [c1 EXCEPT !.pc = "restoring"]
           c == [c2 EXCEPT !.todo = bundle.refs]
           d == [c EXCEPT !.version = RunVersion]
<1>1. c1 \in Served
  BY Idle DEF Served
<1>2. Begin(p, c)
  BY DEF Restore
<1> HIDE DEF c1
<1>3. c2 \in Served /\ c2.pc = "restoring"
  BY <1>1 DEF Served, Pcs
<1>4. bundle.refs \subseteq Receipts
  BY DEF Typed
<1> HIDE DEF c2
<1>5. c \in Served /\ c.pc = "restoring" /\ c.todo = bundle.refs
  BY <1>3, <1>4 DEF Served
<1> HIDE DEF c
<1>6. d.pc = c.pc /\ d.todo = c.todo
  BY <1>5, VersionTyped, SetVersion
<1>7. Serves(p, d)
  BY <1>2, <1>5, BeginServes
<1> QED
  BY <1>5, <1>6, <1>7

\* What no step takes back, except that a loss of power takes every call with it.
Grows ==
    /\ \A n \in Names : Kept(n) => Kept(n)'
    /\ DOMAIN dir \cup damaged \subseteq (DOMAIN dir \cup damaged)'
    /\ edits <= edits' /\ (edits' = edits => source' = source)
    /\ \A i \in DOMAIN log :
        /\ i \in DOMAIN log' /\ log'[i].key = log[i].key /\ log'[i].ref = log[i].ref
        /\ log[i].fate = "accepted" => log'[i].fate = "accepted"
    /\ RunVersion <= RunVersion' /\ (RunVersion' = RunVersion => log' = log)

\* The version is a number in the next state as well.
LEMMA VersionNext ==
    Typed' => (RunVersion \in Int)'
<1>1. Typed => RunVersion \in Int
  BY VersionTyped
<1> QED
  BY <1>1, PTL

\* A registration lasts as long as the files are kept.
LEMMA RegisteredStays ==
    ASSUME \A n \in Names : Kept(n) => Kept(n)', NEW r, Registered(r)
    PROVE  Registered(r)'
BY NamesOf DEF Registered, OneVersion

\* A call is not disturbed by the steps of the others.
LEMMA Bystander ==
    ASSUME Typed, Typed', Grows, NEW q \in Procs, Of(q), proc'[q] = proc[q],
           Owning(q) => log'[proc[q].at].fate = log[proc[q].at].fate
    PROVE  Of(q)'
<1> DEFINE c == proc[q]
<1>1. c \in Served /\ c.todo \subseteq Receipts /\ c.stamp \in Nat /\ c.version \in Int /\ edits \in Nat /\ edits' \in Nat
  BY DEF Typed, Served
<1>2. RunVersion \in Int /\ RunVersion' \in Int
  BY VersionTyped, VersionNext
<1>3. RegisteringOf(q)'
  <2>1. Stable(q)' => edits' = edits \/ ~(proc[q].stamp <= edits)
    BY <1>1 DEF Stable, Grows
  <2>2. c.pc \in {"opened", "reading"} => c.stamp <= edits'
    BY <1>1 DEF Of, RegisteringOf, Grows
  <2>3. c.pc = "reading" => (Stable(q)' => c.ref.bytes = <<source', source'>>)
    <3>1. c.pc = "reading" /\ Stable(q)' => Stable(q) /\ source' = source
      BY <1>1 DEF Of, RegisteringOf, Grows, Stable
    <3> QED
      BY <3>1 DEF Of, RegisteringOf
  <2>4. (c.pc \in {"linking", "syncing"} /\ c.stage = "receipt") => Kept(BlobOf(c.ref))'
    BY NamesOf DEF Of, RegisteringOf, Grows, OneVersion
  <2>5. c.pc = "syncing" => File(q)' \in (DOMAIN dir \cup damaged)'
    BY DEF Of, RegisteringOf, Grows, File
  <2>6. c.pc = "verifying" => Registered(c.ref)'
    BY RegisteredStays DEF Of, RegisteringOf, Grows
  <2> QED
    BY <2>2, <2>3, <2>4, <2>5, <2>6 DEF Of, RegisteringOf
<1>4. SubmittingOf(q)'
  BY RegisteredStays DEF Of, SubmittingOf, Grows, Owning
<1>5. ExportingOf(q)'
  <2>1. Settled("accepted") \subseteq Settled("accepted")'
    BY DEF Settled, Grows
  <2>2. ~Stale(q)' /\ c.version <= RunVersion => ~Stale(q) /\ log' = log
    BY <1>1, <1>2 DEF Stale, Grows
  <2>3. log' = log => Settled("accepted")' = Settled("accepted")
    BY DEF Settled
  <2> QED
    BY <1>1, <1>2, <2>1, <2>2, <2>3 DEF Of, ExportingOf, Grows
<1> QED
  BY <1>3, <1>4, <1>5 DEF Of

\* A step of one process: what is left to show is what it does to the shared state and
\* to its own call.
LEMMA StepOf ==
    ASSUME IInv, Typed', Stored', Recorded', Bundled', Grows,
           NEW p \in Procs, NEW d, Serves(p, d), Of(p)',
           \A q \in Procs \ {p} : Owning(q) =>
                /\ log'[proc[q].at].fate = log[proc[q].at].fate
                /\ Owning(p)' => proc'[p].at # proc[q].at
    PROVE  IInv'
<1>1. ASSUME NEW q \in Procs PROVE Of(q)'
  <2>1. CASE q = p
    BY <2>1
  <2>2. CASE q # p
    <3>1. proc'[q] = proc[q]
      BY <2>2 DEF Serves
    <3> QED
      BY <2>2, <3>1, Bystander DEF IInv
  <2> QED
    BY <2>1, <2>2
<1>2. OwnedOnce'
  <2> SUFFICES ASSUME NEW q \in Procs, NEW s \in Procs, Owning(q)', Owning(s)', proc'[q].at = proc'[s].at, q # s
               PROVE  FALSE
    BY DEF OwnedOnce
  <2>1. \A z \in Procs : z # p => proc'[z] = proc[z] /\ (Owning(z)' <=> Owning(z))
    BY DEF Serves, Owning
  <2> QED
    BY <2>1 DEF IInv, OwnedOnce
<1> QED
  BY <1>1, <1>2 DEF IInv

\* The call of a process at rest.
LEMMA Resting ==
    ASSUME NEW p \in Procs, proc'[p] = NoCall
    PROVE  Of(p)' /\ ~Owning(p)'
BY Idle DEF Of, RegisteringOf, SubmittingOf, ExportingOf, Owning

\* Steps that only the process itself sees.
Still == UNCHANGED <<source, dir, durable, damaged, log, snapshot, known, answers, bundle, edits>>

\* Such a step leaves everything shared as it was.
LEMMA StillKeeps ==
    ASSUME IInv, Still, proc' \in [Procs -> Served]
    PROVE  Typed' /\ Stored' /\ Recorded' /\ Bundled' /\ Grows /\ RunVersion' = RunVersion /\ \A n : Kept(n)' <=> Kept(n)
<1>1. RunVersion' = RunVersion /\ RunVersion \in Int
  BY VersionTyped DEF IInv, RunVersion, Settled, Still
<1>2. Typed' /\ Stored'
  BY DEF IInv, Still, Typed, Stored, Kept, Reads
<1>3. \A n : Kept(n)' <=> Kept(n)
  BY DEF Still, Kept, Reads
<1>4. Recorded'
  BY DEF IInv, Still, Recorded, Settled, Registered, Kept, Reads, AnswersAgree, Emitted
<1>5. Bundled'
  BY DEF IInv, Still, Bundled, ExportIsConsistent, Settled
<1>6. Grows
  BY <1>1, <1>3 DEF Grows, Still, IInv, Typed
<1> QED
  BY <1>1, <1>2, <1>3, <1>4, <1>5, <1>6

\* Such a step is right if what it does to its own call is.
LEMMA StillStep ==
    ASSUME IInv, Still, NEW p \in Procs, NEW d, Serves(p, d), Of(p)',
           Owning(p)' => Owning(p) /\ proc'[p].at = proc[p].at
    PROVE  IInv'
<1>1. proc' \in [Procs -> Served]
  BY DEF Serves
<1>2. \A q \in Procs \ {p} : Owning(q) =>
                /\ log'[proc[q].at].fate = log[proc[q].at].fate
                /\ Owning(p)' => proc'[p].at # proc[q].at
  BY DEF IInv, OwnedOnce, Still
<1> QED
  BY <1>1, <1>2, StillKeeps, StepOf

\* A call that ends without a trace.
LEMMA EndStep ==
    ASSUME IInv, Still, NEW p \in Procs, End(p)
    PROVE  IInv'
<1>1. Serves(p, NoCall)
  BY EndServes DEF IInv
<1>2. proc'[p] = NoCall
  BY <1>1 DEF Serves
<1> QED
  BY <1>1, <1>2, Resting, StillStep

\* A call that has only been given.
LEMMA StartStep ==
    ASSUME IInv, Still, NEW p \in Procs, NEW d, Serves(p, d), \A r \in d.todo : OneVersion(r),
           \/ d.pc = "opened" /\ d.stage = "blob" /\ d.ref.type \in Types /\ d.stamp = edits
           \/ d.pc = "linking" /\ d.stage = "blob" /\ OneVersion(d.ref)
           \/ d.pc = "checking" /\ (d.ref = Foreign \/ Registered(d.ref))
           \/ d.pc = "restoring"
           \/ d.pc = "snapshot" /\ d.events = Settled("accepted") /\ d.version = RunVersion
    PROVE  IInv'
<1>1. proc'[p] = d /\ edits' = edits /\ edits \in Nat /\ RunVersion' = RunVersion /\ RunVersion \in Int
  BY StillKeeps, VersionTyped DEF Serves, Still, IInv, Typed
<1>2. Settled("accepted")' = Settled("accepted")
  BY DEF Settled, Still
<1>3. Registered(d.ref)' <=> Registered(d.ref)
  BY DEF Still, Registered, Kept, Reads
<1>4. ~Owning(p)' /\ SubmittingOf(p)'
  BY <1>1, <1>3 DEF Owning, SubmittingOf
<1>5. RegisteringOf(p)'
  BY <1>1 DEF RegisteringOf
<1>6. ExportingOf(p)'
  BY <1>1, <1>2 DEF ExportingOf, Stale
<1> QED
  BY <1>4, <1>5, <1>6, StillStep DEF Of

\* The steps of a call that only the process itself sees.
LEMMA OwnSteps ==
    ASSUME IInv, NEW p \in Procs
    PROVE  ReadFirst(p) \/ ReadRest(p) \/ Check(p) \/ Resolve(p) \/ ExportSnapshot(p) \/ RestoreNext(p) => IInv'
<1> DEFINE c == proc[p]
<1>a. c \in Served /\ Typed /\ Stored /\ Recorded /\ Of(p) /\ source \in Versions /\ edits \in Nat
  BY DEF IInv, Typed
<1>1. ASSUME ReadFirst(p) PROVE IInv'
  <2>1. PICK d : /\ Serves(p, d) /\ d.pc = "reading" /\ d.ref.bytes = <<source, source>> /\ d.ref.type = c.ref.type
                 /\ d.stamp = c.stamp /\ d.stage = c.stage /\ d.todo = c.todo
    BY <1>1, <1>a, ReadFirstServes
  <2>2. Still /\ c.pc = "opened"
    BY <1>1 DEF ReadFirst, Still, files, ledger, outside, bounds
  <2>3. proc'[p] = d
    BY <2>1 DEF Serves
  <2>4. RegisteringOf(p)'
    BY <1>a, <2>1, <2>2, <2>3 DEF Of, RegisteringOf, Still
  <2>5. SubmittingOf(p)' /\ ExportingOf(p)' /\ ~Owning(p)'
    BY <2>1, <2>3 DEF SubmittingOf, ExportingOf, Owning
  <2> QED
    BY <2>1, <2>2, <2>4, <2>5, StillStep DEF Of
<1>2. ASSUME ReadRest(p) PROVE IInv'
  <2>1. PICK d : /\ Serves(p, d) /\ d.pc = "linking" /\ d.ref.bytes = <<c.ref.bytes[1], source>> /\ d.ref.type = c.ref.type
                 /\ d.stage = c.stage /\ d.todo = c.todo
    BY <1>2, <1>a, ReadRestServes
  <2>2. Still /\ c.pc = "reading" /\ Stable(p)
    BY <1>2 DEF ReadRest, Still, files, ledger, outside, bounds
  <2>3. proc'[p] = d /\ d \in Served
    BY <2>1 DEF Serves
  <2>4. d.ref.bytes = <<source, source>> /\ d.ref.type \in Types
    BY <1>a, <2>1, <2>2 DEF Of, RegisteringOf
  <2>5. OneVersion(d.ref)
    <3>1. d.ref \in Refs
      BY <2>3 DEF Served
    <3> QED
      BY <1>a, <2>4, <3>1 DEF OneVersion, Receipts, Refs, Bytes
  <2>6. c.stage = "blob"
    BY <1>a, <2>2 DEF Of, RegisteringOf
  <2>7. RegisteringOf(p)'
    BY <1>a, <2>1, <2>3, <2>5, <2>6 DEF Of, RegisteringOf
  <2>8. SubmittingOf(p)' /\ ExportingOf(p)' /\ ~Owning(p)'
    BY <2>1, <2>3 DEF SubmittingOf, ExportingOf, Owning
  <2> QED
    BY <2>1, <2>2, <2>7, <2>8, StillStep DEF Of
<1>3. ASSUME Check(p) PROVE IInv'
  <2> DEFINE d == [c EXCEPT !.pc = "appending"]
  <2>1. Serves(p, d) /\ d.pc = "appending" /\ d.ref = c.ref /\ d.todo = c.todo
    BY ZenonT(30), <1>3, <1>a, SetPc, GotoServes DEF Check, Pcs
  <2>2. Still /\ c.pc = "checking"
    BY <1>3 DEF Check, Still, files, ledger, outside, bounds
  <2> HIDE DEF d
  <2>3. proc'[p] = d
    BY <2>1 DEF Serves
  <2>4. (\A n : Kept(n)' <=> Kept(n)) /\ ~Owning(p)'
    BY <2>1, <2>2, <2>3, StillKeeps DEF Serves, Owning
  <2>5. Of(p)'
    BY <1>a, <2>1, <2>2, <2>3, <2>4 DEF Of, RegisteringOf, SubmittingOf, ExportingOf, Registered, Owning
  <2> QED
    BY <2>1, <2>2, <2>4, <2>5, StillStep
<1>4. ASSUME Resolve(p) PROVE IInv'
  <2> DEFINE d == [c EXCEPT !.pc = "guarding"]
  <2>1. Serves(p, d) /\ d.pc = "guarding" /\ d.ref = c.ref /\ d.todo = c.todo /\ d.at = c.at /\ d.key = c.key
    BY ZenonT(30), <1>4, <1>a, SetPc, GotoServes DEF Resolve, Pcs
  <2>2. Still /\ c.pc = "resolving" /\ Readable(c.ref)
    BY <1>4 DEF Resolve, Still, files, ledger, outside, bounds
  <2> HIDE DEF d
  <2>3. proc'[p] = d
    BY <2>1 DEF Serves
  <2>4. (\A n : Kept(n)' <=> Kept(n)) /\ Owning(p)' /\ Owning(p)
    BY <2>1, <2>2, <2>3, StillKeeps DEF Serves, Owning
  <2>5. Registered(c.ref)
    <3>1. ~Readable(Foreign)
      <4>1. ReceiptOf(Foreign) \notin Names
        BY Idle, ConstantsAssumption DEF Names, BlobOf, ReceiptOf, Foreign, Receipts
      <4> QED
        BY <1>a, <4>1 DEF Typed, Readable, Reads
    <3> QED
      BY <1>a, <2>2, <3>1 DEF Of, SubmittingOf
  <2>6. Of(p)'
    BY <1>a, <2>1, <2>2, <2>3, <2>4, <2>5 DEF Of, RegisteringOf, SubmittingOf, ExportingOf, Registered, Owning, Still
  <2> QED
    BY <2>1, <2>2, <2>3, <2>4, <2>6, StillStep
<1>5. ASSUME ExportSnapshot(p) PROVE IInv'
  <2>1. PICK d : /\ Serves(p, d) /\ d.pc = "bundling" /\ d.snapshot = snapshot /\ d.events = c.events
                 /\ d.version = c.version /\ d.todo = c.todo
    BY <1>5, <1>a, ExportSnapshotServes
  <2>2. Still /\ c.pc = "snapshot"
    BY <1>5 DEF ExportSnapshot, Still, files, ledger, outside, bounds
  <2>3. proc'[p] = d
    BY <2>1 DEF Serves
  <2>4. RegisteringOf(p)' /\ SubmittingOf(p)' /\ ~Owning(p)'
    BY <1>a, <2>1, <2>3 DEF Of, RegisteringOf, SubmittingOf, Owning
  <2>5. RunVersion' = RunVersion /\ Settled("accepted")' = Settled("accepted")
    BY <2>1, <2>2, StillKeeps DEF Serves, Settled, Still
  <2>6. ExportingOf(p)'
    BY <1>a, <2>1, <2>2, <2>3, <2>5 DEF Of, ExportingOf, Recorded, Stale
  <2> QED
    BY <2>1, <2>2, <2>4, <2>6, StillStep DEF Of
<1>6. ASSUME RestoreNext(p) PROVE IInv'
  <2>1. PICK d, r : /\ Serves(p, d) /\ r \in c.todo /\ d.pc = "linking" /\ d.stage = "blob" /\ d.ref = r
                    /\ d.todo = c.todo \ {r}
    BY <1>6, <1>a, RestoreNextServes
  <2>2. Still
    BY <1>6 DEF RestoreNext, Still, files, ledger, outside, bounds
  <2>3. (\A s \in d.todo : OneVersion(s)) /\ OneVersion(d.ref)
    BY <1>a, <2>1 DEF Of, RegisteringOf
  <2> QED
    BY <2>1, <2>2, <2>3, StartStep
<1> QED
  BY <1>1, <1>2, <1>3, <1>4, <1>5, <1>6

\* The steps that begin a call.
LEMMA BeginSteps ==
    ASSUME IInv, NEW p \in Procs
    PROVE  Import(p) \/ (\E k \in Keys : Submit(p, k)) \/ ExportEvents(p) \/ Restore(p) => IInv'
<1>a. Typed /\ Recorded /\ Bundled
  BY DEF IInv
<1>1. ASSUME Import(p) PROVE IInv'
  <2>1. Still
    BY <1>1 DEF Import, Begin, Still, files, ledger, outside
  <2>2. PICK d : /\ Serves(p, d) /\ d.pc = "opened" /\ d.stage = "blob" /\ d.ref.type \in Types
                 /\ d.stamp = edits /\ d.todo = {}
    BY <1>1, <1>a, ImportServes
  <2> QED
    BY <2>1, <2>2, StartStep
<1>2. ASSUME NEW k \in Keys, Submit(p, k) PROVE IInv'
  <2>1. Still
    BY <1>2 DEF Submit, Begin, Still, files, ledger, outside
  <2>2. PICK d : /\ Serves(p, d) /\ d.todo = {}
                 /\ \/ d.pc = "opened" /\ d.stage = "blob" /\ d.ref.type \in Types /\ d.stamp = edits
                    \/ d.pc = "linking" /\ d.stage = "blob" /\ OneVersion(d.ref)
                    \/ d.pc = "checking" /\ d.ref \in known \cup {Foreign}
    BY <1>2, <1>a, SubmitServes
  <2>3. \A r \in known : Registered(r)
    BY <1>a DEF Recorded
  <2> QED
    BY <2>1, <2>2, <2>3, StartStep
<1>3. ASSUME ExportEvents(p) PROVE IInv'
  <2>1. Still
    BY <1>3 DEF ExportEvents, Begin, Still, files, ledger, outside
  <2>2. PICK d : /\ Serves(p, d) /\ d.pc = "snapshot" /\ d.events = Settled("accepted") /\ d.version = RunVersion
                 /\ d.todo = {}
    BY <1>3, <1>a, ExportEventsServes
  <2> QED
    BY <2>1, <2>2, StartStep
<1>4. ASSUME Restore(p) PROVE IInv'
  <2>1. Still
    BY <1>4 DEF Restore, Begin, Still, files, ledger, outside
  <2>2. PICK d : Serves(p, d) /\ d.pc = "restoring" /\ d.todo = bundle.refs
    BY <1>4, <1>a, RestoreServes
  <2>3. \A r \in d.todo : OneVersion(r)
    BY <1>a, <2>2 DEF Bundled
  <2> QED
    BY <2>1, <2>2, <2>3, StartStep
<1> QED
  BY <1>1, <1>2, <1>3, <1>4

\* The steps that end a call and leave the rest as it was.
LEMMA ThrowSteps ==
    ASSUME IInv, NEW p \in Procs
    PROVE  SourceChanged(p) \/ Mismatch(p) \/ VerifyFails(p) \/ Conflict(p) \/ BundleFails(p) \/ Restored(p) \/ Abandon(p)
           => IInv'
<1>1. ASSUME SourceChanged(p) \/ Mismatch(p) \/ VerifyFails(p) \/ Conflict(p) \/ BundleFails(p) \/ Restored(p) \/ Abandon(p)
      PROVE  End(p) /\ Still
  BY <1>1 DEF SourceChanged, Mismatch, VerifyFails, Conflict, BundleFails, Restored, Abandon, Throw, Fault, Still,
              files, ledger, outside, bounds
<1> QED
  BY <1>1, EndStep

\* A step that changes files only keeps what was recorded, if it keeps the files.
LEMMA FilesChange ==
    ASSUME IInv, Typed', Stored', UNCHANGED <<source, log, snapshot, known, answers, bundle, edits>>,
           \A n \in Names : Kept(n) => Kept(n)',
           DOMAIN dir \cup damaged \subseteq (DOMAIN dir \cup damaged)'
    PROVE  Recorded' /\ Bundled' /\ Grows /\ RunVersion' = RunVersion /\ Settled("accepted")' = Settled("accepted")
<1>1. Settled("accepted")' = Settled("accepted") /\ RunVersion' = RunVersion /\ RunVersion \in Int
  BY VersionTyped DEF IInv, RunVersion, Settled
<1>2. \A r : Registered(r) => Registered(r)'
  BY RegisteredStays
<1>3. Recorded'
  BY <1>1, <1>2 DEF IInv, Recorded, AnswersAgree, Emitted
<1>4. Bundled'
  BY DEF IInv, Bundled, ExportIsConsistent, Settled
<1>5. Grows
  BY <1>1 DEF Grows, IInv, Typed
<1> QED
  BY <1>1, <1>3, <1>4, <1>5

\* The file that is linked is named after the bytes of one version.
LEMMA FileNamed ==
    ASSUME NEW p \in Procs, OneVersion(proc[p].ref)
    PROVE  File(p) \in Names /\ File(p).bytes[1] = File(p).bytes[2]
BY NamesOf DEF File, OneVersion

\* Link: the name is in the directory; a receipt has its bytes beside it, synced.
LEMMA LinkStep ==
    ASSUME IInv, NEW p \in Procs, Link(p)
    PROVE  IInv'
<1> DEFINE c == proc[p]
<1>a. c \in Served /\ Typed /\ Stored /\ Of(p) /\ dir \in [DOMAIN dir -> {"whole", "wrong"}]
  BY DEF IInv, Typed
<1>b. /\ c.pc = "linking" /\ dir' = Linked(p) /\ UNCHANGED <<durable, damaged>>
      /\ UNCHANGED <<source, log, snapshot, known, answers, bundle, edits>>
  BY DEF Link, ledger, outside, bounds
<1>1. PICK d : Serves(p, d) /\ d.pc = "syncing" /\ d.ref = c.ref /\ d.todo = c.todo /\ d.stage = c.stage
  <2>1. Goto(p, "syncing") /\ "syncing" \in Pcs
    BY DEF Link, Pcs
  <2> DEFINE e == [c EXCEPT !.pc = "syncing"]
  <2>2. Serves(p, e) /\ e.pc = "syncing" /\ e.ref = c.ref /\ e.todo = c.todo /\ e.stage = c.stage
    BY <1>a, <2>1, SetPc, GotoServes
  <2> QED
    BY <2>2
<1>2. proc'[p] = d /\ proc' \in [Procs -> Served] /\ \A q \in Procs : q # p => proc'[q] = proc[q]
  BY <1>1 DEF Serves
<1>3. OneVersion(c.ref) /\ File(p) \in Names /\ File(p).bytes[1] = File(p).bytes[2]
  BY <1>a, <1>b, FileNamed DEF Of, RegisteringOf
<1>4. /\ DOMAIN dir' = DOMAIN dir \cup {File(p)}
      /\ \A n \in DOMAIN dir : dir'[n] = dir[n]
      /\ \A n \in DOMAIN dir' \ DOMAIN dir : dir'[n] = "whole"
      /\ dir' \in [DOMAIN dir' -> {"whole", "wrong"}]
  BY <1>a, <1>b DEF Linked
<1>5. Typed'
  BY <1>2, <1>3, <1>4, <1>b, <1>a DEF Typed
<1>6. \A n : Kept(n) => Kept(n)'
  BY <1>4, <1>b DEF Kept, Reads
<1>7. Stored'
  <2>1. \A r \in Receipts : ReceiptOf(r) = File(p) => Kept(BlobOf(r))
    <3> SUFFICES ASSUME NEW r \in Receipts, ReceiptOf(r) = File(p) PROVE Kept(BlobOf(r))
      OBVIOUS
    <3>1. c.ref \in Receipts
      BY <1>3 DEF OneVersion
    <3>2. c.stage # "blob" /\ r = c.ref
      BY <3>1, NamesOf DEF File
    <3>3. c.stage = "receipt"
      BY <3>2, <1>a DEF Served
    <3> QED
      BY <1>a, <1>b, <3>2, <3>3 DEF Of, RegisteringOf
  <2>2. \A n \in DOMAIN dir' : dir'[n] = "wrong" => n \in damaged'
    BY <1>a, <1>b, <1>4 DEF Stored
  <2>3. \A n \in DOMAIN dir' : n.bytes[1] = n.bytes[2]
    BY <1>a, <1>3, <1>4 DEF Stored
  <2>4. \A r \in Receipts : ReceiptOf(r) \in DOMAIN dir' => Kept(BlobOf(r))'
    BY <1>a, <1>4, <1>6, <2>1 DEF Stored
  <2> QED
    BY <2>2, <2>3, <2>4 DEF Stored
<1>8. Recorded' /\ Bundled' /\ Grows
  BY <1>5, <1>6, <1>7, <1>b, <1>4, FilesChange
<1>9. Of(p)' /\ ~Owning(p)'
  <2>1. File(p)' = File(p)
    BY <1>1, <1>2 DEF File
  <2>2. d.stage = "receipt" => Kept(BlobOf(d.ref))'
    BY <1>a, <1>b, <1>1, <1>6 DEF Of, RegisteringOf
  <2>3. RegisteringOf(p)'
    BY <1>a, <1>1, <1>2, <1>3, <1>4, <2>1, <2>2 DEF Of, RegisteringOf
  <2> QED
    BY <2>3, <1>1, <1>2 DEF Of, SubmittingOf, ExportingOf, Owning
<1> QED
  BY <1>1, <1>5, <1>7, <1>8, <1>9, <1>b, StepOf

\* Sync: all names of the directory last, the one just linked among them.
LEMMA SyncStep ==
    ASSUME IInv, NEW p \in Procs, Sync(p)
    PROVE  IInv'
<1> DEFINE c == proc[p]
<1>a. c \in Served /\ Typed /\ Stored /\ Of(p) /\ dir \in [DOMAIN dir -> {"whole", "wrong"}]
  BY DEF IInv, Typed
<1>b. /\ c.pc = "syncing" /\ durable' = DOMAIN dir /\ damaged' = {n \in damaged : ~Reads(n)} /\ dir' = dir
      /\ UNCHANGED <<source, log, snapshot, known, answers, bundle, edits>>
  BY DEF Sync, ledger, outside, bounds
<1>1. PICK d : /\ Serves(p, d) /\ d.pc = (IF c.stage = "blob" THEN "linking" ELSE "verifying")
               /\ d.stage = "receipt" /\ d.ref = c.ref /\ d.todo = c.todo
  BY <1>a, SyncServes
<1>2. proc'[p] = d /\ proc' \in [Procs -> Served]
  BY <1>1 DEF Serves
<1>3. Typed'
  BY <1>2, <1>a, <1>b DEF Typed
<1>4. \A n \in DOMAIN dir \cup damaged : Kept(n)'
  BY <1>a, <1>b DEF Kept, Reads, Stored
<1>5. \A n : Kept(n) => Kept(n)'
  BY <1>4, <1>a DEF Kept, Typed
<1>6. Stored'
  <2>1. \A n \in DOMAIN dir : dir[n] = "wrong" => n \in damaged'
    BY <1>a, <1>b DEF Stored, Reads
  <2> QED
    BY <2>1, <1>a, <1>b, <1>5 DEF Stored
<1>7. DOMAIN dir \cup damaged \subseteq (DOMAIN dir \cup damaged)'
  BY <1>b DEF Reads
<1>8. Recorded' /\ Bundled' /\ Grows
  BY <1>3, <1>5, <1>6, <1>7, <1>b, FilesChange
<1>9. Of(p)' /\ ~Owning(p)'
  <2> PICK f : f = File(p)
    OBVIOUS
  <2>1. OneVersion(d.ref) /\ Kept(f)' /\ (c.stage = "receipt" => Kept(BlobOf(d.ref))')
    BY <1>a, <1>b, <1>1, <1>4, <1>5 DEF Of, RegisteringOf
  <2>2. c.stage \in {"blob", "receipt"}
    BY <1>a DEF Served
  <2>3. CASE c.stage = "blob"
    <3>1. Kept(BlobOf(d.ref))'
      BY <1>1, <2>1, <2>3 DEF File
    <3>2. RegisteringOf(p)'
      BY <1>a, <1>1, <1>2, <2>1, <2>3, <3>1 DEF Of, RegisteringOf
    <3> QED
      BY <3>2, <1>1, <1>2, <2>3 DEF Of, SubmittingOf, ExportingOf, Owning
  <2>4. CASE c.stage = "receipt"
    <3>1. Registered(d.ref)'
      BY <1>1, <2>1, <2>4 DEF File, Registered
    <3>2. RegisteringOf(p)'
      BY <1>a, <1>1, <1>2, <2>1, <2>4, <3>1 DEF Of, RegisteringOf
    <3> QED
      BY <3>2, <1>1, <1>2, <2>4 DEF Of, SubmittingOf, ExportingOf, Owning
  <2> QED
    BY <2>2, <2>3, <2>4
<1> QED
  BY <1>1, <1>3, <1>6, <1>8, <1>9, <1>b, StepOf

\* Damage: what is damaged is known to be.
LEMMA DamageStep ==
    ASSUME IInv, NEW n \in DOMAIN dir, Damage(n)
    PROVE  IInv'
<1>a. Typed /\ Stored /\ n \in Names /\ dir \in [DOMAIN dir -> {"whole", "wrong"}]
  BY DEF IInv, Typed
<1>b. /\ damaged' = damaged \cup {n} /\ proc' = proc
      /\ UNCHANGED <<source, log, snapshot, known, answers, bundle, edits>>
  BY DEF Damage, ledger, outside
<1>1. /\ DOMAIN dir' \subseteq DOMAIN dir /\ DOMAIN dir \subseteq DOMAIN dir' \cup {n}
      /\ \A f \in DOMAIN dir' \ {n} : dir'[f] = dir[f]
      /\ dir' \in [DOMAIN dir' -> {"whole", "wrong"}]
      /\ durable' \subseteq DOMAIN dir' /\ durable \subseteq durable' \cup {n}
  BY <1>a DEF Damage, Typed
<1>2. Typed'
  BY <1>a, <1>b, <1>1 DEF Typed
<1>3. \A f : Kept(f) => Kept(f)'
  BY <1>b, <1>1, <1>a DEF Kept, Reads, Typed
<1>4. Stored'
  BY <1>a, <1>b, <1>1, <1>3 DEF Stored
<1>5. DOMAIN dir \cup damaged \subseteq (DOMAIN dir \cup damaged)'
  BY <1>b, <1>1
<1>6. Recorded' /\ Bundled' /\ Grows
  BY <1>2, <1>3, <1>4, <1>5, <1>b, FilesChange
<1>7. \A q \in Procs : Of(q)'
  BY <1>a, <1>b, <1>2, <1>6, Bystander DEF IInv
<1>8. OwnedOnce'
  BY <1>b DEF IInv, OwnedOnce, Owning
<1> QED
  BY <1>2, <1>4, <1>6, <1>7, <1>8 DEF IInv

\* PowerLoss: every call ends; synced names stay.
LEMMA PowerLossStep ==
    ASSUME IInv, PowerLoss
    PROVE  IInv'
<1>a. Typed /\ Stored /\ Recorded /\ Bundled /\ dir \in [DOMAIN dir -> {"whole", "wrong"}]
  BY DEF IInv, Typed
<1>b. /\ UNCHANGED <<durable, damaged>> /\ proc' = [p \in Procs |-> NoCall]
      /\ UNCHANGED <<source, log, snapshot, known, answers, bundle, edits>>
  BY DEF PowerLoss, ledger, outside
<1>1. PICK lost \in SUBSET (DOMAIN dir \ durable) : dir' = [n \in DOMAIN dir \ lost |-> dir[n]]
  BY DEF PowerLoss
<1>2. DOMAIN dir' = DOMAIN dir \ lost /\ \A n \in DOMAIN dir' : dir'[n] = dir[n]
  BY <1>1
<1>3. durable \subseteq DOMAIN dir' /\ DOMAIN dir' \subseteq DOMAIN dir
  BY <1>a, <1>2 DEF Typed
<1>4. Typed'
  <2>1. dir' \in [DOMAIN dir' -> {"whole", "wrong"}]
    BY <1>a, <1>1, <1>2
  <2>2. proc' \in [Procs -> Served]
    BY <1>b, Idle
  <2> QED
    BY <1>a, <1>b, <1>3, <2>1, <2>2 DEF Typed
<1>5. \A n : Kept(n) => Kept(n)'
  BY <1>b, <1>2, <1>3 DEF Kept, Reads
<1>6. Stored'
  BY <1>a, <1>b, <1>2, <1>3, <1>5 DEF Stored
<1>7. Recorded' /\ Bundled'
  <2>1. \A r : Registered(r) => Registered(r)'
    BY <1>5, RegisteredStays
  <2>2. Recorded'
    BY <1>a, <1>b, <2>1 DEF Recorded, Settled, AnswersAgree, Emitted
  <2> QED
    BY <1>a, <1>b, <2>2 DEF Bundled, ExportIsConsistent, Settled
<1>8. \A p \in Procs : Of(p)' /\ ~Owning(p)'
  BY <1>b, Resting
<1>9. OwnedOnce'
  BY <1>8 DEF OwnedOnce
<1> QED
  BY <1>4, <1>6, <1>7, <1>8, <1>9 DEF IInv

\* Edit: a call that reads the file can tell.
LEMMA EditStep ==
    ASSUME IInv, NEW v \in Versions, Edit(v)
    PROVE  IInv'
<1>b. UNCHANGED <<dir, durable, damaged, log, snapshot, proc, known, answers, bundle>> /\ source' = v /\ edits' = edits + 1
  BY DEF Edit, files, ledger
<1>a. Typed /\ edits \in Nat /\ RunVersion \in Int
  BY VersionTyped DEF IInv, Typed
<1>1. Typed' /\ Stored'
  BY <1>a, <1>b DEF IInv, Typed, Stored, Kept, Reads
<1>2. RunVersion' = RunVersion /\ \A n : Kept(n)' <=> Kept(n)
  BY <1>b DEF RunVersion, Settled, Kept, Reads
<1>3. Recorded' /\ Bundled' /\ OwnedOnce'
  BY <1>b DEF IInv, Recorded, Settled, Registered, Kept, Reads, AnswersAgree, Emitted, Bundled, ExportIsConsistent,
              OwnedOnce, Owning
<1>4. Grows
  BY <1>a, <1>b, <1>2 DEF Grows
<1>5. \A q \in Procs : Of(q)'
  BY <1>a, <1>b, <1>1, <1>4, Bystander DEF IInv
<1> QED
  BY <1>1, <1>3, <1>5 DEF IInv

\* A step that hands out receipts or answers only, or exports.
LEMMA GivingChange ==
    ASSUME IInv, Typed', UNCHANGED <<source, dir, durable, damaged, log, edits>>
    PROVE  /\ Stored' /\ Grows /\ RunVersion' = RunVersion
           /\ \A fate : Settled(fate)' = Settled(fate)
           /\ \A n : Kept(n)' <=> Kept(n)
           /\ \A r : Registered(r)' <=> Registered(r)
<1>1. RunVersion' = RunVersion /\ RunVersion \in Int /\ \A fate : Settled(fate)' = Settled(fate)
  BY VersionTyped DEF IInv, RunVersion, Settled
<1>2. \A n : Kept(n)' <=> Kept(n)
  BY DEF Kept, Reads
<1>3. Stored'
  BY <1>2 DEF IInv, Stored
<1>4. Grows
  BY <1>1, <1>2 DEF Grows, IInv, Typed
<1> QED
  BY <1>1, <1>2, <1>3, <1>4 DEF Registered

\* Report: an answer that the ledger bears out.
LEMMA ReportTyped ==
    ASSUME AnswersAgree, NEW k, NEW r, Report(k, r), log' = log, k # NoKey => \E i \in Emitted(k) : log[i].ref = r
    PROVE  AnswersAgree'
<1>1. answers' = answers \cup {[key |-> k, ref |-> r] : x \in {k} \ {NoKey}}
  BY DEF Report
<1> SUFFICES ASSUME NEW a \in answers' PROVE \E i \in Emitted(a.key) : log[i].ref = a.ref
  BY DEF AnswersAgree, Emitted
<1>2. CASE a \in answers
  BY <1>2 DEF AnswersAgree
<1>3. CASE a = [key |-> k, ref |-> r] /\ k # NoKey
  BY <1>3
<1> QED
  BY <1>1, <1>2, <1>3

\* Retry: the answer has the receipt of the event.
LEMMA RetryStep ==
    ASSUME IInv, NEW p \in Procs, NEW k \in Keys, Retry(p, k)
    PROVE  IInv'
<1>a. Recorded /\ Bundled
  BY DEF IInv
<1>b. UNCHANGED <<source, dir, durable, damaged, log, edits>> /\ UNCHANGED <<snapshot, known, bundle, proc>>
  BY DEF Retry, files, ledger
<1>1. Typed'
  BY <1>b DEF IInv, Typed
<1>2. PICK i \in Emitted(k) : Report(k, log[i].ref)
  BY DEF Retry
<1>3. AnswersAgree'
  <2> PICK r : r = log[i].ref
    OBVIOUS
  <2> QED
    BY <1>a, <1>b, <1>2, ReportTyped DEF Recorded
<1>4. Recorded'
  BY <1>a, <1>b, <1>1, <1>3, GivingChange DEF Recorded
<1>5. Bundled'
  BY <1>a, <1>b DEF Bundled, ExportIsConsistent, Settled
<1>6. \A q \in Procs : Of(q)'
  BY <1>b, <1>1, GivingChange, Bystander DEF IInv
<1>7. OwnedOnce'
  BY <1>b DEF IInv, OwnedOnce, Owning
<1> QED
  BY <1>b, <1>1, <1>4, <1>5, <1>6, <1>7, GivingChange DEF IInv

\* Verify: the receipt that is returned is registered.
LEMMA VerifyStep ==
    ASSUME IInv, NEW p \in Procs, Verify(p)
    PROVE  IInv'
<1> DEFINE c == proc[p]
<1>a. Typed /\ Recorded /\ Bundled /\ Of(p) /\ c \in Served
  BY DEF IInv, Typed
<1>b. /\ c.pc = "verifying" /\ known' = known \cup {c.ref}
      /\ UNCHANGED <<source, dir, durable, damaged, log, edits>> /\ UNCHANGED <<snapshot, answers, bundle>>
  BY DEF Verify, files, ledger, bounds
<1>1. PICK d : /\ Serves(p, d) /\ d.pc \in {"checking", "restoring", "idle"}
               /\ (d.pc = "checking" => d.ref = c.ref) /\ d.todo \subseteq c.todo
  BY <1>a, VerifyServes
<1>2. proc'[p] = d /\ proc' \in [Procs -> Served]
  BY <1>1 DEF Serves
<1>3. Registered(c.ref) /\ c.ref \in Receipts
  BY <1>a, <1>b DEF Of, RegisteringOf, Registered, OneVersion
<1>4. Typed'
  BY <1>a, <1>b, <1>2, <1>3 DEF Typed
<1>5. /\ Stored' /\ Grows /\ \A r : Registered(r)' <=> Registered(r)
      /\ \A fate : Settled(fate)' = Settled(fate)
  BY <1>b, <1>4, GivingChange
<1>6. Recorded'
  <2>1. AnswersAgree'
    BY <1>a, <1>b DEF Recorded, AnswersAgree, Emitted
  <2>2. \A r \in known' : Registered(r)'
    BY <1>a, <1>b, <1>3, <1>5 DEF Recorded
  <2> QED
    BY <1>a, <1>b, <1>5, <2>1, <2>2 DEF Recorded
<1>7. Bundled'
  BY <1>a, <1>b DEF Bundled, ExportIsConsistent, Settled
<1>8. Of(p)' /\ ~Owning(p)'
  <2>1. \A r \in d.todo : OneVersion(r)
    BY <1>a, <1>1 DEF Of, RegisteringOf
  <2>2. d.pc = "checking" => Registered(d.ref)'
    BY <1>1, <1>3, <1>5
  <2> QED
    BY <1>1, <1>2, <2>1, <2>2 DEF Of, RegisteringOf, SubmittingOf, ExportingOf, Owning
<1> QED
  BY <1>1, <1>4, <1>5, <1>6, <1>7, <1>8, <1>b, StepOf

\* A call that ends with an answer, or an export.
LEMMA EndingStep ==
    ASSUME IInv, NEW p \in Procs, End(p), Recorded', Bundled', UNCHANGED <<source, dir, durable, damaged, log, edits>>,
           known' \subseteq Receipts, snapshot' \in Nat, bundle'.refs \subseteq Receipts
    PROVE  IInv'
<1>1. Serves(p, NoCall)
  BY EndServes DEF IInv
<1>2. proc'[p] = NoCall /\ proc' \in [Procs -> Served]
  BY <1>1 DEF Serves
<1>3. Typed'
  BY <1>2 DEF IInv, Typed
<1>4. Of(p)' /\ ~Owning(p)'
  BY <1>2, Resting
<1> QED
  BY <1>1, <1>3, <1>4, GivingChange, StepOf

\* Duplicate: the answer has the receipt of the event of the other.
LEMMA DuplicateStep ==
    ASSUME IInv, NEW p \in Procs, Duplicate(p)
    PROVE  IInv'
<1>a. Typed /\ Recorded /\ Bundled
  BY DEF IInv
<1>b. UNCHANGED <<source, dir, durable, damaged, log, edits>> /\ UNCHANGED <<snapshot, known, bundle>> /\ End(p)
  BY DEF Duplicate, files, ledger, bounds
<1>1. AnswersAgree'
  <2>1. PICK i \in Emitted(proc[p].key) : Report(proc[p].key, log[i].ref)
    BY DEF Duplicate
  <2> PICK r : r = log[i].ref
    OBVIOUS
  <2> PICK k : k = proc[p].key
    OBVIOUS
  <2> QED
    BY <1>a, <1>b, <2>1, ReportTyped DEF Recorded
<1>2. Recorded'
  <2>1. \A r : Registered(r)' <=> Registered(r)
    BY <1>b DEF Registered, Kept, Reads
  <2> QED
    BY <1>a, <1>b, <1>1, <2>1 DEF Recorded, Settled
<1>3. Bundled'
  BY <1>a, <1>b DEF Bundled, ExportIsConsistent, Settled
<1> QED
  BY <1>a, <1>b, <1>2, <1>3, EndingStep DEF Typed

\* The answer has the reference of the submission that the call owns.
LEMMA SaveSnapshotStep ==
    ASSUME IInv, NEW p \in Procs, SaveSnapshot(p)
    PROVE  IInv'
<1> DEFINE c == proc[p]
<1>a. Typed /\ Recorded /\ Bundled /\ Of(p)
  BY DEF IInv
<1>b. /\ UNCHANGED <<source, dir, durable, damaged, log, edits>> /\ UNCHANGED <<known, bundle>> /\ End(p)
      /\ snapshot' = c.at /\ Report(c.key, c.ref) /\ c.pc = "saving"
  BY DEF SaveSnapshot, files, ledger, bounds
<1>1. c.at \in DOMAIN log /\ log[c.at].key = c.key /\ log[c.at].ref = c.ref /\ log[c.at].fate = "accepted"
  BY <1>a, <1>b DEF Of, SubmittingOf, Owning
<1>2. c.at \in Nat /\ c.at \in Settled("accepted")
  BY <1>1, <1>a, VersionTyped DEF Settled
<1>3. AnswersAgree'
  <2> PICK r, k : r = c.ref /\ k = c.key
    OBVIOUS
  <2>1. k # NoKey => \E i \in Emitted(k) : log[i].ref = r
    BY <1>1 DEF Emitted
  <2> QED
    BY <1>a, <1>b, <2>1, ReportTyped DEF Recorded
<1>4. Recorded'
  <2>1. \A r : Registered(r)' <=> Registered(r)
    BY <1>b DEF Registered, Kept, Reads
  <2> QED
    BY <1>a, <1>b, <1>2, <1>3, <2>1 DEF Recorded, Settled
<1>5. Bundled'
  BY <1>a, <1>b DEF Bundled, ExportIsConsistent, Settled
<1> QED
  BY <1>a, <1>b, <1>2, <1>4, <1>5, EndingStep DEF Typed

\* Bundle: the version still holds, so what was read first is what the ledger holds.
LEMMA BundleStep ==
    ASSUME IInv, NEW p \in Procs, Bundle(p)
    PROVE  IInv'
<1> DEFINE c == proc[p]
<1>a. Typed /\ Recorded /\ Bundled /\ Of(p)
  BY DEF IInv
<1>b. /\ UNCHANGED <<source, dir, durable, damaged, log, edits>> /\ UNCHANGED <<known, answers, snapshot>> /\ End(p)
      /\ bundle' = [refs |-> Referenced(p), events |-> c.events, snapshot |-> c.snapshot]
      /\ c.pc = "bundling" /\ ~Stale(p)
  BY DEF Bundle, files, ledger, bounds
<1>1. c.events = Settled("accepted") /\ (c.snapshot # 0 => c.snapshot \in Settled("accepted"))
  BY <1>a, <1>b DEF Of, ExportingOf
<1>2. \A r \in Referenced(p) : OneVersion(r)
  BY <1>1, <1>a DEF Referenced, Recorded, Registered
<1>3. \A i \in c.events : log[i].ref \in Referenced(p) /\ log[i].fate = "accepted"
  BY <1>1 DEF Referenced, Settled
<1>4. bundle'.refs = Referenced(p) /\ bundle'.events = c.events /\ bundle'.snapshot = c.snapshot
  BY <1>b
<1>5. Bundled'
  BY <1>1, <1>2, <1>3, <1>4, <1>b DEF Bundled, ExportIsConsistent, Settled
<1>6. Recorded'
  <2>1. \A r : Registered(r)' <=> Registered(r)
    BY <1>b DEF Registered, Kept, Reads
  <2> QED
    BY <1>a, <1>b, <2>1 DEF Recorded, Settled, AnswersAgree, Emitted
<1>7. bundle'.refs \subseteq Receipts
  BY <1>2, <1>4 DEF OneVersion
<1> QED
  BY <1>a, <1>b, <1>5, <1>6, <1>7, EndingStep DEF Typed

\* The ledger grows, and what was accepted stays.
LEMMA LedgerChange ==
    ASSUME IInv, Typed', UNCHANGED <<source, dir, durable, damaged, known, bundle, edits>>,
           \A i \in DOMAIN log : /\ i \in DOMAIN log' /\ log'[i].key = log[i].key /\ log'[i].ref = log[i].ref
                                 /\ log[i].fate = "accepted" => log'[i].fate = "accepted",
           RunVersion' = RunVersion + 1
    PROVE  /\ Stored' /\ Bundled' /\ Grows
           /\ \A n : Kept(n)' <=> Kept(n)
           /\ \A r : Registered(r)' <=> Registered(r)
           /\ (answers' = answers => AnswersAgree')
<1>1. RunVersion \in Int
  BY VersionTyped DEF IInv
<1>2. \A n : Kept(n)' <=> Kept(n)
  BY DEF Kept, Reads
<1>3. Stored'
  BY <1>2 DEF IInv, Stored
<1>4. Grows
  BY <1>1, <1>2 DEF Grows, IInv, Typed
<1>5. Bundled'
  BY DEF IInv, Bundled, ExportIsConsistent, Settled
<1>6. answers' = answers => AnswersAgree'
  BY DEF IInv, Recorded, AnswersAgree, Emitted
<1> QED
  BY <1>2, <1>3, <1>4, <1>5, <1>6 DEF Registered

\* Emit: no entry has the key, and the new one is owned once.
LEMMA EmitStep ==
    ASSUME IInv, NEW p \in Procs, Emit(p)
    PROVE  IInv'
<1> DEFINE c == proc[p]
           n == Len(log) + 1
<1>a. Typed /\ Recorded /\ Of(p) /\ c \in Served
  BY DEF IInv, Typed
<1>b. /\ UNCHANGED <<source, dir, durable, damaged, known, bundle, edits>> /\ UNCHANGED <<snapshot, answers>>
      /\ c.pc = "appending" /\ Emitted(c.key) = {}
  BY DEF Emit, files, outside, bounds
<1>c. c.ref = Foreign \/ Registered(c.ref)
  BY <1>a, <1>b DEF Of, SubmittingOf
<1>d. c.ref \in Receipts \cup {Foreign}
  BY <1>c DEF Registered, OneVersion
<1>1. /\ log' \in Seq(Entries)
      /\ DOMAIN log' = 1 .. n /\ DOMAIN log = 1 .. Len(log) /\ Len(log) \in Nat /\ Len(log') = n
      /\ \A i \in DOMAIN log : log'[i] = log[i]
      /\ log'[n] = [key |-> c.key, ref |-> c.ref, fate |-> "open"]
      /\ RunVersion' = RunVersion + 1 /\ RunVersion \in Int
  BY <1>a, <1>d, EmitFacts, VersionTyped
<1>2. log'[n].key = c.key /\ log'[n].ref = c.ref /\ log'[n].fate = "open"
  BY <1>1
<1>3. PICK d : /\ Serves(p, d) /\ d.pc = "resolving" /\ d.at = n /\ d.key = c.key
               /\ d.ref = c.ref /\ d.todo = c.todo
  BY <1>a, <1>1, EmitServes
<1>4. proc'[p] = d /\ proc' \in [Procs -> Served]
  BY <1>3 DEF Serves
<1>5. Typed'
  BY <1>a, <1>b, <1>1, <1>4 DEF Typed
<1>6. /\ Stored' /\ Bundled' /\ Grows /\ AnswersAgree'
      /\ \A r : Registered(r)' <=> Registered(r)
  BY <1>b, <1>1, <1>5, LedgerChange
<1>7. Recorded'
  <2>1. \A i, j \in DOMAIN log' : log'[i].key = log'[j].key /\ log'[i].key # NoKey => i = j
    <3>1. \A i \in DOMAIN log : c.key # NoKey => log[i].key # c.key
      BY <1>b DEF Emitted
    <3> QED
      BY <1>1, <1>2, <3>1, <1>a DEF Recorded
  <2>2. Settled("accepted")' = Settled("accepted")
    BY <1>1, <1>2 DEF Settled
  <2>3. \A i \in Settled("accepted") : log'[i].ref = log[i].ref
    BY <1>1 DEF Settled
  <2>4. (\A i \in Settled("accepted") : Registered(log[i].ref))'
    BY <2>2, <2>3, <1>6, <1>a DEF Recorded
  <2> QED
    BY <1>a, <1>b, <1>6, <2>1, <2>2, <2>4 DEF Recorded
<1>8. Of(p)' /\ Owning(p)'
  <2>1. RegisteringOf(p)'
    BY <1>a, <1>3, <1>4 DEF Of, RegisteringOf
  <2>2. d.ref = Foreign \/ Registered(d.ref)'
    BY <1>c, <1>3, <1>6
  <2>3. SubmittingOf(p)' /\ Owning(p)'
    BY <1>1, <1>2, <1>3, <1>4, <2>2 DEF SubmittingOf, Owning
  <2> QED
    BY <1>3, <1>4, <2>1, <2>3 DEF Of, ExportingOf
<1>9. \A q \in Procs \ {p} : Owning(q) =>
         /\ log'[proc[q].at].fate = log[proc[q].at].fate
         /\ proc'[p].at # proc[q].at
  <2>1. \A q \in Procs : Owning(q) => proc[q].at \in DOMAIN log
    BY DEF IInv, Of, SubmittingOf
  <2> QED
    BY <1>1, <1>3, <1>4, <2>1
<1> QED
  BY <1>3, <1>5, <1>6, <1>7, <1>8, <1>9, StepOf

\* A submission that its owner settles.
LEMMA SettleStep ==
    ASSUME IInv, NEW p \in Procs, NEW fate \in {"refused", "accepted"}, NEW d,
           Owning(p), proc[p].pc # "saving", fate = "accepted" => proc[p].pc = "accepting",
           Settle(p, fate), UNCHANGED <<source, dir, durable, damaged, known, bundle, edits>>, UNCHANGED snapshot,
           \/ d = NoCall
           \/ /\ fate = "accepted" /\ d.pc = "saving" /\ d.at = proc[p].at /\ d.key = proc[p].key
              /\ d.ref = proc[p].ref /\ d.todo = proc[p].todo,
           Serves(p, d),
           answers' = answers \/ Report(proc[p].key, proc[p].ref)
    PROVE  IInv'
<1> DEFINE c == proc[p]
<1>a. Typed /\ Recorded /\ Of(p)
  BY DEF IInv
<1>b. /\ c.at \in DOMAIN log /\ log[c.at].fate = "open" /\ log[c.at].key = c.key /\ log[c.at].ref = c.ref
      /\ c.pc \in {"resolving", "guarding", "accepting"}
  BY <1>a DEF Of, SubmittingOf, Owning
<1>1. /\ log' \in Seq(Entries) /\ DOMAIN log' = DOMAIN log
      /\ \A i \in DOMAIN log : log'[i].key = log[i].key /\ log'[i].ref = log[i].ref
      /\ \A i \in DOMAIN log : i # c.at => log'[i] = log[i]
      /\ log'[c.at].fate = fate
      /\ RunVersion' = RunVersion + 1 /\ RunVersion \in Int
  BY <1>a, <1>b, SettleFacts, VersionTyped
<1>2. proc'[p] = d /\ proc' \in [Procs -> Served]
  BY DEF Serves
<1>3. Typed'
  BY <1>a, <1>1, <1>2 DEF Typed
<1>4. \A i \in DOMAIN log : log[i].fate = "accepted" => log'[i].fate = "accepted"
  BY <1>1, <1>b
<1>5. /\ Stored' /\ Bundled' /\ Grows
      /\ \A r : Registered(r)' <=> Registered(r)
      /\ (answers' = answers => AnswersAgree')
  BY <1>1, <1>3, <1>4, LedgerChange
<1>6. AnswersAgree'
  <2> SUFFICES ASSUME Report(c.key, c.ref) PROVE AnswersAgree'
    BY <1>5
  <2>1. answers' = answers \cup {[key |-> c.key, ref |-> c.ref] : x \in {c.key} \ {NoKey}}
    BY DEF Report
  <2>2. \A k : \A i \in Emitted(k) : i \in DOMAIN log' /\ log'[i].key = k /\ log'[i].ref = log[i].ref /\ k # NoKey
    BY <1>1 DEF Emitted
  <2>3. c.key # NoKey => c.at \in DOMAIN log' /\ log'[c.at].key = c.key /\ log'[c.at].ref = c.ref
    BY <1>1, <1>b
  <2> SUFFICES ASSUME NEW x \in answers'
               PROVE  \E i \in DOMAIN log' : x.key # NoKey /\ log'[i].key = x.key /\ log'[i].ref = x.ref
    BY DEF AnswersAgree, Emitted
  <2>4. CASE x \in answers
    <3>1. PICK i \in Emitted(x.key) : log[i].ref = x.ref
      BY <1>a, <2>4 DEF Recorded, AnswersAgree
    <3> QED
      BY <3>1, <2>2
  <2>5. CASE x = [key |-> c.key, ref |-> c.ref] /\ c.key # NoKey
    BY <2>5, <2>3
  <2> QED
    BY <2>1, <2>4, <2>5
<1>7. Recorded'
  <2>1. \A i, j \in DOMAIN log' : log'[i].key = log'[j].key /\ log'[i].key # NoKey => i = j
    BY <1>1, <1>a DEF Recorded
  <2>2. Settled("accepted")' \subseteq Settled("accepted") \cup {c.at} /\ Settled("accepted") \subseteq Settled("accepted")'
    BY <1>1, <1>4 DEF Settled
  <2>3. fate = "accepted" => Registered(c.ref)
    BY <1>a DEF Of, SubmittingOf
  <2>4. \A i \in Settled("accepted")' : Registered(log[i].ref) /\ log'[i].ref = log[i].ref
    <3> SUFFICES ASSUME NEW i \in Settled("accepted")', i \notin Settled("accepted")
                 PROVE  Registered(log[i].ref) /\ log'[i].ref = log[i].ref
      BY <1>a, <1>1 DEF Recorded, Settled
    <3>1. i = c.at
      BY <2>2
    <3>2. log'[i].fate = "accepted"
      BY DEF Settled
    <3> QED
      BY <3>1, <3>2, <2>3, <1>1, <1>b
  <2>5. (\A i \in Settled("accepted") : Registered(log[i].ref))'
    BY <2>4, <1>5
  <2> QED
    BY <1>a, <1>5, <1>6, <2>1, <2>2, <2>5 DEF Recorded
<1>8. Of(p)' /\ (Owning(p)' => proc'[p].at = c.at)
  <2>1. CASE d = NoCall
    BY <2>1, <1>2, Resting
  <2>2. CASE fate = "accepted" /\ d.pc = "saving" /\ d.at = c.at /\ d.key = c.key /\ d.ref = c.ref /\ d.todo = c.todo
    <3>1. RegisteringOf(p)'
      BY <1>a, <1>2, <2>2 DEF Of, RegisteringOf
    <3>2. Registered(d.ref)'
      BY <1>a, <2>2, <1>5 DEF Of, SubmittingOf
    <3>3. SubmittingOf(p)'
      BY <1>1, <1>2, <1>b, <2>2, <3>2 DEF SubmittingOf, Owning
    <3> QED
      BY <1>2, <2>2, <3>1, <3>3 DEF Of, ExportingOf
  <2> QED
    BY <2>1, <2>2
<1>9. \A q \in Procs \ {p} : Owning(q) =>
         /\ log'[proc[q].at].fate = log[proc[q].at].fate
         /\ c.at # proc[q].at
  <2>1. \A q \in Procs : Owning(q) => proc[q].at \in DOMAIN log
    BY DEF IInv, Of, SubmittingOf
  <2> QED
    BY <1>1, <2>1 DEF IInv, OwnedOnce
<1> QED
  BY <1>3, <1>5, <1>7, <1>8, <1>9, StepOf

\* Unverified, Answered and Accept: only the owner settles a submission.
LEMMA LedgerSteps ==
    ASSUME IInv, NEW p \in Procs
    PROVE  Unverified(p) \/ Answered(p) \/ Accept(p) => IInv'
<1> DEFINE c == proc[p]
<1>a. c \in Served /\ Typed /\ Of(p)
  BY DEF IInv, Typed
<1>1. ASSUME Refuse(p), c.pc \in {"resolving", "guarding"} PROVE IInv'
  <2>1. Serves(p, NoCall)
    BY <1>a, <1>1, EndServes DEF Refuse
  <2> QED
    BY <1>1, <2>1, SettleStep DEF Refuse, files, bounds, Owning
<1>2. ASSUME Accept(p) PROVE IInv'
  <2>1. Goto(p, "saving") /\ "saving" \in Pcs
    BY <1>2 DEF Accept, Pcs
  <2> DEFINE e == [c EXCEPT !.pc = "saving"]
  <2>2. Serves(p, e) /\ e.pc = "saving" /\ e.ref = c.ref /\ e.todo = c.todo /\ e.at = c.at /\ e.key = c.key
    BY <1>a, <2>1, SetPc, GotoServes
  <2> HIDE DEF e
  <2>3. Settle(p, "accepted") /\ c.pc = "accepting" /\ answers' = answers /\ snapshot' = snapshot
        /\ UNCHANGED <<source, dir, durable, damaged, known, bundle, edits>>
    BY <1>2 DEF Accept, files, outside, bounds
  <2> QED
    BY <2>2, <2>3, SettleStep DEF Owning
<1>3. ASSUME c.pc = "guarding", Goto(p, "accepting"), UNCHANGED <<files, ledger, outside, bounds>> PROVE IInv'
  <2>1. "accepting" \in Pcs /\ Still
    BY <1>3 DEF Pcs, Still, files, ledger, outside, bounds
  <2> DEFINE e == [c EXCEPT !.pc = "accepting"]
  <2>2. Serves(p, e) /\ e.pc = "accepting" /\ e.ref = c.ref /\ e.todo = c.todo /\ e.at = c.at /\ e.key = c.key
    BY <1>a, <1>3, <2>1, SetPc, GotoServes
  <2> HIDE DEF e
  <2>3. proc'[p] = e
    BY <2>2 DEF Serves
  <2>4. (\A n : Kept(n)' <=> Kept(n)) /\ Owning(p)' /\ Owning(p)
    BY <1>3, <2>1, <2>2, <2>3, StillKeeps DEF Serves, Owning
  <2>5. Of(p)'
    BY <1>a, <1>3, <2>1, <2>2, <2>3, <2>4 DEF Of, RegisteringOf, SubmittingOf, ExportingOf, Registered, Owning, Still
  <2> QED
    BY <2>1, <2>2, <2>3, <2>4, <2>5, StillStep
<1> QED
  BY <1>1, <1>2, <1>3 DEF Unverified, Answered

\* The invariant holds at the start.
LEMMA Start ==
    Init => IInv
<1> SUFFICES ASSUME Init PROVE IInv
  OBVIOUS
<1> USE DEF Init
<1>1. Typed
  BY Idle DEF Typed, NoBundle
<1>2. \A p \in Procs : proc[p] = NoCall
  OBVIOUS
<1>3. Stored /\ Recorded /\ Bundled
  BY DEF Stored, Recorded, Bundled, Settled, AnswersAgree, ExportIsConsistent, NoBundle
<1>4. \A p \in Procs : Of(p) /\ ~Owning(p)
  BY <1>2, Idle DEF Of, RegisteringOf, SubmittingOf, ExportingOf, Owning
<1> QED
  BY <1>1, <1>3, <1>4 DEF IInv, OwnedOnce

\* Every step keeps the invariant.
LEMMA Step ==
    IInv /\ [Next]_vars => IInv'
<1> SUFFICES ASSUME IInv, [Next]_vars PROVE IInv'
  OBVIOUS
<1>1. CASE UNCHANGED vars
  <2>1. Still /\ proc' = proc
    BY <1>1 DEF vars, Still
  <2>2. Typed' /\ Stored' /\ Recorded' /\ Bundled' /\ Grows
    BY <2>1, StillKeeps DEF IInv, Typed
  <2>3. \A q \in Procs : Of(q)'
    BY <2>1, <2>2, Bystander DEF IInv, Still
  <2>4. OwnedOnce'
    BY <2>1 DEF IInv, OwnedOnce, Owning
  <2> QED
    BY <2>2, <2>3, <2>4 DEF IInv
<1>2. ASSUME NEW p \in Procs, Import(p) \/ Register(p) \/ Signal(p) \/ Export(p) \/ Abandon(p) PROVE IInv'
  BY <1>2, OwnSteps, BeginSteps, ThrowSteps, LinkStep, SyncStep, VerifyStep, EmitStep, DuplicateStep, LedgerSteps,
     SaveSnapshotStep, BundleStep DEF Register, Signal, Export
<1>3. ASSUME NEW p \in Procs, NEW k \in Keys, Submit(p, k) \/ Retry(p, k) PROVE IInv'
  BY <1>3, BeginSteps, RetryStep
<1> QED
  BY <1>1, <1>2, <1>3, DamageStep, EditStep, PowerLossStep DEF Next

\* The inductive invariant of the registry.
LEMMA Invariant ==
    Spec => []IInv
BY Start, Step, PTL DEF Spec

-----------------------------------------------------------------------------
\* The types of the model: a key has one event.
LEMMA TypesHold ==
    IInv => TypeOK
<1> SUFFICES ASSUME IInv PROVE TypeOK
  OBVIOUS
<1> USE DEF IInv, Typed, Recorded
<1>1. \A p \in Procs : [pc |-> proc[p].pc, op |-> proc[p].op] \in Calls
  BY DEF Calls, Served, Pcs
<1>2. \A i \in DOMAIN log : log[i].ref \in Receipts \cup {Foreign}
  <2>1. \A i \in DOMAIN log : log[i] \in Entries
    BY VersionTyped
  <2> QED
    BY <2>1 DEF Entries
<1>3. ASSUME NEW k \in Keys PROVE Cardinality(Emitted(k)) <= 1
  <2>1. \A i, j \in Emitted(k) : i = j
    BY DEF Emitted
  <2>2. CASE Emitted(k) = {}
    BY <2>2, FS_EmptySet
  <2>3. CASE \E i : Emitted(k) = {i}
    <3>1. PICK i : Emitted(k) = {i}
      BY <2>3
    <3>2. Cardinality({i}) = 1
      BY FS_Singleton
    <3> QED
      BY <3>1, <3>2
  <2> QED
    BY <2>1, <2>2, <2>3
<1> QED
  BY <1>1, <1>2, <1>3 DEF TypeOK

\* A receipt in the directory names its blob.
LEMMA Backed ==
    IInv => ReceiptsAreBacked
<1> SUFFICES ASSUME IInv, NEW n \in DOMAIN dir, n.kind = "receipt"
             PROVE  LET blob == [n EXCEPT !.kind = "blob", !.type = "any"] IN blob \in damaged \/ Reads(blob)
  BY DEF ReceiptsAreBacked
<1>1. PICK r \in Receipts : n = ReceiptOf(r)
  BY DEF IInv, Typed, Names, BlobOf
<1>2. [n EXCEPT !.kind = "blob", !.type = "any"] = BlobOf(r)
  <2> DEFINE Blank == [kind : {"blob", "receipt"}, bytes : {r.bytes}, type : {r.type, "any"}]
             n1 == [n EXCEPT !.kind = "blob"]
  <2>1. n \in Blank /\ BlobOf(r) \in Blank /\ BlobOf(r).kind = "blob" /\ BlobOf(r).type = "any"
    BY <1>1 DEF ReceiptOf, BlobOf
  <2>2. n1 \in Blank /\ n1.kind = "blob"
    BY <2>1
  <2> HIDE DEF n1
  <2>3. /\ [n1 EXCEPT !.type = "any"] \in Blank
        /\ [n1 EXCEPT !.type = "any"].kind = "blob" /\ [n1 EXCEPT !.type = "any"].type = "any"
    BY <2>2
  <2>4. [n1 EXCEPT !.type = "any"] = BlobOf(r)
    BY <2>1, <2>3
  <2> QED
    BY <2>4 DEF n1
<1>3. Kept(BlobOf(r))
  BY <1>1 DEF IInv, Stored
<1> QED
  BY <1>2, <1>3 DEF Kept

\* Whoever holds a receipt, a caller or an accepted signal, can read it for good.
LEMMA Reopens ==
    IInv => ReturnedReceiptsStay /\ RunReopens
BY DEF IInv, Recorded, Registered, Kept, ReturnedReceiptsStay, RunReopens, Retained

\* A receipt in the registry, in a caller's hands or in an accepted signal stands for
\* bytes that can be read: through crashes, losses of power and registrations of the same
\* bytes by others.
THEOREM EvidenceKept ==
    Spec => []EvidenceIsKept
<1>1. IInv => EvidenceIsKept
  BY TypesHold, Backed, Reopens DEF EvidenceIsKept
<1> QED
  BY <1>1, Invariant, PTL

\* What is registered is what the workspace file held at one time.
THEOREM VersionCaptured ==
    Spec => []CapturesOneVersion
<1>1. IInv => CapturesOneVersion
  BY DEF IInv, Stored, CapturesOneVersion
<1> QED
  BY <1>1, Invariant, PTL

\* All that submit under a key are told of the evidence that the ledger holds.
THEOREM AnswersAgreed ==
    Spec => []AnswersAgree
<1>1. IInv => AnswersAgree
  BY DEF IInv, Recorded
<1> QED
  BY <1>1, Invariant, PTL

\* An export holds no snapshot of a submission that it does not hold.
THEOREM ExportConsistent ==
    Spec => []ExportIsConsistent
<1>1. IInv => ExportIsConsistent
  BY DEF IInv, Bundled
<1> QED
  BY <1>1, Invariant, PTL

====
