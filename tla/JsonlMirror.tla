---- MODULE JsonlMirror ----
(***************************************************************************)
(* The JSONL mirror of one skill's ledger.  SQLite is canonical: an event   *)
(* is committed there first and then copied, together with everything the   *)
(* mirror is missing, into line-oriented segments, under a lock file shared *)
(* by all processes.  A sealed certificate records which bytes were         *)
(* verified up to which ledger sequence, so that an open or an append can   *)
(* extend the mirror instead of comparing every row.                        *)
(*                                                                          *)
(* A digest is modelled by the text it is a digest of.  A segment is a      *)
(* sequence of whole lines, of unterminated fragments that an interrupted   *)
(* write left, of the newline that closes a fragment, and of unreadable     *)
(* lines.                                                                   *)
(***************************************************************************)
EXTENDS Integers, Sequences, FiniteSetsExt

CONSTANTS
    Procs,          \* processes that open the skill's store
    Absent,         \* no lock file, no certificate
    Dead,           \* the pid of a process that is gone
    SegmentLines,   \* lines a segment holds before it is rotated (maxJsonlBytes)
    ChunkLines,     \* lines a chunk digest covers (CHECKPOINT_CHUNK_BYTES)
    MaxAttempts,    \* tries for the lock (40 in the code)
    Loads           \* who uses the store and the bounds of a behaviour, one of:
                    \*   procs   the processes that use the store
                    \*   events  bound: events committed
                    \*   uses    bound: times the lock is asked for
                    \*   changes bound: clears and rebuilds
                    \*   faults  bound: crashes, failed writes and damaged lines
                    \*   kinds   of "crash", "write", "damage": what can go wrong
                    \*   crashAt steps at which a process may die

ASSUME MirrorAssumption ==
    /\ IsFiniteSet(Procs) /\ Absent \notin Procs /\ Dead \notin Procs
    /\ SegmentLines \in Nat \ {0} /\ ChunkLines \in Nat \ {0} /\ MaxAttempts \in Nat \ {0}
    /\ \A l \in Loads :
          /\ l.procs \subseteq Procs /\ l.kinds \subseteq {"crash", "write", "damage"}
          /\ l.events \in Nat /\ l.uses \in Nat /\ l.changes \in Nat /\ l.faults \in Nat

VARIABLES
    load,       \* the load of this behaviour
    rows,       \* canonical events: [id, seq]
    generation, \* ledger_identity.generation
    lastSeq,    \* ledger_counter.last_seq
    files,      \* segments by number
    cert,       \* the published certificate: [generation, seq, files]
    lock,       \* the lock file: [by, written]
    pc,         \* where each process is
    op,         \* what each process asked the lock for
    tries,      \* attempts left for the lock
    boundary,   \* captured [generation, seq] of each process
    base,       \* segments of the certificate each process extends
    todo,       \* events each process has still to write or to reinsert
    committed,  \* number of events ever committed, and the last id given
    cleared,    \* ids of events a clear deleted
    uses, changes,
    mishaps     \* what went wrong so far, in order

store == <<load, rows, generation, lastSeq, committed, cleared>>
disk == <<files, cert>>
section == <<boundary, base, todo>>
bounds == <<uses, changes, mishaps>>
mirrorVars == <<load, rows, generation, lastSeq, files, cert, lock, pc, op, tries, boundary, base, todo,
          committed, cleared, uses, changes, mishaps>>

\* The segment that is written to; rotated segments are numbered from 1 and come before it.
Active == 0
NoSegments == [k \in {} |-> <<>>]
Precedes(k, l) == k # l /\ k # Active /\ (l = Active \/ k < l)

Frag == [id |-> 0, seq |-> 0]       \* an interrupted write
NewLine == [id |-> 0, seq |-> 1]    \* the newline that closes one
Junk == [id |-> 0, seq |-> 2]       \* a line that does not parse

Goto(p, where) == pc' = [pc EXCEPT ![p] = where]

Seqs(events) == {e.seq : e \in events}
TopSeq == IF rows = {} THEN 0 ELSE Max(Seqs(rows))
Boundary == [generation |-> generation, seq |-> TopSeq]

-----------------------------------------------------------------------------
(* Reading the mirror *)

\* The lines of a segment that parse.
Readable(s) == {i \in DOMAIN s : s[i].id > 0 /\ (i > 1 => s[i - 1] # Frag)}

EventsIn(s) == {s[i] : i \in Readable(s)}

\* readAllJsonlEvents
OnDisk == UNION {EventsIn(files[k]) : k \in DOMAIN files}

EndsWithFrag == Active \in DOMAIN files /\ files[Active] # <<>> /\ files[Active][Len(files[Active])] = Frag

Before(a, b) == a.seq < b.seq \/ (a.seq = b.seq /\ a.id < b.id)

\* ORDER BY ledger_seq, id: an event stands where as many are before it.
SortBySeq(events) ==
    [i \in 1..Cardinality(events) |->
        CHOOSE e \in events : Cardinality({f \in events : Before(f, e)}) = i - 1]

\* verifyCheckpoint, on open: every byte of every segment.
Verified ==
    /\ cert # Absent
    /\ cert.generation = generation /\ cert.seq <= TopSeq
    /\ cert.files = files

\* The inventory check of an append: names and lengths only.
InventoryMatches ==
    /\ cert # Absent
    /\ DOMAIN cert.files = DOMAIN files
    /\ \A k \in DOMAIN files : Len(files[k]) = Len(cert.files[k])
    /\ cert.generation = generation /\ cert.seq <= TopSeq

-----------------------------------------------------------------------------
(* Certifying *)

Completed(old) == (Len(old) \div ChunkLines) * ChunkLines

\* certifySegment: may the digests of an older certificate be extended to this segment?
Extends(s, old) ==
    /\ Len(s) >= Len(old)
    /\ Len(s) > Len(old) =>
          \A i \in (Completed(old) + 1)..Len(old) : s[i] = old[i]

\* The digests it returns: those of an unchanged length are not computed again, and
\* neither are those of completed chunks.
Digest(s, old) ==
    IF Len(s) = Len(old) THEN old
    ELSE SubSeq(old, 1, Completed(old)) \o SubSeq(s, Completed(old) + 1, Len(s))

OldSegment(p, k) == IF k \in DOMAIN base[p] THEN base[p][k] ELSE <<>>

-----------------------------------------------------------------------------
(* The lock file *)

MirrorInit ==
    /\ load \in Loads
    /\ rows = {} /\ generation = 0 /\ lastSeq = 0
    /\ files = NoSegments
    /\ cert = Absent
    /\ lock = Absent
    /\ pc = [p \in Procs |-> "down"]
    /\ op = [p \in Procs |-> "none"]
    /\ tries = [p \in Procs |-> 0]
    /\ boundary = [p \in Procs |-> [generation |-> 0, seq |-> 0]]
    /\ base = [p \in Procs |-> NoSegments]
    /\ todo = [p \in Procs |-> <<>>]
    /\ committed = 0 /\ cleared = {}
    /\ uses = 0 /\ changes = 0 /\ mishaps = <<>>

\* withJsonlProjectionLock
Ask(p, what) ==
    /\ uses < load.uses
    /\ uses' = uses + 1
    /\ op' = [op EXCEPT ![p] = what]
    /\ tries' = [tries EXCEPT ![p] = MaxAttempts]
    /\ Goto(p, "want")

Create(p) ==
    /\ pc[p] = "want" /\ tries[p] > 0
    /\ lock = Absent
    /\ lock' = [by |-> p, written |-> FALSE]
    /\ Goto(p, "created")
    /\ UNCHANGED <<store, disk, op, tries, section, bounds>>

\* The owner record goes to the file this process created, wherever that file is now.
WriteOwner(p) ==
    /\ pc[p] = "created"
    /\ IF lock # Absent /\ lock.by = p THEN lock' = [lock EXCEPT !.written = TRUE] ELSE UNCHANGED lock
    /\ Goto(p, "locked")
    /\ UNCHANGED <<store, disk, op, tries, section, bounds>>

\* EEXIST
Blocked(p) ==
    /\ pc[p] = "want" /\ tries[p] > 0
    /\ lock # Absent
    /\ Goto(p, "blocked")
    /\ UNCHANGED <<store, disk, lock, op, tries, section, bounds>>

\* The file is gone (ENOENT), or it names a process that is gone (ESRCH).
Stale(l) == l = Absent \/ (l.written /\ l.by = Dead)

ReadOwner(p) ==
    /\ pc[p] = "blocked"
    /\ tries' = [tries EXCEPT ![p] = @ - 1]
    /\ Goto(p, IF Stale(lock) THEN "stealing" ELSE "want")
    /\ UNCHANGED <<store, disk, lock, op, section, bounds>>

\* unlinkSync(lockPath), whatever is there by now.
Steal(p) ==
    /\ pc[p] = "stealing"
    /\ lock' = Absent
    /\ Goto(p, "want")
    /\ UNCHANGED <<store, disk, op, tries, section, bounds>>

\* Mutant: the timeout is noticed one attempt too late.
GiveUp_OffByOne(p) ==
    /\ pc[p] = "want" /\ tries[p] < 0
    /\ Goto(p, "idle")
    /\ UNCHANGED <<store, disk, lock, op, tries, section, bounds>>

\* JSONL projection lock timeout: the mirror is left for a later open or append.
GiveUp(p) ==
    /\ pc[p] = "want" /\ tries[p] = 0
    /\ Goto(p, "idle")
    /\ UNCHANGED <<store, disk, lock, op, tries, section, bounds>>

Release(p) ==
    /\ pc[p] = "release"
    /\ lock' = Absent
    /\ base' = [base EXCEPT ![p] = NoSegments]
    /\ Goto(p, "idle")
    /\ UNCHANGED <<store, disk, op, tries, boundary, todo, bounds>>

-----------------------------------------------------------------------------
(* Under the lock *)

\* Mutant: an open trusts the lengths of the segments, as an append does.
Trusted_Lengths(p) == InventoryMatches

\* An open verifies every byte of the certificate, an append its inventory.
Trusted(p) == IF op[p] = "verify" THEN Verified ELSE InventoryMatches

\* The boundary is captured and the way to go is chosen: rewrite everything, repair,
\* extend the certificate, or leave a certified mirror as it is.
Capture(p) ==
    /\ pc[p] = "locked"
    /\ boundary' = [boundary EXCEPT ![p] = Boundary]
    /\ \/ /\ op[p] = "rewrite" /\ Goto(p, "rewriting") /\ UNCHANGED base
       \/ /\ op[p] = "repair" \/ (op[p] \in {"verify", "mirror"} /\ ~Trusted(p))
          /\ Goto(p, "repairing") /\ UNCHANGED base
       \/ /\ op[p] \in {"verify", "mirror"} /\ Trusted(p)
          /\ IF op[p] = "verify" /\ cert.seq = TopSeq
             THEN Goto(p, "release") /\ UNCHANGED base
             ELSE Goto(p, "extending") /\ base' = [base EXCEPT ![p] = cert.files]
    /\ UNCHANGED <<store, disk, lock, op, tries, todo, bounds>>

\* extendCheckpointUnlocked: the rows between the certificate and the boundary.
Extend(p) ==
    /\ pc[p] = "extending"
    /\ todo' = [todo EXCEPT ![p] = SortBySeq({e \in rows : e.seq > cert.seq /\ e.seq <= boundary[p].seq})]
    /\ Goto(p, "writing")
    /\ UNCHANGED <<store, disk, lock, op, tries, boundary, base, bounds>>

Missing(p) == {e \in rows : e.seq <= boundary[p].seq /\ e \notin OnDisk}

\* A missing row below the highest one mirrored.
HasGap(p) == \E e \in Missing(p), f \in OnDisk : e.seq < f.seq

\* reconcileJsonlUnlocked: append what is missing, or rewrite to keep the order.
Repair(p) ==
    /\ pc[p] = "repairing"
    /\ IF HasGap(p)
       THEN Goto(p, "rewriting") /\ UNCHANGED todo
       ELSE /\ todo' = [todo EXCEPT ![p] = SortBySeq(Missing(p))]
            /\ Goto(p, "writing")
    /\ UNCHANGED <<store, disk, lock, op, tries, boundary, base, bounds>>

\* appendJsonlLines closes a fragment before the first line it writes ...
CloseFragment(p) ==
    /\ pc[p] = "writing" /\ todo[p] # <<>>
    /\ EndsWithFrag
    /\ files' = [files EXCEPT ![Active] = Append(@, NewLine)]
    /\ UNCHANGED <<store, cert, lock, pc, op, tries, section, bounds>>

Full == Active \in DOMAIN files /\ files[Active] # <<>> /\ Len(files[Active]) >= SegmentLines

\* ... rotates a full segment to the first free number, and its certificate with it ...
Rotate(p) ==
    /\ pc[p] = "writing" /\ todo[p] # <<>>
    /\ ~EndsWithFrag /\ Full
    /\ LET free == Min((1..(Cardinality(DOMAIN files) + 1)) \ DOMAIN files)
           Renamed(f) == [k \in (DOMAIN f \ {Active}) \cup {free} |-> IF k = free THEN f[Active] ELSE f[k]]
       IN /\ files' = Renamed(files)
          /\ base' = [base EXCEPT ![p] = IF Active \in DOMAIN @ THEN Renamed(@) ELSE @]
    /\ UNCHANGED <<store, cert, lock, pc, op, tries, boundary, todo, bounds>>

WithLine(line) ==
    files' = [k \in DOMAIN files \cup {Active} |->
                 IF k # Active THEN files[k]
                 ELSE Append(IF Active \in DOMAIN files THEN files[Active] ELSE <<>>, line)]

\* ... and writes one line at a time.
WriteLine(p) ==
    /\ pc[p] = "writing" /\ todo[p] # <<>>
    /\ ~EndsWithFrag /\ ~Full
    /\ WithLine(Head(todo[p]))
    /\ todo' = [todo EXCEPT ![p] = Tail(@)]
    /\ UNCHANGED <<store, cert, lock, pc, op, tries, boundary, base, bounds>>

Written(p) ==
    /\ pc[p] = "writing" /\ todo[p] = <<>>
    /\ Goto(p, "certifying")
    /\ UNCHANGED <<store, disk, lock, op, tries, section, bounds>>

\* rewriteJsonlFromSqliteUnlocked: the canonical rows, read at once ...
Rewrite(p) ==
    /\ pc[p] = "rewriting"
    /\ todo' = [todo EXCEPT ![p] = SortBySeq({e \in rows : e.seq <= boundary[p].seq})]
    /\ Goto(p, "replacing")
    /\ UNCHANGED <<store, disk, lock, op, tries, boundary, base, bounds>>

\* ... renamed over the active segment ...
Replace(p) ==
    /\ pc[p] = "replacing"
    /\ files' = [k \in DOMAIN files \cup {Active} |-> IF k = Active THEN todo[p] ELSE files[k]]
    /\ todo' = [todo EXCEPT ![p] = <<>>]
    /\ Goto(p, "pruning")
    /\ UNCHANGED <<store, cert, lock, op, tries, boundary, base, bounds>>

\* ... and the rotated segments removed one by one.
Prune(p) ==
    /\ pc[p] = "pruning"
    /\ IF DOMAIN files \subseteq {Active}
       THEN Goto(p, "certifying") /\ UNCHANGED files
       ELSE /\ files' = [k \in DOMAIN files \ {Min(DOMAIN files \ {Active})} |-> files[k]]
            /\ UNCHANGED pc
    /\ UNCHANGED <<store, cert, lock, op, tries, section, bounds>>

SameGeneration(p) == generation = boundary[p].generation

\* Mutant: the boundary is read again when the certificate is written.
Certify_Latest(p) ==
    /\ pc[p] = "certifying"
    /\ SameGeneration(p)
    /\ \A k \in DOMAIN files : Extends(files[k], OldSegment(p, k))
    /\ cert' = [generation |-> generation, seq |-> TopSeq, files |-> files]
    /\ Goto(p, "release")
    /\ UNCHANGED <<store, files, lock, op, tries, section, bounds>>

\* certifyJsonlUnlocked and publishCheckpoint: the captured boundary, over the bytes there.
Certify(p) ==
    /\ pc[p] = "certifying"
    /\ SameGeneration(p)
    /\ \A k \in DOMAIN files : Extends(files[k], OldSegment(p, k))
    /\ cert' = [generation |-> boundary[p].generation, seq |-> boundary[p].seq,
                files |-> [k \in DOMAIN files |->
                    IF k \in DOMAIN base[p] THEN Digest(files[k], base[p][k]) ELSE files[k]]]
    /\ Goto(p, "release")
    /\ UNCHANGED <<store, files, lock, op, tries, section, bounds>>

\* What an operation is remembered as when its section ends early.
Unrepaired(what) == IF what = "verify" THEN "deferred" ELSE "failed"

\* The ledger was replaced meanwhile, or the certified prefix is not there any more: the
\* section ends without a certificate.
CannotCertify(p) ==
    /\ pc[p] = "certifying"
    /\ ~SameGeneration(p) \/ \E k \in DOMAIN files : ~Extends(files[k], OldSegment(p, k))
    /\ op' = [op EXCEPT ![p] = Unrepaired(@)]
    /\ Goto(p, "release")
    /\ UNCHANGED <<store, disk, lock, tries, section, bounds>>

-----------------------------------------------------------------------------
(* The store's operations *)

Commit ==
    /\ committed < load.events
    /\ committed' = committed + 1
    /\ lastSeq' = lastSeq + 1
    /\ rows' = rows \cup {[id |-> committed + 1, seq |-> lastSeq + 1]}

\* The constructor of a store whose ledger holds events.
Open(p) ==
    /\ pc[p] = "down"
    /\ rows # {}
    /\ Ask(p, "verify")
    /\ UNCHANGED <<store, disk, lock, section, changes, mishaps>>

\* Mutant: an empty ledger is taken for a new one.
OpenEmpty_Fresh(p) ==
    /\ pc[p] = "down"
    /\ rows = {}
    /\ Ask(p, "verify")
    /\ UNCHANGED <<store, disk, lock, section, changes, mishaps>>

\* The constructor over an empty ledger: events in the mirror are taken back.
OpenEmpty(p) ==
    /\ pc[p] = "down"
    /\ rows = {}
    /\ IF Active \in DOMAIN files /\ OnDisk # {}
       THEN /\ todo' = [todo EXCEPT ![p] = SortBySeq(OnDisk)]
            /\ Goto(p, "clearing")
            /\ UNCHANGED <<op, tries, uses>>
       ELSE Ask(p, "verify") /\ UNCHANGED todo
    /\ UNCHANGED <<store, disk, lock, boundary, base, changes, mishaps>>

\* append: the transaction commits before the mirror is touched.
AppendEvent(p) ==
    /\ pc[p] = "idle"
    /\ Commit
    /\ Ask(p, "mirror")
    /\ UNCHANGED <<load, generation, cleared, disk, lock, section, changes, mishaps>>

\* clear: one run's rows go, the ledger gets a new identity, the mirror is rewritten.
Clear(p) ==
    /\ pc[p] = "idle"
    /\ changes < load.changes
    /\ changes' = changes + 1
    /\ \E run \in SUBSET rows :
          /\ run # {}
          /\ rows' = rows \ run
          /\ cleared' = cleared \cup {e.id : e \in run}
    /\ generation' = generation + 1
    /\ Ask(p, "rewrite")
    /\ UNCHANGED <<load, lastSeq, committed, disk, lock, section, mishaps>>

\* rebuildFromJsonl, which a command calls on the store it has just opened, its mirror
\* repaired or not: the mirror is read ...
Rebuild(p) ==
    /\ pc[p] = "idle" /\ op[p] \in {"verify", "deferred"}
    /\ changes < load.changes
    /\ changes' = changes + 1
    /\ todo' = [todo EXCEPT ![p] = SortBySeq(OnDisk)]
    /\ Goto(p, "clearing")
    /\ UNCHANGED <<store, disk, lock, op, tries, boundary, base, uses, mishaps>>

\* ... the canonical tables emptied ...
ClearAll(p) ==
    /\ pc[p] = "clearing"
    /\ rows' = {} /\ lastSeq' = 0 /\ generation' = generation + 1
    /\ Goto(p, "reinserting")
    /\ UNCHANGED <<load, committed, cleared, disk, lock, op, tries, section, bounds>>

\* ... and filled again in one transaction, and the mirror is repaired.
Reinsert(p) ==
    /\ pc[p] = "reinserting"
    /\ LET back == {todo[p][i] : i \in DOMAIN todo[p]} IN
          /\ rows' = rows \cup back
          /\ lastSeq' = Max({lastSeq} \cup Seqs(back))
    /\ todo' = [todo EXCEPT ![p] = <<>>]
    /\ Ask(p, "repair")
    /\ UNCHANGED <<load, generation, committed, cleared, disk, lock, boundary, base, changes, mishaps>>

\* The process closes its store.
Close(p) ==
    /\ pc[p] = "idle"
    /\ op' = [op EXCEPT ![p] = "none"]
    /\ Goto(p, "down")
    /\ UNCHANGED <<store, disk, lock, tries, section, bounds>>

-----------------------------------------------------------------------------
(* Failures *)

InSection(p) ==
    pc[p] \in {"locked", "extending", "repairing", "writing", "rewriting", "replacing", "pruning",
               "certifying", "release"}

\* The process dies.  A write may have put part of its line on disk.
Crash(p) ==
    /\ "crash" \in load.kinds /\ pc[p] \in load.crashAt
    /\ Len(mishaps) < load.faults
    /\ mishaps' = Append(mishaps, "crash")
    /\ \/ UNCHANGED files
       \/ /\ pc[p] = "writing" /\ todo[p] # <<>> /\ ~EndsWithFrag /\ ~Full
          /\ WithLine(Frag)
    /\ lock' = IF lock # Absent /\ lock.by = p THEN [lock EXCEPT !.by = Dead] ELSE lock
    /\ Goto(p, "down")
    /\ op' = [op EXCEPT ![p] = "none"]
    /\ tries' = [tries EXCEPT ![p] = 0]
    /\ base' = [base EXCEPT ![p] = NoSegments]
    /\ todo' = [todo EXCEPT ![p] = <<>>]
    /\ UNCHANGED <<store, cert, boundary, uses, changes>>

\* A write fails and the process lives: the repair is deferred.
WriteFails(p) ==
    /\ "write" \in load.kinds
    /\ pc[p] = "writing" /\ todo[p] # <<>> /\ ~EndsWithFrag /\ ~Full
    /\ Len(mishaps) < load.faults
    /\ mishaps' = Append(mishaps, "write")
    /\ UNCHANGED files \/ WithLine(Frag)
    /\ todo' = [todo EXCEPT ![p] = <<>>]
    /\ op' = [op EXCEPT ![p] = Unrepaired(@)]
    /\ Goto(p, "release")
    /\ UNCHANGED <<store, cert, lock, tries, boundary, base, uses, changes>>

\* A line is damaged from outside while no process has the store open.
Damage ==
    /\ "damage" \in load.kinds
    /\ \A p \in Procs : pc[p] = "down"
    /\ Len(mishaps) < load.faults
    /\ mishaps' = Append(mishaps, "damage")
    /\ \E k \in DOMAIN files : \E i \in DOMAIN files[k] :
          /\ files[k][i].id > 0
          /\ files' = [files EXCEPT ![k][i] = Junk]
    /\ UNCHANGED <<store, cert, lock, pc, op, tries, section, uses, changes>>

-----------------------------------------------------------------------------
LockStep(p) ==
    \/ Create(p) \/ WriteOwner(p) \/ Blocked(p) \/ ReadOwner(p) \/ Steal(p) \/ GiveUp(p) \/ Release(p)

SectionStep(p) ==
    \/ Capture(p) \/ Extend(p) \/ Repair(p)
    \/ CloseFragment(p) \/ Rotate(p) \/ WriteLine(p) \/ Written(p)
    \/ Rewrite(p) \/ Replace(p) \/ Prune(p)
    \/ Certify(p) \/ CannotCertify(p)

Use(p) ==
    \/ Open(p) \/ OpenEmpty(p) \/ AppendEvent(p) \/ Clear(p)
    \/ Rebuild(p) \/ ClearAll(p) \/ Reinsert(p) \/ Close(p)

MirrorNext ==
    \/ \E p \in load.procs : LockStep(p) \/ SectionStep(p) \/ Use(p) \/ Crash(p) \/ WriteFails(p)
    \/ Damage

MirrorSpec == MirrorInit /\ [][MirrorNext]_mirrorVars

\* The mirror is synchronous code: once a process asks for the lock it runs on.
FairSpec == MirrorSpec /\ \A p \in Procs : WF_mirrorVars(LockStep(p) \/ SectionStep(p))

-----------------------------------------------------------------------------
(* Properties *)

Tokens == [id : Nat, seq : Nat]

\* Every variable has its type.
MirrorTypeOK ==
    /\ load \in Loads
    /\ rows \subseteq Tokens
    /\ generation \in Nat /\ lastSeq \in Nat
    /\ DOMAIN files \subseteq Nat
    /\ \A k \in DOMAIN files : \A i \in DOMAIN files[k] : files[k][i] \in Tokens
    /\ cert = Absent \/ (cert.generation \in Nat /\ cert.seq \in Nat /\ DOMAIN cert.files \subseteq Nat)
    /\ lock = Absent \/ lock \in [by : Procs \cup {Dead}, written : BOOLEAN]
    /\ \A p \in Procs :
          /\ tries[p] \in 0..MaxAttempts
          /\ boundary[p] \in [generation : Nat, seq : Nat]
          /\ \A i \in DOMAIN todo[p] : todo[p][i] \in Tokens
    /\ committed \in 0..load.events /\ cleared \subseteq 1..committed

\* A certificate that an open accepts, byte for byte, never hides a row: every row up to
\* the sequence it names has its line in the mirror, so skipping those rows loses nothing.
CertifiedIsMirrored ==
    Verified => \A e \in rows : e.seq <= cert.seq => e \in OnDisk

\* A store that opened, and whatever failed before it, left every canonical row mirrored.
OpenRepairs ==
    \A p \in Procs : pc[p] = "idle" /\ op[p] = "verify" => rows \subseteq OnDisk

\* The mirror reads in ledger order and holds no row twice, except while a rewritten
\* mirror still has its rotated segments.
MirrorIsOrdered ==
    (\A p \in Procs : pc[p] # "pruning") =>
    \A k, l \in DOMAIN files : \A i \in Readable(files[k]), j \in Readable(files[l]) :
        Precedes(k, l) \/ (k = l /\ i < j) => files[k][i].seq < files[l][j].seq

BeingReinserted == UNION {{todo[p][i].id : i \in DOMAIN todo[p]} : p \in {q \in Procs : pc[q] = "reinserting"}}

HasHappened(kind) == \E i \in DOMAIN mishaps : mishaps[i] = kind

\* Nothing was done to the mirror but what the store does; a process may have died.
Clean == ~HasHappened("write") /\ ~HasHappened("damage")

\* An event that was committed and not cleared is in the ledger, or comes back from the
\* mirror when the ledger is found empty, wherever a process dies, also between the two
\* transactions of a rebuild.  Only a mirror that could not be written or was damaged may
\* have nothing to give back.
CommittedSurvives ==
    Clean =>
        \A n \in (1..committed) \ cleared :
            \/ \E e \in rows : e.id = n
            \/ n \in BeingReinserted
            \/ rows = {} /\ Active \in DOMAIN files /\ \E e \in OnDisk : e.id = n

\* A process that asks for the lock goes on with its work or dies.
AsksEnd == \A p \in Procs : pc[p] = "want" ~> pc[p] \in {"idle", "down"}

\* When one process uses the store at a time the mirror is complete after an open, whatever
\* died, failed or was damaged before.  It is in the order of the ledger, unless a process
\* dies between the two transactions of a rebuild from a mirror that was not repaired: the
\* ledger then counts anew, and what it never took back is still in the rotated segments.
MirrorIsRepaired ==
    /\ MirrorTypeOK
    /\ Cardinality(load.procs) = 1 =>
          OpenRepairs /\ (Clean \/ "reinserting" \notin load.crashAt => MirrorIsOrdered)
====
