---- MODULE SyncSwap ----
(***************************************************************************)
(* One skill synchronised to one destination by runSync, run after run.     *)
(*                                                                          *)
(* Mirror mode backs the destination up, copies the source to a staging     *)
(* directory, compares the two and swaps staging for the destination with   *)
(* two renames; link mode removes the destination and puts a link in its    *)
(* place.  Directories are copied and removed one file at a time.  Any file *)
(* operation may fail, the process may die anywhere, and the source may be  *)
(* edited while it is copied.                                               *)
(*                                                                          *)
(* A file's content is the version it belongs to.  A dry run changes        *)
(* nothing and is left out.                                                 *)
(***************************************************************************)
EXTENDS Integers, Sequences

CONSTANTS
    Files, Manifest,    \* files of a skill, and the one with its version
    Versions,
    MaxSyncs,           \* bound: calls of runSync
    MaxEdits,           \* bound: edits of the source
    MaxFaults           \* bound: failed operations and crashes

ASSUME SyncAssumption ==
    /\ Manifest \in Files /\ Versions \subseteq Nat /\ Versions # {}
    /\ MaxSyncs \in Nat /\ MaxEdits \in Nat /\ MaxFaults \in Nat

VARIABLES
    source,     \* version of the skill's source directory
    dest,       \* what is at the destination
    staging, old, \* the directories of the current run next to it
    backups,    \* directories under .sync-backups
    left,       \* directories that dead or failed runs left behind
    run,        \* what runSync is executing
    previous,   \* what was at the destination when the current run began, for the properties
    runs, edits, faults

world == <<source, dest, staging, old, backups, left>>
syncBounds == <<runs, edits, faults>>
syncVars == <<source, dest, staging, old, backups, left, run, previous, runs, edits, faults>>

Directory(files) == [kind |-> "dir", files |-> files]
EmptyDirectory == Directory([f \in {} |-> 0])
Nothing == [kind |-> "none", files |-> [f \in {} |-> 0]]
\* A link to the source, or to somewhere else.
Link == [kind |-> "link", files |-> [f \in {} |-> 0]]
Elsewhere == [kind |-> "elsewhere", files |-> [f \in {} |-> 0]]

WholeDirectory(v) == Directory([f \in Files |-> v])
IsDirectory(tree) == tree.kind = "dir"
Exists(tree) == tree # Nothing

\* tree with, or without, one more file.
With(tree, f, v) == Directory([g \in DOMAIN tree.files \cup {f} |-> IF g = f THEN v ELSE tree.files[g]])
Without(tree, f) == Directory([g \in DOMAIN tree.files \ {f} |-> tree.files[g]])

Idle == [pc |-> "idle", link |-> FALSE, backup |-> FALSE, guard |-> FALSE, saved |-> Nothing, outcome |-> "none"]

SyncGoto(pc) == run' = [run EXCEPT !.pc = pc]

-----------------------------------------------------------------------------
SyncInit ==
    /\ source \in Versions
    /\ dest \in {Nothing, Elsewhere} \cup {WholeDirectory(v) : v \in Versions}
    /\ staging = Nothing /\ old = Nothing /\ backups = {} /\ left = {}
    /\ run = Idle /\ previous = dest
    /\ runs = 0 /\ edits = 0 /\ faults = 0

BeginSync(link, backup, guard) ==
    /\ run.pc = "idle" /\ runs < MaxSyncs
    /\ runs' = runs + 1
    /\ run' = [Idle EXCEPT !.pc = IF link THEN "link" ELSE "mirror", !.link = link, !.backup = backup, !.guard = guard]
    /\ previous' = dest
    /\ UNCHANGED <<world, edits, faults>>

\* The run is over: the next one uses names of its own.
Retire(outcome) ==
    /\ run' = [run EXCEPT !.pc = "idle", !.saved = Nothing, !.outcome = outcome]
    /\ left' = left \cup ({staging, old} \ {Nothing})
    /\ staging' = Nothing /\ old' = Nothing

End(outcome) ==
    /\ Retire(outcome)
    /\ UNCHANGED <<source, dest, backups, previous, syncBounds>>

\* An operation fails: on to the handler, or out of runSync when there is none.
Fault == faults < MaxFaults /\ faults' = faults + 1
FailTo(pc) ==
    /\ Fault /\ SyncGoto(pc)
    /\ UNCHANGED <<world, previous, runs, edits>>
Throws ==
    /\ Fault /\ Retire("threw")
    /\ UNCHANGED <<source, dest, backups, previous, runs, edits>>

(* Mirror mode *)

\* directoriesEqual
Unchanged ==
    /\ run.pc = "mirror" /\ dest = WholeDirectory(source)
    /\ End("unchanged")

Downgrade == IsDirectory(dest) /\ Manifest \in DOMAIN dest.files /\ dest.files[Manifest] > source

\* A link elsewhere may lead to any version.
Refused ==
    /\ run.pc = "mirror" /\ dest # WholeDirectory(source) /\ run.guard
    /\ Downgrade \/ dest = Elsewhere
    /\ End("refused")

StartMirror ==
    /\ run.pc = "mirror" /\ dest # WholeDirectory(source) /\ ~(run.guard /\ Downgrade)
    /\ SyncGoto(IF run.backup /\ IsDirectory(dest) THEN "backup" ELSE "stage")
    /\ UNCHANGED <<world, previous, syncBounds>>

\* createExternalBackup makes its directory and copies the destination into it.
StartBackup ==
    /\ run.pc = "backup"
    /\ run' = [run EXCEPT !.pc = "saving", !.saved = EmptyDirectory]
    /\ backups' = backups \cup {EmptyDirectory}
    /\ UNCHANGED <<source, dest, staging, old, left, previous, syncBounds>>

SaveFile ==
    /\ run.pc = "saving"
    /\ \E f \in DOMAIN dest.files \ DOMAIN run.saved.files :
        LET copy == With(run.saved, f, dest.files[f]) IN
        /\ run' = [run EXCEPT !.saved = copy]
        /\ backups' = backups \cup {copy}
    /\ UNCHANGED <<source, dest, staging, old, left, previous, syncBounds>>

BackedUp == run.saved = dest

Saved ==
    /\ run.pc = "saving" /\ BackedUp
    /\ SyncGoto(IF run.link THEN "remove" ELSE "stage")
    /\ UNCHANGED <<world, previous, syncBounds>>

\* The path of a backup is known to the handler only when the backup is complete; link mode has no handler.
BackupFails ==
    /\ run.pc \in {"backup", "saving"}
    /\ IF run.link THEN Throws
       ELSE /\ Fault
            /\ run' = [run EXCEPT !.pc = "catch", !.saved = Nothing]
            /\ UNCHANGED <<world, previous, runs, edits>>

StartStaging ==
    /\ run.pc = "stage"
    /\ staging' = EmptyDirectory
    /\ SyncGoto("staging")
    /\ UNCHANGED <<source, dest, old, backups, left, previous, syncBounds>>

StageFile ==
    /\ run.pc = "staging"
    /\ \E f \in Files \ DOMAIN staging.files : staging' = With(staging, f, source)
    /\ UNCHANGED <<source, dest, old, backups, left, run, previous, syncBounds>>

StagingFails == run.pc \in {"stage", "staging"} /\ FailTo("catch")

\* Mutant: the copy is not compared with the source.
Validated_Never == TRUE

\* directoriesEqual, against the source as it is now.
Validated == staging = WholeDirectory(source)

Validate ==
    /\ run.pc = "staging" /\ DOMAIN staging.files = Files
    /\ SyncGoto(IF Validated THEN "set aside" ELSE "catch")
    /\ UNCHANGED <<world, previous, syncBounds>>

\* Mutant: the old destination is removed before the new one is in place.
SetAside_Removed == old' = Nothing /\ dest' = Nothing

SetAside == old' = dest /\ dest' = Nothing

\* atomicSwap: two renames, then the old directory is removed.
RenameOld ==
    /\ run.pc = "set aside"
    /\ IF Exists(dest) THEN SetAside ELSE UNCHANGED <<dest, old>>
    /\ SyncGoto("install")
    /\ UNCHANGED <<source, staging, backups, left, previous, syncBounds>>

RenameOldFails == run.pc = "set aside" /\ Exists(dest) /\ FailTo("catch")

RenameNew ==
    /\ run.pc = "install"
    /\ dest' = staging /\ staging' = Nothing
    /\ SyncGoto("clean up")
    /\ UNCHANGED <<source, old, backups, left, previous, syncBounds>>

RenameNewFails == run.pc = "install" /\ FailTo("restore")

\* removeDirectoryRecursive of the old destination; a link is unlinked.
CleanUp ==
    /\ run.pc = "clean up" /\ Exists(old)
    /\ IF IsDirectory(old) /\ DOMAIN old.files # {}
       THEN \E f \in DOMAIN old.files : old' = Without(old, f)
       ELSE old' = Nothing
    /\ UNCHANGED <<source, dest, staging, backups, left, run, previous, syncBounds>>

CleanUpFails == run.pc = "clean up" /\ Exists(old) /\ FailTo("restore")

Mirrored ==
    /\ run.pc = "clean up" /\ ~Exists(old)
    /\ End("mirrored")

\* Mutant: the destination is not brought back.
Restorable_Never == FALSE

\* A rename to a place that is taken fails, and the failure is ignored.
Restorable == Exists(old) /\ ~Exists(dest)

Restore ==
    /\ run.pc = "restore"
    /\ IF Restorable THEN dest' = old /\ old' = Nothing ELSE UNCHANGED <<dest, old>>
    /\ SyncGoto("catch")
    /\ UNCHANGED <<source, staging, backups, left, previous, syncBounds>>

RestoreFails == run.pc = "restore" /\ Restorable /\ FailTo("catch")

\* The handler removes the staging directory; here a failure leaves runSync.
RemoveStaging ==
    /\ run.pc = "catch" /\ Exists(staging)
    /\ IF DOMAIN staging.files # {}
       THEN \E f \in DOMAIN staging.files : staging' = Without(staging, f)
       ELSE staging' = Nothing
    /\ UNCHANGED <<source, dest, old, backups, left, run, previous, syncBounds>>

\* Nothing is at the destination although it was backed up.
Lost == Exists(run.saved) /\ ~Exists(dest)

HandlerFails ==
    /\ run.pc = "recovering" \/ (run.pc = "catch" /\ (Exists(staging) \/ Lost))
    /\ Throws

Recover ==
    /\ run.pc = "catch" /\ ~Exists(staging) /\ Lost
    /\ dest' = EmptyDirectory
    /\ SyncGoto("recovering")
    /\ UNCHANGED <<source, staging, old, backups, left, previous, syncBounds>>

RecoverFile ==
    /\ run.pc = "recovering"
    /\ \E f \in DOMAIN run.saved.files \ DOMAIN dest.files : dest' = With(dest, f, run.saved.files[f])
    /\ UNCHANGED <<source, staging, old, backups, left, run, previous, syncBounds>>

MirrorFailed ==
    /\ \/ run.pc = "catch" /\ ~Exists(staging) /\ ~Lost
       \/ run.pc = "recovering" /\ dest = run.saved
    /\ End("failed")

(* Link mode *)

LinkUnchanged ==
    /\ run.pc = "link" /\ dest = Link
    /\ End("unchanged")

StartLink ==
    /\ run.pc = "link" /\ dest # Link
    /\ IF dest = Elsewhere THEN dest' = Nothing ELSE UNCHANGED dest
    /\ SyncGoto(IF ~IsDirectory(dest) THEN "symlink" ELSE IF run.backup THEN "backup" ELSE "remove")
    /\ UNCHANGED <<source, staging, old, backups, left, previous, syncBounds>>

UnlinkFails == run.pc = "link" /\ dest = Elsewhere /\ Throws

RemoveDestination ==
    /\ run.pc = "remove" /\ Exists(dest)
    /\ IF DOMAIN dest.files # {}
       THEN \E f \in DOMAIN dest.files : dest' = Without(dest, f)
       ELSE dest' = Nothing
    /\ UNCHANGED <<source, staging, old, backups, left, run, previous, syncBounds>>

RemoveFails == run.pc = "remove" /\ Exists(dest) /\ Throws

MakeLink ==
    /\ run.pc = "symlink" \/ (run.pc = "remove" /\ ~Exists(dest))
    /\ dest' = Link
    /\ Retire("linked")
    /\ UNCHANGED <<source, backups, previous, syncBounds>>

MakeLinkFails ==
    /\ run.pc = "symlink" \/ (run.pc = "remove" /\ ~Exists(dest))
    /\ Fault /\ Retire("failed")
    /\ UNCHANGED <<source, dest, backups, previous, runs, edits>>

(* The world around it *)

CrashSync ==
    /\ run.pc # "idle" /\ Fault
    /\ Retire("died")
    /\ UNCHANGED <<source, dest, backups, previous, runs, edits>>

Edit ==
    /\ edits < MaxEdits /\ edits' = edits + 1
    /\ source' \in Versions \ {source}
    /\ UNCHANGED <<dest, staging, old, backups, left, run, previous, runs, faults>>

-----------------------------------------------------------------------------
Mirror ==
    \/ Unchanged \/ Refused \/ StartMirror
    \/ StartBackup \/ SaveFile \/ Saved \/ BackupFails
    \/ StartStaging \/ StageFile \/ StagingFails \/ Validate
    \/ RenameOld \/ RenameOldFails \/ RenameNew \/ RenameNewFails
    \/ CleanUp \/ CleanUpFails \/ Mirrored \/ Restore \/ RestoreFails
    \/ RemoveStaging \/ HandlerFails \/ Recover \/ RecoverFile \/ MirrorFailed

Linking ==
    \/ LinkUnchanged \/ StartLink \/ UnlinkFails
    \/ RemoveDestination \/ RemoveFails \/ MakeLink \/ MakeLinkFails

SyncNext ==
    \/ \E link, backup, guard \in BOOLEAN : BeginSync(link, backup, guard)
    \/ Mirror \/ Linking \/ CrashSync \/ Edit

SyncSpec == SyncInit /\ [][SyncNext]_syncVars

-----------------------------------------------------------------------------
(* Properties *)

Trees == {Nothing, Link, Elsewhere} \cup UNION {{Directory(files) : files \in [D -> Versions]} : D \in SUBSET Files}
Wholes == {WholeDirectory(v) : v \in Versions}

Points == {"idle", "mirror", "backup", "saving", "stage", "staging", "set aside", "install", "clean up",
           "restore", "catch", "recovering", "link", "remove", "symlink"}
Outcomes == {"none", "threw", "unchanged", "refused", "mirrored", "failed", "linked", "died"}

\* The variables have their types, and a run that ended has no directories of its own.
SyncTypeOK ==
    /\ source \in Versions
    /\ dest \in Trees /\ previous \in Trees /\ staging \in Trees /\ old \in Trees
    /\ backups \subseteq Trees /\ left \subseteq Trees
    /\ run \in [pc : Points, link : BOOLEAN, backup : BOOLEAN, guard : BOOLEAN, saved : Trees, outcome : Outcomes]
    /\ run.pc = "idle" => staging = Nothing /\ old = Nothing
    /\ runs \in 0 .. MaxSyncs /\ edits \in 0 .. MaxEdits /\ faults \in 0 .. MaxFaults

\* What was at the destination is somewhere on the disk, complete, at every moment, whatever
\* fails and wherever the process dies; only a run without a backup gives it up, in mirror mode
\* once a complete new version has taken its place (createExternalBackup, atomicSwap and the
\* handler of sync/engine.ts:503-547).
PreviousSurvives ==
    IsDirectory(previous) =>
        \/ previous \in {dest, old} \cup backups \cup left
        \/ ~run.backup /\ (run.link \/ dest \in Wholes)

\* A destination with files missing is only ever seen where the complete previous one is in a
\* backup, or where a link replaces it and no backup was asked for.
HalfInstalledIsBackedUp ==
    (IsDirectory(dest) /\ DOMAIN dest.files # Files /\ dest # previous) =>
        previous \in backups \/ (run.link /\ ~run.backup)

\* No destination mixes files of two versions, although the source is edited while it is copied
\* (the comparison of staging with the source, sync/engine.ts:517).
InstallsOneVersion ==
    (IsDirectory(dest) /\ DOMAIN dest.files = Files) => dest \in Wholes

\* As long as a single operation failed, a mirror that reports a failure leaves the previous
\* destination, or the new one, in place ("the destination is never lost", sync/engine.ts:536-539).
OneFailureKeepsDestination ==
    (run.pc = "idle" /\ run.outcome = "failed" /\ ~run.link /\ faults <= 1) => dest \in {previous} \cup Wholes

\* What was at the destination is complete in one place or another, and a half installed
\* destination always has a backup, until a new version has taken over.
DestinationIsSafe == SyncTypeOK /\ PreviousSurvives /\ HalfInstalledIsBackedUp
====
