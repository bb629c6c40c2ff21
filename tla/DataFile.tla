---------------------------- MODULE DataFile ----------------------------
(***************************************************************************)
(* data.json, its backup and its preserved originals: the storage package  *)
(* (Load, Save, WriteAtomic, replaceFile, RestoreBackup) and the startup   *)
(* that calls it (openService), step by step, with the process killed or   *)
(* the power lost between any two steps.                                   *)
(*                                                                         *)
(* Simplifications:                                                        *)
(*   - a snapshot is an opaque value: Entries says what is in it;          *)
(*   - one save or restoration at a time, as the service's mutex and the   *)
(*     single-instance lock give it;                                       *)
(*   - another program harms a file only between two calls, and makes it   *)
(*     undecodable (garbage, or the format of a newer CopyNote): deleting  *)
(*     data.json by hand is not modelled;                                  *)
(*   - the .tmp file of a call that was cut short is not kept: the next    *)
(*     WriteAtomic truncates it.                                           *)
(***************************************************************************)
EXTENDS Naturals

CONSTANTS
    Snapshots,   \* the contents that decode and validate
    EmptyStore,  \* model.NewStore()
    Harmed,      \* the undecodable contents other programs may leave
    Torn,        \* what a half-written file would decode to: nothing
    None,        \* no file; no process; no value
    Posix        \* replaceFile is rename + directory sync (replace_other.go)
                 \* rather than one write-through MoveFileEx (replace_windows.go)

ASSUME ContentsAssumption ==
    /\ EmptyStore \in Snapshots
    /\ Snapshots \cap Harmed = {}
    /\ Torn \notin Snapshots \cup Harmed
    /\ None \notin Snapshots \cup Harmed \cup {Torn}
    /\ Posix \in BOOLEAN

VARIABLES
    disk,      \* the files as a running program sees them
    media,     \* the files as a power failure is certain to find them
    memory,    \* the service's store, None when no process serves it
    pc,        \* what the process is doing
    wr,        \* how far the WriteAtomic of that step is
    flushed,   \* whether the data of that WriteAtomic has been synced
    before,    \* what the call read from data.json
    next       \* what the call is to leave in data.json

\* History: what the running call and the calls before it may have left in
\* data.json, and the unreadable contents data.json has had.
VARIABLES expected, found

vars == <<disk, media, memory, pc, wr, flushed, before, next, expected, found>>

-----------------------------------------------------------------------------
\* Types

Content == Snapshots \cup Harmed \cup {Torn, None}

\* "corrupt" stands for the data.json.corrupt-<timestamp> files, one per restoration.
Files == [main: Content, bak: Content, corrupt: SUBSET Content]

Saving == {"saveBackup", "saveMain"}
Restoring == {"keepOriginal", "restoreMain"}
Writing == Saving \cup Restoring

TypeOK ==
    /\ disk \in Files
    /\ media \in Files
    /\ memory \in Snapshots \cup {None}
    /\ pc \in {"down", "asking", "idle"} \cup Writing
    /\ wr \in {"open", "staged", "renamed"}
    /\ flushed \in BOOLEAN
    /\ before \in Content
    /\ next \in Snapshots \cup {None}
    /\ expected \subseteq Snapshots \cup {None}
    /\ found \subseteq Harmed

Init ==
    /\ disk = [main |-> None, bak |-> None, corrupt |-> {}]
    /\ media = disk
    /\ memory = None
    /\ pc = "down"
    /\ wr = "open"
    /\ flushed = FALSE
    /\ before = None
    /\ next = None
    /\ expected = {None}
    /\ found = {}

-----------------------------------------------------------------------------
\* Helpers

\* decode: only a valid snapshot comes back without an error.
Decodes(c) == c \in Snapshots

\* The path and the data of the WriteAtomic in progress.
Target ==
    CASE pc = "saveBackup" -> "bak"
      [] pc = "keepOriginal" -> "corrupt"
      [] OTHER -> "main"

WriteData == IF pc \in {"saveBackup", "keepOriginal"} THEN before ELSE next

\* The files f after d takes the place of the target.
Landed(f, d) ==
    CASE Target = "main" -> [f EXCEPT !.main = d]
      [] Target = "bak" -> [f EXCEPT !.bak = d]
      [] OTHER -> [f EXCEPT !.corrupt = @ \cup {d}]

\* The call goes on to write another file.
StartWriting(step) ==
    /\ pc' = step
    /\ wr' = "open"
    /\ flushed' = FALSE

\* The call returns an error: Save leaves the service as it was, a failed
\* restoration ends in fatalStartup.
Abort ==
    /\ pc' = IF pc \in Saving THEN "idle" ELSE "down"
    /\ wr' = "open"
    /\ flushed' = FALSE
    /\ before' = None
    /\ next' = None
    /\ UNCHANGED <<memory, expected, found>>

-----------------------------------------------------------------------------
\* Startup: service.New under openService

\* Mutant: a file that does not decode is served as it is.
StartUnchecked ==
    /\ pc = "down"
    /\ memory' = IF disk.main = None THEN EmptyStore ELSE disk.main
    /\ pc' = "idle"
    /\ UNCHANGED <<disk, media, wr, flushed, before, next, expected, found>>

Start ==
    /\ pc = "down"
    /\ disk.main = None \/ Decodes(disk.main)
    /\ memory' = IF disk.main = None THEN EmptyStore ELSE disk.main
    /\ pc' = "idle"
    /\ UNCHANGED <<disk, media, wr, flushed, before, next, expected, found>>

\* data.json does not load, because it does not decode or because reading it
\* failed this time, and the backup does: the user is asked.  Without a valid
\* backup fatalStartup leaves the process down.
OfferRestore ==
    /\ pc = "down"
    /\ disk.main # None
    /\ Decodes(disk.bak)
    /\ pc' = "asking"
    /\ UNCHANGED <<disk, media, memory, wr, flushed, before, next, expected, found>>

\* The user declines, or RestoreBackup cannot read what it needs.
DeclineRestore ==
    /\ pc = "asking"
    /\ pc' = "down"
    /\ UNCHANGED <<disk, media, memory, wr, flushed, before, next, expected, found>>

\* Mutant: the restoration keeps no copy of what it replaces.
AcceptWithoutCopy ==
    /\ pc = "asking"
    /\ Decodes(disk.bak)
    /\ StartWriting("restoreMain")
    /\ before' = disk.main
    /\ next' = disk.bak
    /\ expected' = expected \cup {disk.bak}
    /\ UNCHANGED <<disk, media, memory, found>>

\* RestoreBackup reads both files again before it writes.
AcceptRestore ==
    /\ pc = "asking"
    /\ Decodes(disk.bak)
    /\ StartWriting("keepOriginal")
    /\ before' = disk.main
    /\ next' = disk.bak
    /\ expected' = expected \cup {disk.bak}
    /\ UNCHANGED <<disk, media, memory, found>>

-----------------------------------------------------------------------------
\* Save

\* Mutants: a save without a backup; one that publishes before it writes.
SaveWithoutBackup(s) ==
    /\ pc = "idle"
    /\ disk.main = None \/ Decodes(disk.main)
    /\ StartWriting("saveMain")
    /\ before' = disk.main
    /\ next' = s
    /\ expected' = expected \cup {s}
    /\ UNCHANGED <<disk, media, memory, found>>

PublishFirst(s) ==
    /\ pc = "idle"
    /\ disk.main = None \/ Decodes(disk.main)
    /\ StartWriting(IF disk.main = None THEN "saveMain" ELSE "saveBackup")
    /\ memory' = s
    /\ before' = disk.main
    /\ next' = s
    /\ expected' = expected \cup {s}
    /\ UNCHANGED <<disk, media, found>>

\* A missing file has nothing to back up; an undecodable one refuses the
\* save, which returns an error and changes nothing.
BeginSave(s) ==
    /\ pc = "idle"
    /\ disk.main = None \/ Decodes(disk.main)
    /\ StartWriting(IF disk.main = None THEN "saveMain" ELSE "saveBackup")
    /\ before' = disk.main
    /\ next' = s
    /\ expected' = expected \cup {s}
    /\ UNCHANGED <<disk, media, memory, found>>

-----------------------------------------------------------------------------
\* WriteAtomic and replaceFile

\* Mutant: the temporary file is not synced.
StageUnsynced ==
    /\ pc \in Writing /\ wr = "open"
    /\ wr' = "staged"
    /\ UNCHANGED <<disk, media, memory, pc, flushed, before, next, expected, found>>

\* Create the temporary file, write, sync, close.
Stage ==
    /\ pc \in Writing /\ wr = "open"
    /\ wr' = "staged"
    /\ flushed' = TRUE
    /\ UNCHANGED <<disk, media, memory, pc, before, next, expected, found>>

\* Any of them fails, or the rename does: nothing has taken the target's place.
WriteFails ==
    /\ pc \in Writing /\ wr \in {"open", "staged"}
    /\ Abort
    /\ UNCHANGED <<disk, media>>

Rename ==
    /\ pc \in Writing /\ wr = "staged"
    /\ wr' = "renamed"
    /\ disk' = Landed(disk, WriteData)
    /\ media' = IF Posix THEN media
                ELSE Landed(media, IF flushed THEN WriteData ELSE Torn)
    /\ UNCHANGED <<memory, pc, flushed, before, next, expected, found>>

\* dir.Sync or dir.Close reports an error after the rename has happened.
DirSyncFails ==
    /\ Posix
    /\ pc \in Writing /\ wr = "renamed"
    /\ Abort
    /\ UNCHANGED <<disk, media>>

\* Mutant: the directory is not synced.
NeverSynced(m) == m

\* The rename is durable once the directory is synced.
Synced(m) == IF Posix THEN disk ELSE m

\* WriteAtomic has returned nil.
Written(step) == pc = step /\ wr = "renamed" /\ media' = Synced(media)

BackupSaved ==
    /\ Written("saveBackup")
    /\ StartWriting("saveMain")
    /\ UNCHANGED <<disk, memory, before, next, expected, found>>

\* Save returns nil and commitLocked publishes the snapshot.
SaveReturns ==
    /\ Written("saveMain")
    /\ pc' = "idle" /\ wr' = "open" /\ flushed' = FALSE
    /\ memory' = next
    /\ expected' = {next}
    /\ before' = None /\ next' = None
    /\ UNCHANGED <<disk, found>>

OriginalKept ==
    /\ Written("keepOriginal")
    /\ StartWriting("restoreMain")
    /\ UNCHANGED <<disk, memory, before, next, expected, found>>

\* openService opens the restored store.
RestoreReturns ==
    /\ Written("restoreMain")
    /\ pc' = "idle" /\ wr' = "open" /\ flushed' = FALSE
    /\ memory' = next
    /\ expected' = {next}
    /\ before' = None /\ next' = None
    /\ UNCHANGED <<disk, found>>

-----------------------------------------------------------------------------
\* What happens to the process and to the machine

Stopped ==
    /\ pc' = "down" /\ wr' = "open" /\ flushed' = FALSE
    /\ memory' = None /\ before' = None /\ next' = None

\* The process exits or is killed.
Kill ==
    /\ pc # "down"
    /\ Stopped
    /\ UNCHANGED <<disk, media, expected, found>>

\* A path may come back as it was last synced or as the renames since left
\* it; a rename whose data was not synced may come back without the data.
Survivors(path) ==
    {media[path],
     IF pc \in Writing /\ wr = "renamed" /\ path = Target /\ ~flushed
     THEN Torn ELSE disk[path]}

PowerLoss ==
    /\ Stopped
    /\ \E m \in Survivors("main"), b \in Survivors("bak"), c \in Survivors("corrupt") :
          disk' = [main |-> m, bak |-> b, corrupt |-> c]
    /\ media' = disk'
    /\ UNCHANGED <<expected, found>>

\* Another program leaves data.json or its backup undecodable.
Harm(path, d) ==
    /\ pc \in {"down", "asking", "idle"}
    /\ Decodes(disk[path])
    /\ disk' = [disk EXCEPT ![path] = d]
    /\ media' = [media EXCEPT ![path] = d]
    /\ found' = IF path = "main" THEN found \cup {d} ELSE found
    /\ UNCHANGED <<memory, pc, wr, flushed, before, next, expected>>

-----------------------------------------------------------------------------
Call ==
    \/ Stage \/ WriteFails \/ Rename \/ DirSyncFails
    \/ BackupSaved \/ SaveReturns \/ OriginalKept \/ RestoreReturns

Next ==
    \/ Start \/ OfferRestore \/ DeclineRestore \/ AcceptRestore
    \/ \E s \in Snapshots : BeginSave(s)
    \/ Call
    \/ Kill
    \/ PowerLoss
    \/ \E path \in {"main", "bak"}, d \in Harmed : Harm(path, d)

Spec == Init /\ [][Next]_vars

-----------------------------------------------------------------------------
\* Properties

\* Neither data.json nor its backup is ever found half-written, whatever was
\* interrupted and whatever a power failure left (WriteAtomic's temporary
\* file, sync and rename).
NeverTorn == {disk.main, disk.bak, media.main, media.bak} \cap {Torn} = {}

\* What was last reported saved is what a start finds in data.json, even
\* after a power failure; only a save or a restoration begun since may have
\* put its own snapshot there instead, and only another program anything else.
SavedIsFound == {disk.main, media.main} \subseteq expected \cup Harmed

\* An unreadable data.json is never lost: it is still in place or a
\* .corrupt- copy of it is certain to be found (RestoreBackup, and the check
\* in Save that refuses to replace what it cannot decode).
UnreadableIsKept ==
    \A d \in found : d \in media.corrupt \/ (disk.main = d /\ media.main = d)

\* Nothing is replaced without a copy a power failure would find: when Save
\* reports success the backup is exactly the snapshot it replaced, and when a
\* restoration is done the file it replaced is among the .corrupt- copies,
\* also when that file was sound and only reading it had failed.
ReplacedIsKept ==
    [][/\ SaveReturns /\ before # None => disk'.bak = before /\ media'.bak = before
       /\ RestoreReturns => before \in media'.corrupt]_vars

\* After a failed save data.json holds what it held before the call.
FailedSaveLeavesDisk ==
    [][pc = "saveMain" /\ pc' = "idle" /\ memory' # next => disk'.main = before]_vars

\* The promise of SnapshotStore.
Contract == INSTANCE SnapshotStore
    WITH live <- memory, saved <- disk.main, Unreadable <- Harmed
KeepsContract == Contract!Spec

=============================================================================
