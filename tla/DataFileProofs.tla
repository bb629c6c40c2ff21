------------------------ MODULE DataFileProofs ------------------------
(***************************************************************************)
(* Theorems about DataFile, for any set of snapshots, any set of harmed    *)
(* contents and both platforms.  The argument is one inductive invariant,  *)
(* IInv: it ties the step a call has reached to what the call has already  *)
(* put on the disk, which is what lets the next step replace something.    *)
(***************************************************************************)
EXTENDS DataFile, TLAPS

-----------------------------------------------------------------------------
\* The inductive invariant

\* Whether a process serves a store, and what the running call has read.
Phases ==
    /\ pc \in {"idle"} \cup Saving <=> memory # None
    /\ pc \in Writing => next \in Snapshots /\ next \in expected
    /\ pc \in Writing /\ wr # "open" => flushed
    /\ pc \notin Writing => wr = "open"
    /\ pc \in Saving => before \in Snapshots \cup {None}
    /\ pc \in {"saveBackup"} \cup Restoring => before # None
    /\ pc = "asking" => disk.main # None

\* What the call read is in data.json until its last rename replaces it.
Reads ==
    /\ pc \in Writing /\ ~(Target = "main" /\ wr = "renamed") => disk.main = before
    /\ pc \in Writing /\ Target = "main" /\ wr = "renamed" => disk.main = next

\* What data.json held is safe before it is replaced.
Copies ==
    /\ pc = "saveMain" /\ before # None => disk.bak = before /\ media.bak = before
    /\ pc = "restoreMain" => before \in media.corrupt
    /\ pc = "saveBackup" /\ wr = "renamed" => disk.bak = before
    /\ pc = "keepOriginal" /\ wr = "renamed" => before \in disk.corrupt

\* How the files a power failure finds differ from those a program sees.
Media ==
    /\ media.corrupt \subseteq disk.corrupt
    /\ ~Posix => media = disk

IInv ==
    /\ TypeOK
    /\ Phases
    /\ Reads
    /\ Copies
    /\ Media
    /\ NeverTorn
    /\ SavedIsFound
    /\ UnreadableIsKept

-----------------------------------------------------------------------------
LEMMA InitIInv == Init => IInv
<1> SUFFICES ASSUME Init
             PROVE  IInv
    OBVIOUS
<1> USE ContentsAssumption
    DEF Init, IInv, TypeOK, Phases, Reads, Copies, Media, NeverTorn, SavedIsFound,
        UnreadableIsKept, Files, Content, Saving, Restoring, Writing, Target
<1>1. TypeOK
    OBVIOUS
<1>2. Phases
    OBVIOUS
<1>3. Reads
    OBVIOUS
<1>4. Copies
    OBVIOUS
<1>5. Media
    OBVIOUS
<1>6. NeverTorn
    OBVIOUS
<1>7. SavedIsFound
    OBVIOUS
<1>8. UnreadableIsKept
    OBVIOUS
<1> QED
    BY <1>1, <1>2, <1>3, <1>4, <1>5, <1>6, <1>7, <1>8

\* Every step keeps the invariant.
LEMMA StepIInv == IInv /\ [Next]_vars => IInv'
<1> SUFFICES ASSUME IInv, [Next]_vars
             PROVE  IInv'
    OBVIOUS
<1> USE ContentsAssumption
    DEF IInv, TypeOK, Phases, Reads, Copies, Media, NeverTorn, SavedIsFound,
        UnreadableIsKept, Files, Content, Saving, Restoring, Writing, Target, Decodes
<1>1. CASE Start
    BY <1>1 DEF Start
<1>2. CASE OfferRestore
    BY <1>2 DEF OfferRestore
<1>3. CASE DeclineRestore
    BY <1>3 DEF DeclineRestore
<1>4. CASE AcceptRestore
  <2>1. TypeOK'
      BY <1>4 DEF AcceptRestore, StartWriting
  <2>2. Phases'
      BY <1>4 DEF AcceptRestore, StartWriting
  <2>3. Reads'
      BY <1>4 DEF AcceptRestore, StartWriting
  <2>4. Copies'
      BY <1>4 DEF AcceptRestore, StartWriting
  <2>5. Media'
      BY <1>4 DEF AcceptRestore, StartWriting
  <2>6. NeverTorn'
      BY <1>4 DEF AcceptRestore, StartWriting
  <2>7. SavedIsFound'
      BY <1>4 DEF AcceptRestore, StartWriting
  <2>8. UnreadableIsKept'
      BY <1>4 DEF AcceptRestore, StartWriting
  <2> QED
      BY <2>1, <2>2, <2>3, <2>4, <2>5, <2>6, <2>7, <2>8
<1>5. ASSUME NEW s \in Snapshots, BeginSave(s)
      PROVE  IInv'
    BY ZenonT(60), <1>5 DEF BeginSave, StartWriting
<1>6. CASE Stage
    BY <1>6 DEF Stage
<1>7. CASE WriteFails
  <2>1. TypeOK'
      BY <1>7 DEF WriteFails, Abort
  <2>2. Phases'
      BY <1>7 DEF WriteFails, Abort
  <2>3. Reads'
      BY <1>7 DEF WriteFails, Abort
  <2>4. Copies'
      BY <1>7 DEF WriteFails, Abort
  <2>5. Media'
      BY <1>7 DEF WriteFails, Abort
  <2>6. NeverTorn'
      BY <1>7 DEF WriteFails, Abort
  <2>7. SavedIsFound'
      BY <1>7 DEF WriteFails, Abort
  <2>8. UnreadableIsKept'
      BY <1>7 DEF WriteFails, Abort
  <2> QED
      BY <2>1, <2>2, <2>3, <2>4, <2>5, <2>6, <2>7, <2>8
<1>8. CASE Rename
    BY <1>8 DEF Rename, Landed, WriteData
<1>9. CASE DirSyncFails
    BY ZenonT(60), <1>9 DEF DirSyncFails, Abort
<1>10. CASE BackupSaved
    BY <1>10 DEF BackupSaved, Written, Synced, StartWriting
<1>11. CASE SaveReturns
    BY <1>11 DEF SaveReturns, Written, Synced
<1>12. CASE OriginalKept
    BY ZenonT(60), <1>12 DEF OriginalKept, Written, Synced, StartWriting
<1>13. CASE RestoreReturns
    BY <1>13 DEF RestoreReturns, Written, Synced
<1>14. CASE Kill
    BY ZenonT(60), <1>14 DEF Kill, Stopped
<1>15. CASE PowerLoss
  <2>1. TypeOK'
    <3>1. Survivors("main") \cup Survivors("bak") \subseteq Content
        BY DEF Survivors
    <3>2. Survivors("corrupt") \subseteq SUBSET Content
        BY DEF Survivors
    <3>3. disk' \in Files
        BY <1>15, <3>1, <3>2 DEF PowerLoss
    <3> QED
        BY <1>15, <3>3 DEF PowerLoss, Stopped
  <2>2. Phases'
      BY <1>15 DEF PowerLoss, Stopped, Survivors
  <2>3. Reads'
      BY <1>15 DEF PowerLoss, Stopped, Survivors
  <2>4. Copies'
      BY <1>15 DEF PowerLoss, Stopped, Survivors
  <2>5. Media'
      BY <1>15 DEF PowerLoss, Stopped, Survivors
  <2>6. NeverTorn'
      BY <1>15 DEF PowerLoss, Stopped, Survivors
  <2>7. SavedIsFound'
      BY <1>15 DEF PowerLoss, Stopped, Survivors
  <2>8. UnreadableIsKept'
      BY <1>15 DEF PowerLoss, Stopped, Survivors
  <2> QED
      BY <2>1, <2>2, <2>3, <2>4, <2>5, <2>6, <2>7, <2>8
<1>16. ASSUME NEW path \in {"main", "bak"}, NEW d \in Harmed, Harm(path, d)
      PROVE  IInv'
  <2>1. TypeOK'
      BY <1>16 DEF Harm
  <2>2. Phases'
      BY <1>16 DEF Harm
  <2>3. Reads'
      BY <1>16 DEF Harm
  <2>4. Copies'
      BY <1>16 DEF Harm
  <2>5. Media'
      BY <1>16 DEF Harm
  <2>6. NeverTorn'
      BY <1>16 DEF Harm
  <2>7. SavedIsFound'
      BY <1>16 DEF Harm
  <2>8. UnreadableIsKept'
      BY <1>16 DEF Harm
  <2> QED
      BY <2>1, <2>2, <2>3, <2>4, <2>5, <2>6, <2>7, <2>8
<1>17. CASE UNCHANGED vars
    BY <1>17 DEF vars
<1> QED
    BY <1>1, <1>2, <1>3, <1>4, <1>5, <1>6, <1>7, <1>8, <1>9, <1>10, <1>11, <1>12, <1>13, <1>14, <1>15, <1>16, <1>17 DEF Next, Call

LEMMA Inductive == Spec => []IInv
BY InitIInv, StepIInv, PTL DEF Spec

-----------------------------------------------------------------------------
\* The theorems

\* The variables keep their types.
THEOREM DataFileTypes == Spec => []TypeOK
BY Inductive, PTL DEF IInv

\* No interruption and no power failure leaves data.json or its backup
\* half-written.
THEOREM DataFileNeverTorn == Spec => []NeverTorn
BY Inductive, PTL DEF IInv

\* An acknowledged save is what the next start finds, power failures included.
THEOREM DataFileSavedIsFound == Spec => []SavedIsFound
BY Inductive, PTL DEF IInv

\* What CopyNote could not read is never lost.
THEOREM DataFileUnreadableIsKept == Spec => []UnreadableIsKept
BY Inductive, PTL DEF IInv

\* A save and a restoration each leave a durable copy of what they replaced.
THEOREM DataFileReplacedIsKept == Spec => ReplacedIsKept
<1>1. IInv /\ SaveReturns /\ before # None
         => disk'.bak = before /\ media'.bak = before
    BY DEF IInv, TypeOK, Files, Copies, SaveReturns, Written, Synced
<1>2. IInv /\ RestoreReturns => before \in media'.corrupt
    BY DEF IInv, TypeOK, Files, Copies, Media, RestoreReturns, Written, Synced
<1> QED
    BY <1>1, <1>2, Inductive, PTL DEF Spec, ReplacedIsKept

-----------------------------------------------------------------------------
\* Where a rename is durable when it returns, the files keep SnapshotStore's
\* promise.

\* Until the last rename of a save, and again once it has returned, the
\* process works with what data.json holds, unless that has been harmed.
Agree ==
    pc \in {"idle"} \cup Saving /\ ~(pc = "saveMain" /\ wr = "renamed")
    /\ disk.main \notin Harmed
    => memory = Contract!Loaded

LEMMA StepAgree ==
    ASSUME ~Posix, IInv, Agree, [Next]_vars
    PROVE  Agree'
<1> USE ContentsAssumption
    DEF IInv, TypeOK, Phases, Reads, Media, Files, Content, Saving, Restoring,
        Writing, Target, Decodes, Agree, Contract!Loaded
<1>1. CASE Start \/ OfferRestore \/ DeclineRestore \/ AcceptRestore
    BY <1>1 DEF Start, OfferRestore, DeclineRestore, AcceptRestore, StartWriting
<1>2. ASSUME NEW s \in Snapshots, BeginSave(s)
      PROVE  Agree'
    BY <1>2 DEF BeginSave, StartWriting
<1>3. CASE Stage \/ WriteFails \/ DirSyncFails
    BY <1>3 DEF Stage, WriteFails, DirSyncFails, Abort
<1>4. CASE Rename
    BY <1>4 DEF Rename, Landed, WriteData
<1>5. CASE BackupSaved \/ OriginalKept
    BY <1>5 DEF BackupSaved, OriginalKept, Written, StartWriting
<1>6. CASE SaveReturns \/ RestoreReturns
    BY <1>6 DEF SaveReturns, RestoreReturns, Written
<1>7. CASE Kill \/ PowerLoss
    BY <1>7 DEF Kill, PowerLoss, Stopped
<1>8. ASSUME NEW path \in {"main", "bak"}, NEW d \in Harmed, Harm(path, d)
      PROVE  Agree'
  <2>1. CASE path = "main"
      BY <1>8, <2>1 DEF Harm
  <2>2. CASE path = "bak"
      BY <1>8, <2>2 DEF Harm
  <2> QED
      BY <2>1, <2>2
<1>9. CASE UNCHANGED vars
    BY <1>9 DEF vars
<1> QED
    BY <1>1, <1>2, <1>3, <1>4, <1>5, <1>6, <1>7, <1>8, <1>9 DEF Next, Call

\* Each step is a step of SnapshotStore or leaves its two variables alone:
\* the last rename of a save is Save, its return is Publish, the rename that
\* ends a restoration is Restore.
LEMMA StepContract ==
    ASSUME ~Posix, IInv, Agree, [Next]_vars
    PROVE  [Contract!Next]_(Contract!vars)
<1> USE ContentsAssumption
    DEF IInv, TypeOK, Phases, Reads, Media, Files, Content, Saving, Restoring,
        Writing, Target, Decodes, Contract!Loaded, Contract!vars
<1>1. CASE Start
  <2>1. Contract!Load
      BY <1>1 DEF Start, Contract!Load
  <2> QED
      BY <2>1 DEF Contract!Next
<1>2. CASE OfferRestore \/ DeclineRestore \/ AcceptRestore
    BY <1>2 DEF OfferRestore, DeclineRestore, AcceptRestore
<1>3. ASSUME NEW s \in Snapshots, BeginSave(s)
      PROVE  UNCHANGED Contract!vars
    BY <1>3 DEF BeginSave
<1>4. CASE Stage \/ WriteFails \/ DirSyncFails
    BY <1>4 DEF Stage, WriteFails, DirSyncFails, Abort
<1>5. CASE Rename
  <2>1. CASE pc = "saveMain"
    <3>1. disk.main \notin Harmed /\ memory # None /\ next \in Snapshots
        BY <1>5, <2>1 DEF Rename
    <3>2. Contract!Save(next)
        BY <1>5, <2>1, <3>1 DEF Rename, Landed, WriteData, Agree, Contract!Save, Contract!InStep
    <3> QED
        BY <3>1, <3>2 DEF Contract!Next
  <2>2. CASE pc = "restoreMain"
    <3>1. next \in Snapshots /\ Contract!Restore(next)
        BY <1>5, <2>2 DEF Rename, Landed, WriteData, Contract!Restore
    <3> QED
        BY <3>1 DEF Contract!Next
  <2>3. CASE pc \in {"saveBackup", "keepOriginal"}
      BY <1>5, <2>3 DEF Rename, Landed, WriteData
  <2> QED
      BY <1>5, <2>1, <2>2, <2>3 DEF Rename
<1>6. CASE BackupSaved \/ OriginalKept
    BY <1>6 DEF BackupSaved, OriginalKept
<1>7. CASE SaveReturns
  <2>1. Contract!Publish
      BY <1>7 DEF SaveReturns, Written, Contract!Publish
  <2> QED
      BY <2>1 DEF Contract!Next
<1>8. CASE RestoreReturns
  <2>1. Contract!Load
      BY <1>8 DEF RestoreReturns, Written, Contract!Load
  <2> QED
      BY <2>1 DEF Contract!Next
<1>9. CASE Kill
  <2>1. Contract!Stop
      BY <1>9 DEF Kill, Stopped, Contract!Stop
  <2> QED
      BY <2>1 DEF Contract!Next
<1>10. CASE PowerLoss
  <2>1. Survivors("main") = {disk.main}
      BY DEF Survivors
  <2>2. Contract!Stop
      BY <1>10, <2>1 DEF PowerLoss, Stopped, Contract!Stop
  <2> QED
      BY <2>2 DEF Contract!Next
<1>11. ASSUME NEW path \in {"main", "bak"}, NEW d \in Harmed, Harm(path, d)
       PROVE  [Contract!Next]_(Contract!vars)
  <2>1. CASE path = "main"
    <3>1. Contract!Harm
        BY <1>11, <2>1 DEF Harm, Contract!Harm
    <3> QED
        BY <3>1 DEF Contract!Next
  <2>2. CASE path = "bak"
      BY <1>11, <2>2 DEF Harm
  <2> QED
      BY <2>1, <2>2
<1>12. CASE UNCHANGED vars
    BY <1>12 DEF vars
<1> QED
    BY <1>1, <1>2, <1>3, <1>4, <1>5, <1>6, <1>7, <1>8, <1>9, <1>10, <1>11, <1>12
       DEF Next, Call

\* With the write-through replacement of Windows, data.json and the process
\* that serves it behave as SnapshotStore promises.
THEOREM DataFileKeepsContract ==
    ASSUME ~Posix
    PROVE  Spec => KeepsContract
<1>1. Init => Contract!Init /\ Agree
    BY DEF Init, Contract!Init, Agree, Saving
<1>2. IInv /\ Agree /\ [Next]_vars => Agree'
    BY StepAgree
<1>3. IInv /\ Agree /\ [Next]_vars => [Contract!Next]_(Contract!vars)
    BY StepContract
<1> QED
    BY <1>1, <1>2, <1>3, Inductive, PTL DEF Spec, KeepsContract, Contract!Spec

=============================================================================
