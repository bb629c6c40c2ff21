-------------------------- MODULE SnapshotStore --------------------------
(***************************************************************************)
(* What the rest of CopyNote relies on when it says "saved": a process     *)
(* holds one snapshot in memory, data.json holds one snapshot, and the two *)
(* move in step.  A save is built only on what the file holds, the process *)
(* adopts a snapshot only once the file holds it, a stop at any moment     *)
(* leaves the file alone, and a file that cannot be read is replaced only  *)
(* by a restoration the user asked for, with no process running on it.     *)
(*                                                                         *)
(* DataFile shows how the code keeps this with temporary files, renames    *)
(* and a backup.                                                           *)
(***************************************************************************)
CONSTANTS Snapshots,   \* the stores that decode and validate
          EmptyStore,  \* the one a missing file stands for
          Unreadable,  \* file contents that do not decode
          None         \* no file, or no process

VARIABLES live,   \* the snapshot the running process works with, or None
          saved   \* what data.json holds, or None

vars == <<live, saved>>

Init == live = None /\ saved = None

\* The snapshot a process that starts now would work with.
Loaded == IF saved = None THEN EmptyStore ELSE saved

InStep == live # None /\ live = Loaded

Load ==
    /\ live = None
    /\ saved \notin Unreadable
    /\ live' = Loaded
    /\ UNCHANGED saved

Save(s) ==
    /\ InStep
    /\ saved' = s
    /\ UNCHANGED live

Publish ==
    /\ live # None
    /\ saved \in Snapshots
    /\ live' = saved
    /\ UNCHANGED saved

Stop ==
    /\ live' = None
    /\ UNCHANGED saved

\* Something other than CopyNote makes the file unreadable.
Harm ==
    /\ saved \in Snapshots
    /\ saved' \in Unreadable
    /\ UNCHANGED live

Restore(s) ==
    /\ live = None
    /\ saved # None
    /\ saved' = s
    /\ UNCHANGED live

Next ==
    \/ Load
    \/ \E s \in Snapshots : Save(s) \/ Restore(s)
    \/ Publish
    \/ Stop
    \/ Harm

Spec == Init /\ [][Next]_vars

=============================================================================
