------------------------- MODULE EntryService -------------------------
(***************************************************************************)
(* The service that owns the entries and the settings (internal/service):  *)
(* every operation computes the next snapshot, has it saved, and publishes *)
(* it in memory only then; an operation on the settings also moves the     *)
(* sign-in registration of the operating system, before the save, and puts *)
(* it back when the save fails.                                            *)
(*                                                                         *)
(* The mutex is held from the first step of an operation to the last, so   *)
(* no two operations interleave; the process can stop between the steps.   *)
(* The save is one step here: DataFile shows that it either replaces the   *)
(* file or leaves it, and with POSIX renames may do the first and report   *)
(* the second.                                                             *)
(***************************************************************************)
EXTENDS Entries

CONSTANTS
    MaxEntries,   \* bound: entries in the list
    MaxImport,    \* bound: entries in an imported file
    Unset,        \* no settings in data.json; no store in memory; no file
    Unreadable,   \* a settings.json of an old version that does not decode
    Posix         \* see DataFile

ASSUME BoundsAssumption ==
    /\ MaxIds \in Nat /\ MaxEntries \in Nat \ {0, 1} /\ MaxImport \in Nat
    /\ Posix \in BOOLEAN
    /\ Unset \notin BOOLEAN /\ Unreadable \notin BOOLEAN \cup {Unset}

VARIABLES
    store,       \* the service's store, Unset when no process runs
    disk,        \* what data.json holds, Unset when there is none
    legacy,      \* what loadSettings(settings.json) gives
    registered,  \* whether the OS starts CopyNote at sign-in
    pc,          \* where the operation is
    op,          \* which operation it is
    next,        \* the snapshot it is to commit
    used         \* how many ids have been given

\* History: the last attempt to bring the registration in line with the
\* stored preference failed.
VARIABLE unaligned

vars == <<store, disk, legacy, registered, pc, op, next, used, unaligned>>

-----------------------------------------------------------------------------
\* Types

\* Of the settings only the sign-in preference matters to the service: the
\* others are saved and loaded with it.
Settings == BOOLEAN

DefaultSettings == FALSE

Snapshot(entries, settings) == [entries |-> entries, settings |-> settings]

NewStore == Snapshot(<<>>, Unset)

Operations == {"create", "update", "delete", "reorder", "import", "settings"}

IsEntry(e) ==
    /\ DOMAIN e = {"id", "text", "order"}
    /\ e.id \in 1..MaxIds /\ e.text \in Labels /\ e.order \in 0..(MaxEntries - 1)

IsSnapshot(s) ==
    /\ DOMAIN s = {"entries", "settings"}
    /\ \A i \in DOMAIN s.entries : IsEntry(s.entries[i])
    /\ Cardinality(Ids(s.entries)) = Len(s.entries)
    /\ s.settings \in Settings \cup {Unset}

TypeOK ==
    /\ \A s \in {store, disk, next} : s = Unset \/ IsSnapshot(s)
    /\ legacy = Unreadable \/ legacy \in Settings
    /\ registered \in BOOLEAN
    /\ pc \in {"down", "starting", "idle", "register", "save", "restore"}
    /\ op \in Operations \cup {"none"}
    /\ used \in 0..MaxIds
    /\ unaligned \in BOOLEAN

\* A first run, or one that finds the files of a version before data.json
\* held the settings.
Init ==
    /\ store = Unset
    /\ \/ /\ disk = Unset
          /\ used = 0
          /\ legacy \in {DefaultSettings, Unreadable}
       \/ /\ \E t, u \in Labels :
                disk = Snapshot(<<Entry(1, t, 1), Entry(2, u, 0)>>, Unset)
          /\ used = 2
          /\ legacy \in Settings \cup {Unreadable}
    /\ registered \in BOOLEAN
    /\ pc = "down"
    /\ op = "none"
    /\ next = Unset
    /\ unaligned = FALSE

-----------------------------------------------------------------------------
\* Helpers

\* loadSettingsLocked: the stored settings, or those of settings.json.
Effective(s) == IF s.settings = Unset THEN legacy ELSE s.settings

\* The start of an operation that commits the entries es with the settings set.
BeginEntries(kind, es) ==
    /\ pc = "idle"
    /\ Effective(store) # Unreadable
    /\ pc' = "save"
    /\ op' = kind
    /\ next' = Snapshot(es, Effective(store))
    /\ UNCHANGED <<store, disk, legacy, registered, unaligned>>

\* commitSettingsLocked: the registration first, if the preference changes.
BeginSettings(kind, es, set) ==
    /\ pc = "idle"
    /\ Effective(store) # Unreadable
    /\ pc' = IF Effective(store) # set THEN "register" ELSE "save"
    /\ op' = kind
    /\ next' = Snapshot(es, set)
    /\ UNCHANGED <<store, disk, legacy, registered, unaligned>>

\* The operation is over.
Finish ==
    /\ pc' = "idle"
    /\ op' = "none"
    /\ next' = Unset

\* The registration this operation had changed before its save.
HasRegistered == op \in {"import", "settings"}
                 /\ Effective(store) # next.settings

-----------------------------------------------------------------------------
\* Operations.  One that is refused for its arguments, or because the old
\* settings.json cannot be read, returns an error and changes nothing.

Create(text) ==
    /\ used < MaxIds /\ Len(store.entries) < MaxEntries
    /\ BeginEntries("create", Created(store.entries, used + 1, text))
    /\ used' = used + 1

Update(id, text) ==
    /\ BeginEntries("update", Updated(store.entries, id, text))
    /\ UNCHANGED used

Delete(id) ==
    /\ BeginEntries("delete", Deleted(store.entries, id))
    /\ UNCHANGED used

Reorder(ids) ==
    /\ IsReordering(store.entries, ids)
    /\ BeginEntries("reorder", Reordered(store.entries, ids))
    /\ UNCHANGED used

ImportData(file, set) ==
    LET es == Imported(store.entries, file, used + 1)
    IN  /\ Len(es) <= MaxEntries /\ used + Len(es) - Len(store.entries) <= MaxIds
        /\ BeginSettings("import", es, set)
        /\ used' = used + Len(es) - Len(store.entries)

\* SaveSettings, and UpdateSettings with the settings it computed.
SaveSettings(set) ==
    /\ BeginSettings("settings", store.entries, set)
    /\ UNCHANGED used

-----------------------------------------------------------------------------
\* The steps of a commit

Registers ==
    /\ pc = "register"
    /\ registered' = next.settings
    /\ pc' = "save"
    /\ unaligned' = FALSE
    /\ UNCHANGED <<store, disk, legacy, op, next, used>>

RegisterFails ==
    /\ pc = "register"
    /\ Finish
    /\ UNCHANGED <<store, disk, legacy, registered, used, unaligned>>

\* saveStore returns nil: publish.
Saves ==
    /\ pc = "save"
    /\ disk' = next
    /\ store' = next
    /\ Finish
    /\ UNCHANGED <<legacy, registered, used, unaligned>>

\* Mutant: the registration is left as the failed save had it.
SaveFailsUnrestored ==
    /\ pc = "save"
    /\ disk' \in IF Posix THEN {disk, next} ELSE {disk}
    /\ Finish
    /\ UNCHANGED <<store, legacy, registered, used, unaligned>>

SaveFails ==
    /\ pc = "save"
    /\ disk' \in IF Posix THEN {disk, next} ELSE {disk}
    /\ IF HasRegistered
       THEN pc' = "restore" /\ UNCHANGED <<op, next>>
       ELSE Finish
    /\ UNCHANGED <<store, legacy, registered, used, unaligned>>

\* The registration goes back to the preference that is still in force.
RestoresRegistration ==
    /\ pc = "restore"
    /\ \/ registered' = Effective(store) /\ unaligned' = FALSE
       \/ unaligned' = TRUE /\ UNCHANGED registered
    /\ Finish
    /\ UNCHANGED <<store, disk, legacy, used>>

-----------------------------------------------------------------------------
\* Starting and stopping

\* service.New; the files decode here (DataFile has the other cases).
Start ==
    /\ pc = "down"
    /\ store' = IF disk = Unset THEN NewStore ELSE disk
    /\ pc' = "starting"
    /\ UNCHANGED <<disk, legacy, registered, op, next, used, unaligned>>

EnsureAutorunPath ==
    /\ pc = "starting"
    /\ pc' = "idle"
    /\ \/ /\ Effective(store) # Unreadable
          /\ registered' = Effective(store)
          /\ unaligned' = FALSE
       \/ unaligned' = TRUE /\ UNCHANGED registered
    /\ UNCHANGED <<store, disk, legacy, op, next, used>>

\* The process is killed; the save it was in may have replaced the file.
Kill ==
    /\ pc # "down"
    /\ disk' \in IF pc = "save" THEN {disk, next} ELSE {disk}
    /\ store' = Unset
    /\ pc' = "down"
    /\ op' = "none"
    /\ next' = Unset
    /\ UNCHANGED <<legacy, registered, used, unaligned>>

-----------------------------------------------------------------------------
\* The files a backup may hold, up to the bound.
Files == UNION {[1..n -> Labels] : n \in 0..MaxImport}

Operate ==
    /\ pc = "idle"
    /\ \/ \E text \in Labels : Create(text)
       \/ \E id \in Ids(store.entries), text \in Labels : Update(id, text)
       \/ \E id \in Ids(store.entries) : Delete(id)
       \/ \E ids \in [DOMAIN store.entries -> Ids(store.entries)] : Reorder(ids)
       \/ \E file \in Files, set \in Settings : ImportData(file, set)
       \/ \E set \in Settings : SaveSettings(set)

Next ==
    \/ Operate
    \/ Registers \/ RegisterFails \/ Saves \/ SaveFails \/ RestoresRegistration
    \/ Start \/ EnsureAutorunPath \/ Kill

Spec == Init /\ [][Next]_vars

-----------------------------------------------------------------------------
\* Properties

\* After any sequence of operations the orders are 0, 1, 2, ... without a
\* gap or a repetition, in memory and in data.json (SPEC.md:108).
OrdersPacked == \A s \in {store, disk, next} \ {Unset} : Packed(s.entries)

\* Where an entry stands in the displayed list.
Position(es, id) == CHOOSE p \in DOMAIN es : Listed(es)[p].id = id

\* Only a reordering changes which of two entries is above the other; an
\* entry disappears only by Delete; a created one is at the top and imported
\* ones are below all that were there (Create, Update, Delete, ImportData).
ListKeepsItsOrder ==
    [][store # Unset /\ store' # Unset /\ op # "reorder" =>
        LET old == store.entries
            new == store'.entries
        IN  /\ \A x, y \in Ids(old) \cap Ids(new) :
                  Position(old, x) < Position(old, y) => Position(new, x) < Position(new, y)
            /\ Ids(old) \subseteq Ids(new) \/ op = "delete"
            /\ \A x \in Ids(new) \ Ids(old) :
                  IF op = "create" THEN Position(new, x) = 1
                  ELSE Position(new, x) > Len(old)]_vars

\* An import adds each text the list did not have exactly once and repeats
\* none it had (the merge README.md:29 describes).
ImportMerges ==
    [][op = "import" /\ pc = "save" /\ store' = next =>
        LET Count(es, t) == Cardinality({i \in DOMAIN es : es[i].text = t})
        IN  \A t \in Texts(store'.entries) :
               Count(store'.entries, t) =
                   IF t \in Texts(store.entries) THEN Count(store.entries, t) ELSE 1]_vars

\* Whenever no operation is running, the OS starts CopyNote at sign-in just
\* when the settings in force say so, however many saves failed and wherever
\* the process was killed; unless the last attempt to align them failed too.
AutorunFollowsSettings ==
    pc = "idle" /\ ~unaligned => registered = Effective(store)

\* The list a backup is taken of comes back from it as it was: importing it
\* into an empty CopyNote shows the same texts in the same order.
BackupKeepsTheList ==
    store # Unset /\ Cardinality(Texts(store.entries)) = Len(store.entries) =>
        Exported(Listed(Imported(<<>>, Exported(store.entries), 1)))
            = Exported(Listed(store.entries))

=============================================================================
