-------------------------- MODULE EntryProofs --------------------------
(***************************************************************************)
(* Theorems about the service (EntryService) and about the page's copy of  *)
(* its list (EntryPage), for any labels and any bounds.  ListProofs has    *)
(* what the operations do to a list.                                       *)
(*                                                                         *)
(* The page's copy, in short.  Every step is one of six kinds (Steps).     *)
(* The answers on their way fit what the page holds (Fresh); a listing     *)
(* that does not know of a reordering is followed by another               *)
(* (RefreshFollows); so, as long as no refresh is needed or on its way,    *)
(* what is on its way leads the page to the service's list, in the order   *)
(* the page last asked for (Converges).  When nothing is on its way, that  *)
(* is MirrorAgrees.  The menu and the mouse have invariants of their own   *)
(* (Menus, PressKnown).                                                    *)
(***************************************************************************)
EXTENDS EntryService, EntryPage, ListProofs

-----------------------------------------------------------------------------
\* The service

\* A snapshot whose list is well numbered and holds only ids already given.
Kept(s, u) == WellNumbered(s.entries) /\ Below(s.entries, u)

\* The inductive invariant: besides the snapshots themselves it must say
\* where there is one, since an operation starts from the published store
\* and a commit ends with the computed one.
ListsKept ==
    /\ used \in Nat
    /\ store = Unset \/ Kept(store, used)
    /\ disk = Unset \/ Kept(disk, used)
    /\ next = Unset \/ Kept(next, used)
    /\ pc # "down" => Kept(store, used)
    /\ pc \in {"register", "save", "restore"} => Kept(next, used)

LEMMA KeptGrows ==
    ASSUME NEW s, NEW u \in Nat, NEW v \in Nat, u <= v, Kept(s, u)
    PROVE  Kept(s, v)
<1>1. \A i \in DOMAIN s.entries : s.entries[i].id \in 1..v
    BY DEF Kept, Below
<1> QED
    BY <1>1 DEF Kept, Below

LEMMA ListsKeptInit == Init => ListsKept
<1> SUFFICES ASSUME Init PROVE ListsKept
    OBVIOUS
<1>1. CASE disk = Unset /\ used = 0
    BY <1>1 DEF Init, ListsKept
<1>2. CASE used = 2 /\ \E t, v \in Labels :
                            disk = Snapshot(<<Entry(1, t, 1), Entry(2, v, 0)>>, Unset)
    <2>1. PICK t \in Labels, v \in Labels :
              disk = Snapshot(<<Entry(1, t, 1), Entry(2, v, 0)>>, Unset)
        BY <1>2
    <2>2. disk.entries = <<Entry(1, t, 1), Entry(2, v, 0)>>
        BY <2>1 DEF Snapshot
    <2>3. WellNumbered(disk.entries) /\ Below(disk.entries, 2)
        BY <2>2, FirstList
    <2> QED
        BY <1>2, <2>3 DEF Init, ListsKept, Kept
<1> QED
    BY <1>1, <1>2 DEF Init

\* An operation computes a well numbered list and gives ids that are new.
LEMMA OperateKeeps ==
    ASSUME ListsKept, Operate
    PROVE  ListsKept'
<1>1. /\ used \in Nat /\ pc = "idle" /\ Kept(store, used)
      /\ WellNumbered(store.entries) /\ Below(store.entries, used)
    BY DEF Operate, ListsKept, Kept
<1>2. ASSUME NEW es, NEW u \in Nat, used <= u, WellNumbered(es), Below(es, u),
             next'.entries = es, used' = u,
             pc' \in {"register", "save"}, UNCHANGED <<store, disk>>
      PROVE  ListsKept'
    <2>1. Kept(store, u) /\ (disk = Unset \/ Kept(disk, u))
        BY <1>1, <1>2, KeptGrows DEF ListsKept
    <2>2. Kept(next', u)
        BY <1>2 DEF Kept
    <2> QED
        BY <2>1, <2>2, <1>2 DEF ListsKept
<1>3. ASSUME NEW kind, NEW es, BeginEntries(kind, es)
      PROVE  next'.entries = es /\ pc' = "save" /\ UNCHANGED <<store, disk>>
    BY <1>3 DEF BeginEntries, Snapshot
<1>4. ASSUME NEW kind, NEW es, NEW set, BeginSettings(kind, es, set)
      PROVE  next'.entries = es /\ pc' \in {"register", "save"} /\ UNCHANGED <<store, disk>>
    BY <1>4 DEF BeginSettings, Snapshot
<1>5. ASSUME NEW text \in Labels, Create(text)
      PROVE  ListsKept'
    <2> DEFINE es == Created(store.entries, used + 1, text)
    <2>1. BeginEntries("create", es) /\ used' = used + 1
        BY <1>5 DEF Create
    <2>2. WellNumbered(es) /\ Below(es, used + 1)
        BY <1>1, CreatedKeeps
    <2> HIDE DEF es
    <2> QED
        BY <2>1, <2>2, <1>1, <1>2, <1>3
<1>6. ASSUME NEW id \in Ids(store.entries), NEW text \in Labels, Update(id, text)
      PROVE  ListsKept'
    <2> DEFINE es == Updated(store.entries, id, text)
    <2>1. BeginEntries("update", es) /\ used' = used
        BY <1>6 DEF Update
    <2>2. WellNumbered(es) /\ Below(es, used)
        BY <1>1, UpdatedKeeps
    <2> HIDE DEF es
    <2> QED
        BY <2>1, <2>2, <1>1, <1>2, <1>3
<1>7. ASSUME NEW id \in Ids(store.entries), Delete(id)
      PROVE  ListsKept'
    <2> DEFINE es == Deleted(store.entries, id)
    <2>1. BeginEntries("delete", es) /\ used' = used
        BY <1>7 DEF Delete
    <2>2. WellNumbered(es) /\ Below(es, used)
        BY <1>1, DeletedKeeps
    <2> HIDE DEF es
    <2> QED
        BY <2>1, <2>2, <1>1, <1>2, <1>3
<1>8. ASSUME NEW ids \in [DOMAIN store.entries -> Ids(store.entries)], Reorder(ids)
      PROVE  ListsKept'
    <2> DEFINE es == Reordered(store.entries, ids)
    <2>1. BeginEntries("reorder", es) /\ used' = used /\ IsReordering(store.entries, ids)
        BY <1>8 DEF Reorder
    <2>2. WellNumbered(es) /\ Below(es, used)
        BY <1>1, <2>1, ReorderedKeeps
    <2> HIDE DEF es
    <2> QED
        BY <2>1, <2>2, <1>1, <1>2, <1>3
<1>9. ASSUME NEW file \in Files, NEW set \in Settings, ImportData(file, set)
      PROVE  ListsKept'
    <2> DEFINE es == Imported(store.entries, file, used + 1)
               more == Len(es) - Len(store.entries)
    <2>1. PICK c \in 0..MaxImport : file \in [1..c -> Labels]
        BY DEF Files
    <2>2. c \in Nat
        BY BoundsAssumption
    <2>3. more \in Nat /\ WellNumbered(es) /\ Below(es, used + more)
        BY <1>1, <2>1, <2>2, ImportedKeeps
    <2>4. BeginSettings("import", es, set) /\ used' = used + Len(es) - Len(store.entries)
        BY <1>9 DEF ImportData
    <2>5. Len(es) \in Int /\ Len(store.entries) \in Int
        BY <1>1, <2>3, RowFacts DEF WellNumbered
    <2> HIDE DEF es
    <2>6. used' = used + more /\ used + more \in Nat /\ used <= used + more
        BY <1>1, <2>3, <2>4, <2>5
    <2> QED
        BY <2>3, <2>4, <2>6, <1>2, <1>4
<1>10. ASSUME NEW set \in Settings, SaveSettings(set)
       PROVE  ListsKept'
    <2>1. BeginSettings("settings", store.entries, set) /\ used' = used
        BY <1>10 DEF SaveSettings
    <2> QED
        BY <2>1, <1>1, <1>2, <1>4
<1> QED
    BY <1>5, <1>6, <1>7, <1>8, <1>9, <1>10 DEF Operate

LEMMA ListsKeptStep == ListsKept /\ [Next]_vars => ListsKept'
<1> SUFFICES ASSUME ListsKept, [Next]_vars
             PROVE  ListsKept'
    OBVIOUS
<1>1. CASE Operate
    BY <1>1, OperateKeeps
<1>2. CASE Registers
    BY <1>2 DEF ListsKept, Registers
<1>3. CASE RegisterFails
    BY <1>3 DEF ListsKept, RegisterFails, Finish
<1>4. CASE Saves
    BY <1>4 DEF ListsKept, Saves, Finish
<1>5. CASE SaveFails
    BY <1>5 DEF ListsKept, SaveFails, Finish
<1>6. CASE RestoresRegistration
    BY <1>6 DEF ListsKept, RestoresRegistration, Finish
<1>7. CASE Start
    <2>1. Kept(NewStore, used)
        <3>1. NewStore.entries = <<>>
            BY DEF NewStore, Snapshot
        <3> QED
            BY <3>1 DEF Kept, WellNumbered, Below, UniqueIds, UniqueOrders
    <2> QED
        BY <1>7, <2>1 DEF ListsKept, Start
<1>8. CASE EnsureAutorunPath
    BY <1>8 DEF ListsKept, EnsureAutorunPath
<1>9. CASE Kill
    BY <1>9 DEF ListsKept, Kill
<1>10. CASE UNCHANGED vars
    BY <1>10 DEF ListsKept, vars
<1> QED
    BY <1>1, <1>2, <1>3, <1>4, <1>5, <1>6, <1>7, <1>8, <1>9, <1>10 DEF Next

\* The orders of every list the service holds, computes or saves are 0, 1,
\* 2, ... each of them once, whatever operations came before and wherever
\* the process was stopped (Create, Reorder, Delete, ImportData).
THEOREM EntryOrdersPacked == Spec => []OrdersPacked
<1>1. ListsKept => OrdersPacked
    <2> SUFFICES ASSUME ListsKept, NEW s \in {store, disk, next} \ {Unset}
                 PROVE  Packed(s.entries)
        BY DEF OrdersPacked
    <2>1. WellNumbered(s.entries)
        BY DEF ListsKept, Kept
    <2> QED
        BY <2>1, Filled
<1> QED
    BY <1>1, ListsKeptInit, ListsKeptStep, PTL DEF Spec

-----------------------------------------------------------------------------
\* The registration

\* Where an operation is with the registration: it is already the one to be
\* committed when the save runs, and that differs from the one in force only
\* for an operation that puts it back when the save fails.
AutorunInv ==
    /\ legacy \in BOOLEAN \cup {Unreadable}
    /\ disk = Unset \/ disk.settings \in BOOLEAN \cup {Unset}
    /\ pc \in {"down", "starting", "idle", "register", "save", "restore"}
    /\ pc # "down" => store.settings \in BOOLEAN \cup {Unset}
    /\ pc \in {"register", "save", "restore"} => next.settings \in BOOLEAN
    /\ pc \in {"idle", "register"} /\ ~unaligned => registered = Effective(store)
    /\ pc = "save" /\ ~unaligned => registered = next.settings
    /\ pc = "register" => op \in {"import", "settings"}
    /\ pc = "save" /\ op \notin {"import", "settings"} => Effective(store) = next.settings
    /\ pc \in {"register", "save", "restore"} => Effective(store) # Unreadable

LEMMA BeginKeepsAutorun ==
    ASSUME AutorunInv, Operate
    PROVE  AutorunInv'
<1>1. /\ pc = "idle" /\ store.settings \in BOOLEAN \cup {Unset}
      /\ Effective(store) \in BOOLEAN \cup {Unreadable}
    BY DEF Operate, AutorunInv, Effective
<1>2. ASSUME NEW kind, NEW es, BeginEntries(kind, es)
      PROVE  AutorunInv'
    <2>1. next'.settings = Effective(store) /\ Effective(store) \in BOOLEAN
        BY <1>1, <1>2 DEF BeginEntries, Snapshot
    <2>2. Effective(store)' = Effective(store)
        BY <1>2 DEF BeginEntries, Effective
    <2> QED
        BY <1>1, <1>2, <2>1, <2>2 DEF BeginEntries, AutorunInv
<1>3. ASSUME NEW kind \in {"import", "settings"}, NEW es, NEW set \in Settings,
             BeginSettings(kind, es, set)
      PROVE  AutorunInv'
    <2>1. next'.settings = set /\ set \in BOOLEAN
        BY <1>3 DEF BeginSettings, Snapshot, Settings
    <2>2. Effective(store)' = Effective(store)
        BY <1>3 DEF BeginSettings, Effective
    <2>3. CASE Effective(store) # set
        BY <1>1, <1>3, <2>1, <2>2, <2>3 DEF BeginSettings, AutorunInv
    <2>4. CASE Effective(store) = set
        BY <1>1, <1>3, <2>1, <2>2, <2>4 DEF BeginSettings, AutorunInv
    <2> QED
        BY <2>3, <2>4
<1> QED
    BY <1>2, <1>3 DEF Operate, Create, Update, Delete, Reorder, ImportData, SaveSettings

LEMMA AutorunInit == Init => AutorunInv
<1> SUFFICES ASSUME Init PROVE AutorunInv
    OBVIOUS
<1>1. legacy \in BOOLEAN \cup {Unreadable}
    BY DEF Init, Settings, DefaultSettings
<1>2. disk = Unset \/ disk.settings = Unset
    BY DEF Init, Snapshot
<1> QED
    BY <1>1, <1>2 DEF Init, AutorunInv

LEMMA AutorunStep == AutorunInv /\ [Next]_vars => AutorunInv'
<1> SUFFICES ASSUME AutorunInv, [Next]_vars
             PROVE  AutorunInv'
    OBVIOUS
<1>1. CASE Operate
    BY <1>1, BeginKeepsAutorun
<1>2. CASE Registers
    BY <1>2 DEF AutorunInv, Registers, Effective
<1>3. CASE RegisterFails
    BY <1>3 DEF AutorunInv, RegisterFails, Finish, Effective
<1>4. CASE Saves
    <2>1. next.settings # Unset
        BY <1>4, BoundsAssumption DEF AutorunInv, Saves
    <2> QED
        BY <1>4, <2>1 DEF AutorunInv, Saves, Finish, Effective
<1>5. CASE SaveFails
    <2>1. /\ pc = "save" /\ store.settings \in BOOLEAN \cup {Unset}
          /\ UNCHANGED <<store, legacy, registered, unaligned>>
          /\ disk' = disk \/ disk' = next
        BY <1>5 DEF AutorunInv, SaveFails
    <2>2. Effective(store)' = Effective(store)
        BY <2>1 DEF Effective
    <2>3. disk' = Unset \/ disk'.settings \in BOOLEAN \cup {Unset}
        BY <2>1 DEF AutorunInv
    <2>4. CASE HasRegistered
        <3>1. pc' = "restore" /\ next' = next
            BY <1>5, <2>4 DEF SaveFails
        <3> QED
            BY <2>1, <2>2, <2>3, <3>1 DEF AutorunInv
    <2>5. CASE ~HasRegistered
        <3>1. pc' = "idle"
            BY <1>5, <2>5 DEF SaveFails, Finish
        <3>2. Effective(store) = next.settings
            BY <2>1, <2>5 DEF AutorunInv, HasRegistered
        <3> QED
            BY <2>1, <2>2, <2>3, <3>1, <3>2 DEF AutorunInv
    <2> QED
        BY <2>4, <2>5
<1>6. CASE RestoresRegistration
    BY <1>6 DEF AutorunInv, RestoresRegistration, Finish, Effective
<1>7. CASE Start
    BY <1>7 DEF AutorunInv, Start, NewStore, Snapshot
<1>8. CASE EnsureAutorunPath
    BY <1>8 DEF AutorunInv, EnsureAutorunPath, Effective
<1>9. CASE Kill
    BY <1>9 DEF AutorunInv, Kill
<1>10. CASE UNCHANGED vars
    BY <1>10 DEF AutorunInv, vars, Effective
<1> QED
    BY <1>1, <1>2, <1>3, <1>4, <1>5, <1>6, <1>7, <1>8, <1>9, <1>10 DEF Next

\* When no operation runs, the sign-in registration agrees with the settings
\* in force, whatever saves failed on the way, unless the last attempt to
\* bring it back failed (commitSettingsLocked, EnsureAutorunPath).
THEOREM EntryAutorunFollowsSettings == Spec => []AutorunFollowsSettings
<1>1. AutorunInv => AutorunFollowsSettings
    BY DEF AutorunInv, AutorunFollowsSettings
<1> QED
    BY <1>1, AutorunInit, AutorunStep, PTL DEF Spec

-----------------------------------------------------------------------------
\* What an operation makes of the displayed list

LEMMA PositionOf ==
    ASSUME NEW es, WellNumbered(es), NEW i \in DOMAIN es
    PROVE  Position(es, es[i].id) = es[i].order + 1 /\ es[i].order \in Int
<1> DEFINE l == Listed(es)
           m == es[i].order + 1
<1>1. /\ DOMAIN es = 1..Len(es) /\ Len(es) \in Nat /\ DOMAIN l = 1..Len(es)
      /\ UniqueIds(l) /\ l[m] = es[i]
    BY ListedByOrder, RowFacts DEF WellNumbered
<1>2. es[i].order \in 0..(Len(es) - 1)
    BY DEF WellNumbered
<1>3. m \in DOMAIN l
    BY <1>1, <1>2
<1>4. \A p \in DOMAIN l : l[p].id = es[i].id => p = m
    BY <1>1, <1>3 DEF UniqueIds
<1> HIDE DEF m
<1>5. (CHOOSE p \in DOMAIN l : l[p].id = es[i].id) = m
    BY <1>1, <1>3, <1>4
<1>6. \A p : p \in DOMAIN es <=> p \in DOMAIN l
    BY <1>1
<1>7. Position(es, es[i].id) = m
    BY <1>5, <1>1 DEF Position
<1> QED
    BY <1>2, <1>7 DEF m

\* Of two entries that both lists have, the same is above the other.
SameOrder(old, new) ==
    \A x, y \in Ids(old) \cap Ids(new) :
        Position(old, x) < Position(old, y) => Position(new, x) < Position(new, y)

\* What ListKeepsItsOrder says of an operation.
Orderly(kind, old, new) ==
    /\ SameOrder(old, new)
    /\ Ids(old) \subseteq Ids(new) \/ kind = "delete"
    /\ \A x \in Ids(new) \ Ids(old) :
          IF kind = "create" THEN Position(new, x) = 1 ELSE Position(new, x) > Len(old)

LEMMA SameOrderByRows ==
    ASSUME NEW old, WellNumbered(old), NEW new, WellNumbered(new),
           \A i, j \in DOMAIN old : \A p, q \in DOMAIN new :
               new[p].id = old[i].id /\ new[q].id = old[j].id /\ old[i].order < old[j].order
                   => new[p].order < new[q].order
    PROVE  SameOrder(old, new)
<1> SUFFICES ASSUME NEW x \in Ids(old) \cap Ids(new), NEW y \in Ids(old) \cap Ids(new),
                    Position(old, x) < Position(old, y)
             PROVE  Position(new, x) < Position(new, y)
    BY DEF SameOrder
<1>1. PICK i \in DOMAIN old, j \in DOMAIN old : old[i].id = x /\ old[j].id = y
    BY DEF Ids
<1>2. PICK p \in DOMAIN new, q \in DOMAIN new : new[p].id = x /\ new[q].id = y
    BY DEF Ids
<1>3. /\ Position(old, x) = old[i].order + 1 /\ old[i].order \in Int
      /\ Position(old, y) = old[j].order + 1 /\ old[j].order \in Int
    BY <1>1, PositionOf
<1>4. /\ Position(new, x) = new[p].order + 1 /\ new[p].order \in Int
      /\ Position(new, y) = new[q].order + 1 /\ new[q].order \in Int
    BY <1>2, PositionOf
<1>5. old[i].order < old[j].order
    BY <1>3
<1>6. new[p].order < new[q].order
    BY <1>1, <1>2, <1>5
<1> QED
    BY <1>4, <1>6

LEMMA SameIsOrderly ==
    ASSUME NEW kind, NEW es
    PROVE  Orderly(kind, es, es)
    BY DEF Orderly, SameOrder

LEMMA CreatedOrderly ==
    ASSUME NEW es, WellNumbered(es), NEW u \in Nat, Below(es, u), NEW text \in Labels
    PROVE  Orderly("create", es, Created(es, u + 1, text))
<1> DEFINE n == Len(es)
           new == Created(es, u + 1, text)
<1>1. /\ DOMAIN es = 1..n /\ n \in Nat /\ \A i \in 1..n : es[i].order \in Int
    BY RowFacts DEF WellNumbered
<1>2. /\ DOMAIN new = 1..(n + 1)
      /\ \A i \in 1..n : new[i].id = es[i].id /\ new[i].order = es[i].order + 1
      /\ new[n + 1] = Entry(u + 1, text, 0)
    BY CreatedRows
<1>3. WellNumbered(new)
    BY CreatedKeeps
<1> HIDE DEF n, new
<1>4. /\ \A i \in 1..n : i \in 1..(n + 1)
      /\ \A p \in 1..(n + 1) : p \in 1..n \/ p = n + 1
      /\ n + 1 \in 1..(n + 1)
    BY <1>1
<1>5. new[n + 1].id = u + 1 /\ new[n + 1].order = 0
    BY <1>2 DEF Entry
<1>6. SameOrder(es, new)
    <2>1. \A i \in 1..n, p \in DOMAIN new : new[p].id = es[i].id => p = i
        BY <1>2, <1>3, <1>4 DEF WellNumbered, UniqueIds
    <2>2. \A i, j \in DOMAIN es : \A p, q \in DOMAIN new :
              new[p].id = es[i].id /\ new[q].id = es[j].id /\ es[i].order < es[j].order
                  => new[p].order < new[q].order
        BY SMTT(60), <2>1, <1>1, <1>2
    <2> QED
        BY <2>2, <1>3, SameOrderByRows
<1>7. Ids(es) \subseteq Ids(new)
    BY <1>1, <1>2, <1>4 DEF Ids
<1>8. ASSUME NEW x \in Ids(new) \ Ids(es)
      PROVE  Position(new, x) = 1
    <2>1. PICK p \in 1..(n + 1) : new[p].id = x
        BY <1>2 DEF Ids
    <2>2. p = n + 1
        BY <2>1, <1>1, <1>2, <1>4, <1>8 DEF Ids
    <2>3. Position(new, x) = new[n + 1].order + 1
        BY <2>1, <2>2, <1>2, <1>3, PositionOf
    <2> QED
        BY <2>3, <1>5
<1> QED
    BY <1>6, <1>7, <1>8 DEF Orderly, new

LEMMA UpdatedOrderly ==
    ASSUME NEW es, WellNumbered(es), NEW u \in Nat, Below(es, u),
           NEW id \in Ids(es), NEW text \in Labels
    PROVE  Orderly("update", es, Updated(es, id, text))
<1> DEFINE new == Updated(es, id, text)
<1>1. /\ DOMAIN new = DOMAIN es
      /\ \A i \in DOMAIN es : new[i].id = es[i].id /\ new[i].order = es[i].order
    BY UpdatedRows
<1>2. WellNumbered(new)
    BY UpdatedKeeps
<1> HIDE DEF new
<1>3. Ids(new) = Ids(es)
    BY <1>1 DEF Ids
<1>4. \A i \in DOMAIN es, p \in DOMAIN new : new[p].id = es[i].id => p = i
    BY <1>1 DEF WellNumbered, UniqueIds
<1>5. \A i, j \in DOMAIN es : \A p, q \in DOMAIN new :
          new[p].id = es[i].id /\ new[q].id = es[j].id /\ es[i].order < es[j].order
              => new[p].order < new[q].order
    BY <1>1, <1>4
<1>6. SameOrder(es, new)
    BY <1>2, <1>5, SameOrderByRows
<1> QED
    BY <1>3, <1>6 DEF Orderly, new

LEMMA DeletedOrderly ==
    ASSUME NEW es, WellNumbered(es), NEW u \in Nat, Below(es, u), NEW id \in Ids(es)
    PROVE  Orderly("delete", es, Deleted(es, id))
<1> DEFINE n == Len(es)
           k == At(es, id)
           new == Deleted(es, id)
           at(i) == IF es[i].order < es[k].order THEN es[i].order + 1 ELSE es[i].order
<1>1. /\ DOMAIN es = 1..n /\ n \in Nat
      /\ \A i \in 1..n : es[i].order \in 0..(n - 1) /\ es[i].order \in Int
      /\ \A i, j \in 1..n : es[i].id = es[j].id => i = j
      /\ \A i, j \in 1..n : es[i].order = es[j].order => i = j
    BY RowFacts DEF WellNumbered, UniqueIds, UniqueOrders
<1>2. k \in 1..n /\ es[k].id = id
    BY <1>1, Found
<1>3. /\ DOMAIN new = 1..(n - 1)
      /\ \A i \in DOMAIN es \ {k} : /\ at(i) \in 1..(n - 1)
                                    /\ new[at(i)].id = es[i].id
                                    /\ new[at(i)].order = at(i) - 1
    BY DeletedRows
<1>4. WellNumbered(new)
    BY DeletedKeeps
<1> HIDE DEF n, k, new
<1>5. ASSUME NEW p \in 1..(n - 1)
      PROVE  \E i \in 1..n \ {k} : at(i) = p
    <2> DEFINE r == IF p <= es[k].order THEN p - 1 ELSE p
    <2>1. r + 1 \in 1..n /\ r # es[k].order /\ (r + 1) - 1 = r
        BY <1>1, <1>2
    <2>2. Packed(es)
        BY Filled
    <2> HIDE DEF r
    <2>3. PICK i \in DOMAIN es : es[i].order = r
        BY <2>1, <2>2 DEF Packed, n
    <2>4. i \in 1..n \ {k}
        BY <2>1, <2>3, <1>1
    <2>5. at(i) = p
        BY <2>3, <1>1, <1>2 DEF r
    <2> QED
        BY <2>4, <2>5
<1>6. \A i \in 1..n, p \in DOMAIN new : new[p].id = es[i].id => i # k /\ p = at(i)
    <2> SUFFICES ASSUME NEW i \in 1..n, NEW p \in DOMAIN new, new[p].id = es[i].id
                 PROVE  i # k /\ p = at(i)
        OBVIOUS
    <2>1. PICK j \in 1..n \ {k} : at(j) = p
        BY <1>3, <1>5
    <2>2. es[j].id = es[i].id
        BY <2>1, <1>1, <1>3
    <2> QED
        BY <2>1, <2>2, <1>1
<1>7. \A i, j \in DOMAIN es : \A p, q \in DOMAIN new :
          new[p].id = es[i].id /\ new[q].id = es[j].id /\ es[i].order < es[j].order
              => new[p].order < new[q].order
    <2> SUFFICES ASSUME NEW i \in DOMAIN es, NEW j \in DOMAIN es,
                        NEW p \in DOMAIN new, NEW q \in DOMAIN new,
                        new[p].id = es[i].id, new[q].id = es[j].id, es[i].order < es[j].order
                 PROVE  new[p].order < new[q].order
        OBVIOUS
    <2>1. i # k /\ p = at(i) /\ j # k /\ q = at(j)
        BY <1>1, <1>6
    <2>2. new[p].order = at(i) - 1 /\ new[q].order = at(j) - 1
        BY <2>1, <1>3
    <2>3. es[j].order # es[k].order /\ es[i].order # es[k].order
        BY <2>1, <1>1, <1>2
    <2>4. at(i) < at(j)
        BY SMTT(60), <2>3, <1>1, <1>2
    <2>5. at(i) \in Int /\ at(j) \in Int
        BY <1>1
    <2> HIDE DEF at
    <2> QED
        BY <2>2, <2>4, <2>5
<1>8. SameOrder(es, new)
    BY <1>4, <1>7, SameOrderByRows
<1>9. Ids(new) \subseteq Ids(es)
    <2> SUFFICES ASSUME NEW p \in 1..(n - 1)
                 PROVE  new[p].id \in Ids(es)
        BY <1>3 DEF Ids
    <2>1. PICK i \in 1..n \ {k} : at(i) = p
        BY <1>5
    <2>2. new[p].id = es[i].id
        BY <2>1, <1>1, <1>3
    <2> QED
        BY <2>2, <1>1 DEF Ids
<1> QED
    BY <1>8, <1>9 DEF Orderly, new

LEMMA ImportedOrderly ==
    ASSUME NEW es, WellNumbered(es), NEW u \in Nat, Below(es, u),
           NEW c \in Nat, NEW file \in [1..c -> Labels]
    PROVE  Orderly("import", es, Imported(es, file, u + 1))
<1> DEFINE n == Len(es)
           S == NewPlaces(es, file)
           a == Cardinality(S)
           new == Imported(es, file, u + 1)
<1>1. DOMAIN es = 1..n /\ n \in Nat
    BY RowFacts DEF WellNumbered
<1>2. /\ a \in Nat /\ DOMAIN new = 1..(n + a)
      /\ \A i \in 1..n : new[i] = es[i]
      /\ \A m \in 1..a : /\ Nth(S, m) \in S
                         /\ new[n + m] = Entry(u + m, file[Nth(S, m)], n - 1 + m)
      /\ \A k \in S : \E m \in 1..a : Nth(S, m) = k
    <2>1. ImportRows(es, file, u, Imported(es, file, u + 1))
        BY ImportedRows
    <2> QED
        BY <2>1 DEF ImportRows
<1>3. WellNumbered(new)
    BY ImportedKeeps
<1> HIDE DEF n, S, a, new
<1>4. /\ \A i \in 1..n : i \in 1..(n + a)
      /\ \A p \in 1..(n + a) : p \in 1..n \/ (p - n \in 1..a /\ n + (p - n) = p)
    BY <1>1, <1>2
<1>5. \A i \in 1..n, p \in DOMAIN new : new[p].id = es[i].id => p = i
    BY <1>2, <1>3, <1>4 DEF WellNumbered, UniqueIds
<1>6. \A i, j \in DOMAIN es : \A p, q \in DOMAIN new :
          new[p].id = es[i].id /\ new[q].id = es[j].id /\ es[i].order < es[j].order
              => new[p].order < new[q].order
    BY <1>1, <1>2, <1>5
<1>7. SameOrder(es, new)
    BY <1>3, <1>6, SameOrderByRows
<1>8. Ids(es) \subseteq Ids(new)
    BY <1>1, <1>2, <1>4 DEF Ids
<1>9. ASSUME NEW x \in Ids(new) \ Ids(es)
      PROVE  Position(new, x) > n
    <2>1. PICK p \in 1..(n + a) : new[p].id = x
        BY <1>2 DEF Ids
    <2>2. p \notin 1..n
        BY <2>1, <1>1, <1>2, <1>9 DEF Ids
    <2> DEFINE m == p - n
    <2>3. m \in 1..a /\ n + m = p
        BY <2>2, <1>4
    <2>4. new[p] = Entry(u + m, file[Nth(S, m)], n - 1 + m)
        BY <2>3, <1>2
    <2>5. Position(new, x) = new[p].order + 1
        BY <2>1, <1>2, <1>3, PositionOf
    <2>6. Position(new, x) = (n - 1 + m) + 1
        BY <2>4, <2>5 DEF Entry
    <2> QED
        BY <2>3, <2>6, <1>1, <1>2
<1> QED
    BY <1>7, <1>8, <1>9 DEF Orderly, new, n

TextCount(es, t) == Cardinality({i \in DOMAIN es : es[i].text = t})

\* What ImportMerges says of an import.
Merged(old, new) ==
    \A t \in Texts(new) :
        TextCount(new, t) = IF t \in Texts(old) THEN TextCount(old, t) ELSE 1

LEMMA ImportedMerges ==
    ASSUME NEW es, WellNumbered(es), NEW u \in Nat,
           NEW c \in Nat, NEW file \in [1..c -> Labels]
    PROVE  Merged(es, Imported(es, file, u + 1))
<1> DEFINE n == Len(es)
           S == NewPlaces(es, file)
           a == Cardinality(S)
           new == Imported(es, file, u + 1)
<1>1. DOMAIN es = 1..n /\ n \in Nat
    BY RowFacts DEF WellNumbered
<1>2. /\ a \in Nat /\ DOMAIN new = 1..(n + a)
      /\ \A i \in 1..n : new[i] = es[i]
      /\ \A m \in 1..a : /\ Nth(S, m) \in S
                         /\ new[n + m] = Entry(u + m, file[Nth(S, m)], n - 1 + m)
      /\ \A k \in S : \E m \in 1..a : Nth(S, m) = k
    <2>1. ImportRows(es, file, u, Imported(es, file, u + 1))
        BY ImportedRows
    <2> QED
        BY <2>1 DEF ImportRows
<1>3. \A m, k \in 1..a : m # k => Nth(S, m) # Nth(S, k)
    <2>1. file \in Seq(Labels) /\ S \in SUBSET (1..Len(file))
        BY DEF NewPlaces
    <2>2. \A m, k \in 1..Cardinality(S) : m < k => Nth(S, m) < Nth(S, k)
        BY <2>1, PickedFrom
    <2>3. \A m \in 1..Cardinality(S) : Nth(S, m) \in Int
        BY <2>1, PickedFrom
    <2> HIDE DEF S
    <2> SUFFICES ASSUME NEW m \in 1..a, NEW k \in 1..a, m # k
                 PROVE  Nth(S, m) # Nth(S, k)
        OBVIOUS
    <2>4. m < k \/ k < m
        BY <1>2
    <2> QED
        BY <2>2, <2>3, <2>4
<1>4. \A k \in S : file[k] \notin Texts(es) /\ k \in 1..c /\ \A j \in 1..(k - 1) : file[j] # file[k]
    BY DEF NewPlaces, IsNew
<1>5. \A k, j \in S : file[k] = file[j] => k = j
    <2> SUFFICES ASSUME NEW k \in S, NEW j \in S, file[k] = file[j], k # j
                 PROVE  FALSE
        OBVIOUS
    <2> HIDE DEF S
    <2>1. j \in 1..(k - 1) \/ k \in 1..(j - 1)
        BY <1>4
    <2> QED
        BY <2>1, <1>4
<1> HIDE DEF n, S, a, new
<1>6. /\ \A i \in 1..n : i \in 1..(n + a)
      /\ \A p \in 1..(n + a) : p \in 1..n \/ (p - n \in 1..a /\ n + (p - n) = p)
      /\ \A m \in 1..a : n + m \in 1..(n + a)
    BY <1>1, <1>2
<1>7. \A m \in 1..a : new[n + m].text = file[Nth(S, m)]
    <2> SUFFICES ASSUME NEW m \in 1..a
                 PROVE  new[n + m].text = file[Nth(S, m)]
        OBVIOUS
    <2>1. new[n + m] = Entry(u + m, file[Nth(S, m)], n - 1 + m)
        BY <1>2
    <2> QED
        BY <2>1 DEF Entry
<1>8. ASSUME NEW t \in Texts(new), t \in Texts(es)
      PROVE  TextCount(new, t) = TextCount(es, t)
    <2>1. ASSUME NEW p \in 1..(n + a), new[p].text = t
          PROVE  p \in 1..n
        <3> SUFFICES ASSUME p \notin 1..n
                     PROVE  FALSE
            OBVIOUS
        <3>1. p - n \in 1..a /\ n + (p - n) = p
            BY <1>6
        <3>2. file[Nth(S, p - n)] = t
            BY <2>1, <3>1, <1>7
        <3>3. Nth(S, p - n) \in S
            BY <3>1, <1>2
        <3> QED
            BY <1>8, <3>2, <3>3, <1>4
    <2>2. {i \in DOMAIN new : new[i].text = t} = {i \in DOMAIN es : es[i].text = t}
        BY <2>1, <1>1, <1>2, <1>6
    <2> QED
        BY <2>2 DEF TextCount
<1>9. ASSUME NEW t \in Texts(new), t \notin Texts(es)
      PROVE  TextCount(new, t) = 1
    <2>1. PICK p \in 1..(n + a) : new[p].text = t
        BY <1>2 DEF Texts
    <2>2. \A q \in 1..n : new[q].text # t
        BY <1>1, <1>2, <1>9 DEF Texts
    <2>3. ASSUME NEW q \in 1..(n + a), new[q].text = t
          PROVE  q = p
        <3>1. p - n \in 1..a /\ q - n \in 1..a /\ n + (p - n) = p /\ n + (q - n) = q
            BY <2>1, <2>2, <2>3, <1>6
        <3>2. file[Nth(S, p - n)] = t /\ file[Nth(S, q - n)] = t
            BY <2>1, <2>3, <3>1, <1>7
        <3>3. p - n = q - n
            BY <3>1, <3>2, <1>2, <1>3, <1>5
        <3> QED
            BY <3>1, <3>3
    <2>4. {i \in DOMAIN new : new[i].text = t} = {p}
        BY <2>1, <2>3, <1>2
    <2> QED
        BY <2>4, FS_Singleton DEF TextCount
<1> QED
    BY <1>8, <1>9 DEF Merged, new

\* Until an operation is over, the list it is to commit is in order with the
\* one it started from, which stays the one in force.
Underway ==
    /\ pc = "down" => store = Unset
    /\ pc \in {"register", "save", "restore"} =>
          /\ op # "reorder" => Orderly(op, store.entries, next.entries)
          /\ op = "import" => Merged(store.entries, next.entries)

LEMMA OperateUnderway ==
    ASSUME ListsKept, Operate
    PROVE  Underway'
<1>1. /\ used \in Nat /\ pc = "idle"
      /\ WellNumbered(store.entries) /\ Below(store.entries, used)
    BY DEF Operate, ListsKept, Kept
<1>2. ASSUME NEW kind, NEW es, pc' \in {"register", "save"}, op' = kind, next'.entries = es,
             UNCHANGED store,
             kind # "reorder" => Orderly(kind, store.entries, es),
             kind = "import" => Merged(store.entries, es)
      PROVE  Underway'
    BY <1>2 DEF Underway
<1>3. ASSUME NEW kind, NEW es, BeginEntries(kind, es)
      PROVE  pc' = "save" /\ op' = kind /\ next'.entries = es /\ UNCHANGED store
    BY <1>3 DEF BeginEntries, Snapshot
<1>4. ASSUME NEW kind, NEW es, NEW set, BeginSettings(kind, es, set)
      PROVE  pc' \in {"register", "save"} /\ op' = kind /\ next'.entries = es /\ UNCHANGED store
    BY <1>4 DEF BeginSettings, Snapshot
<1>5. ASSUME NEW text \in Labels, Create(text)
      PROVE  Underway'
    <2> DEFINE es == Created(store.entries, used + 1, text)
    <2>1. BeginEntries("create", es) /\ Orderly("create", store.entries, es)
        BY <1>1, <1>5, CreatedOrderly DEF Create
    <2> HIDE DEF es
    <2> QED
        BY <2>1, <1>2, <1>3
<1>6. ASSUME NEW id \in Ids(store.entries), NEW text \in Labels, Update(id, text)
      PROVE  Underway'
    <2> DEFINE es == Updated(store.entries, id, text)
    <2>1. BeginEntries("update", es) /\ Orderly("update", store.entries, es)
        BY <1>1, <1>6, UpdatedOrderly DEF Update
    <2> HIDE DEF es
    <2> QED
        BY <2>1, <1>2, <1>3
<1>7. ASSUME NEW id \in Ids(store.entries), Delete(id)
      PROVE  Underway'
    <2> DEFINE es == Deleted(store.entries, id)
    <2>1. BeginEntries("delete", es) /\ Orderly("delete", store.entries, es)
        BY <1>1, <1>7, DeletedOrderly DEF Delete
    <2> HIDE DEF es
    <2> QED
        BY <2>1, <1>2, <1>3
<1>8. ASSUME NEW ids \in [DOMAIN store.entries -> Ids(store.entries)], Reorder(ids)
      PROVE  Underway'
    <2>1. BeginEntries("reorder", Reordered(store.entries, ids))
        BY <1>8 DEF Reorder
    <2> QED
        BY <2>1, <1>2, <1>3
<1>9. ASSUME NEW file \in Files, NEW set \in Settings, ImportData(file, set)
      PROVE  Underway'
    <2> DEFINE es == Imported(store.entries, file, used + 1)
    <2>1. PICK c \in 0..MaxImport : file \in [1..c -> Labels]
        BY DEF Files
    <2>2. c \in Nat
        BY BoundsAssumption
    <2>3. Orderly("import", store.entries, es) /\ Merged(store.entries, es)
        BY <1>1, <2>1, <2>2, ImportedOrderly, ImportedMerges
    <2>4. BeginSettings("import", es, set)
        BY <1>9 DEF ImportData
    <2> HIDE DEF es
    <2> QED
        BY <2>3, <2>4, <1>2, <1>4
<1>10. ASSUME NEW set \in Settings, SaveSettings(set)
       PROVE  Underway'
    <2>1. BeginSettings("settings", store.entries, set)
        BY <1>10 DEF SaveSettings
    <2>2. Orderly("settings", store.entries, store.entries)
        BY SameIsOrderly
    <2> QED
        BY <2>1, <2>2, <1>2, <1>4
<1> QED
    BY <1>5, <1>6, <1>7, <1>8, <1>9, <1>10 DEF Operate

LEMMA UnderwayStep == ListsKept /\ Underway /\ [Next]_vars => Underway'
<1> SUFFICES ASSUME ListsKept, Underway, [Next]_vars
             PROVE  Underway'
    OBVIOUS
<1>1. CASE Operate
    BY <1>1, OperateUnderway
<1>2. CASE Registers
    BY <1>2 DEF Underway, Registers
<1>3. CASE RegisterFails
    BY <1>3 DEF Underway, RegisterFails, Finish
<1>4. CASE Saves
    BY <1>4 DEF Underway, Saves, Finish
<1>5. CASE SaveFails
    BY <1>5 DEF Underway, SaveFails, Finish
<1>6. CASE RestoresRegistration
    BY <1>6 DEF Underway, RestoresRegistration, Finish
<1>7. CASE Start
    BY <1>7 DEF Underway, Start
<1>8. CASE EnsureAutorunPath
    BY <1>8 DEF Underway, EnsureAutorunPath
<1>9. CASE Kill
    BY <1>9 DEF Underway, Kill
<1>10. CASE UNCHANGED vars
    BY <1>10 DEF Underway, vars
<1> QED
    BY <1>1, <1>2, <1>3, <1>4, <1>5, <1>6, <1>7, <1>8, <1>9, <1>10 DEF Next

LEMMA UnderwayInit == Init => Underway
    BY DEF Init, Underway

\* Only a reordering changes which of two entries is above the other; an
\* entry disappears only by Delete; a created one is at the top and imported
\* ones are below all that were there.
THEOREM EntryListKeepsItsOrder == Spec => ListKeepsItsOrder
<1>1. Underway /\ [Next]_vars
          => (store # Unset /\ store' # Unset /\ op # "reorder"
                  => Orderly(op, store.entries, store'.entries))
    <2> SUFFICES ASSUME Underway, [Next]_vars, store # Unset, store' # Unset, op # "reorder"
                 PROVE  Orderly(op, store.entries, store'.entries)
        OBVIOUS
    <2>1. store' = store \/ Saves
        BY DEF Underway, Next, Operate, Create, Update, Delete, Reorder, ImportData, SaveSettings,
               BeginEntries, BeginSettings, Registers, RegisterFails, SaveFails,
               RestoresRegistration, Start, EnsureAutorunPath, Kill, vars
    <2>2. CASE store' = store
        BY <2>2, SameIsOrderly
    <2>3. CASE Saves
        BY <2>3 DEF Saves, Underway
    <2> QED
        BY <2>1, <2>2, <2>3
<1>2. Underway /\ [Next]_vars
          => [store # Unset /\ store' # Unset /\ op # "reorder" =>
                LET old == store.entries
                    new == store'.entries
                IN  /\ \A x, y \in Ids(old) \cap Ids(new) :
                          Position(old, x) < Position(old, y) => Position(new, x) < Position(new, y)
                    /\ Ids(old) \subseteq Ids(new) \/ op = "delete"
                    /\ \A x \in Ids(new) \ Ids(old) :
                          IF op = "create" THEN Position(new, x) = 1
                          ELSE Position(new, x) > Len(old)]_vars
    BY <1>1 DEF Orderly, SameOrder
<1> QED
    BY <1>2, ListsKeptInit, ListsKeptStep, UnderwayInit, UnderwayStep, PTL DEF Spec, ListKeepsItsOrder

\* An import adds each text the list did not have exactly once and repeats
\* none it had.
THEOREM EntryImportMerges == Spec => ImportMerges
<1>1. Underway => [op = "import" /\ pc = "save" /\ store' = next =>
        LET Count(es, t) == Cardinality({i \in DOMAIN es : es[i].text = t})
        IN  \A t \in Texts(store'.entries) :
               Count(store'.entries, t) =
                   IF t \in Texts(store.entries) THEN Count(store.entries, t) ELSE 1]_vars
    BY DEF Underway, Merged, TextCount
<1> QED
    BY <1>1, ListsKeptInit, ListsKeptStep, UnderwayInit, UnderwayStep, PTL DEF Spec, ImportMerges

-----------------------------------------------------------------------------
\* The page: types

CardSet == [id : Nat, text : Labels]

SomeCall ==
    [op : {"list", "copy"}]
    \cup [op : {"create"}, text : Labels]
    \cup [op : {"update"}, id : Nat, text : Labels]
    \cup [op : {"delete"}, id : Nat]
    \cup [op : {"reorder"}, ids : Seq(Nat)]

\* What a call that succeeded can have returned.
Result(call) ==
    CASE call.op = "list" -> Seq(CardSet)
      [] call.op \in {"create", "update"} -> CardSet
      [] call.op = "delete" -> Nat
      [] OTHER -> Seq(Nat)

Items == {"edit", "-", "up", "down"}

Picks == Items \cup {NoPick}

Replied == [kind : {"menu"}, token : Nat, pick : Picks]
Moved == [kind : {"slides", "rests", "parked"}]
Ended == {Failed(call) : call \in SomeCall}
         \cup UNION {{Done(call, r) : r \in Result(call)} : call \in SomeCall}

Event == Replied \cup Moved \cup Ended

LEMMA CallFacts ==
    ASSUME NEW call \in SomeCall
    PROVE  /\ call.op \in {"list", "copy", "create", "update", "delete", "reorder"}
           /\ call.op = "list" => call = [op |-> "list"]
           /\ call.op = "create" => call.text \in Labels
           /\ call.op = "update" => call.id \in Nat /\ call.text \in Labels
           /\ call.op = "delete" => call.id \in Nat
           /\ call.op = "reorder" => call.ids \in Seq(Nat)
<1>1. CASE call \in [op : {"list", "copy"}]
    BY <1>1
<1>2. CASE call \in [op : {"create"}, text : Labels]
    BY <1>2
<1>3. CASE call \in [op : {"update"}, id : Nat, text : Labels]
    BY <1>3
<1>4. CASE call \in [op : {"delete"}, id : Nat]
    BY <1>4
<1>5. CASE call \in [op : {"reorder"}, ids : Seq(Nat)]
    BY <1>5
<1> QED
    BY <1>1, <1>2, <1>3, <1>4, <1>5 DEF SomeCall

LEMMA EventFacts ==
    ASSUME NEW e \in Event
    PROVE  /\ e.kind \in {"menu", "slides", "rests", "parked", "failed", "done"}
           /\ e.kind = "menu" => e \in Replied /\ e.token \in Nat /\ e.pick \in Picks
           /\ e.kind \in {"failed", "done"} => e.call \in SomeCall
           /\ e.kind = "done" =>
                 /\ e.result \in Result(e.call)
                 /\ e.call.op = "list" => e.result \in Seq(CardSet)
                 /\ e.call.op \in {"create", "update"} => e.result \in CardSet
                 /\ e.call.op = "delete" => e.result \in Nat
<1>1. CASE e \in Replied
    BY <1>1 DEF Replied
<1>2. CASE e \in Moved
    BY <1>2 DEF Moved
<1>3. CASE \E call \in SomeCall : e = Failed(call)
    BY <1>3 DEF Failed
<1>4. CASE \E call \in SomeCall : \E r \in Result(call) : e = Done(call, r)
    <2>0. PICK call \in SomeCall : \E r \in Result(call) : e = Done(call, r)
        BY <1>4
    <2>1. PICK r \in Result(call) : e = Done(call, r)
        BY <2>0
    <2>2. e.kind = "done" /\ e.call = call /\ e.result = r
        BY <2>1 DEF Done
    <2>3. /\ call.op = "list" => Result(call) = Seq(CardSet)
          /\ call.op \in {"create", "update"} => Result(call) = CardSet
          /\ call.op = "delete" => Result(call) = Nat
        BY DEF Result
    <2> QED
        BY <2>2, <2>3
<1>5. e \in Replied \/ e \in Moved \/ (\E call \in SomeCall : e = Failed(call))
      \/ \E call \in SomeCall : \E r \in Result(call) : e = Done(call, r)
    BY DEF Event, Ended
<1> QED
    BY <1>1, <1>2, <1>3, <1>4, <1>5

\* Calls, answers and messages as they are made.
LEMMA MadeRight ==
    /\ [op |-> "list"] \in SomeCall
    /\ [op |-> "copy"] \in SomeCall
    /\ \A text \in Labels : [op |-> "create", text |-> text] \in SomeCall
    /\ \A id \in Nat, text \in Labels : [op |-> "update", id |-> id, text |-> text] \in SomeCall
    /\ \A id \in Nat : [op |-> "delete", id |-> id] \in SomeCall
    /\ \A ids \in Seq(Nat) : [op |-> "reorder", ids |-> ids] \in SomeCall
    /\ \A kind \in {"slides", "rests", "parked"} : Told(kind) \in Event
    /\ \A token \in Nat, pick \in Picks : Reply(token, pick) \in Event
    /\ \A call \in SomeCall : Failed(call) \in Event
    /\ \A call \in SomeCall : \A r \in Result(call) : Done(call, r) \in Event
<1>1. /\ [op |-> "list"] \in SomeCall
      /\ [op |-> "copy"] \in SomeCall
      /\ \A text \in Labels : [op |-> "create", text |-> text] \in SomeCall
    BY DEF SomeCall
<1>2. /\ \A id \in Nat, text \in Labels : [op |-> "update", id |-> id, text |-> text] \in SomeCall
      /\ \A id \in Nat : [op |-> "delete", id |-> id] \in SomeCall
      /\ \A ids \in Seq(Nat) : [op |-> "reorder", ids |-> ids] \in SomeCall
    BY DEF SomeCall
<1>3. \A kind \in {"slides", "rests", "parked"} : Told(kind) \in Event
    BY DEF Told, Event, Moved
<1>4. \A token \in Nat, pick \in Picks : Reply(token, pick) \in Event
    BY DEF Reply, Event, Replied
<1>5. \A call \in SomeCall : Failed(call) \in Event
    BY DEF Event, Ended
<1>6. \A call \in SomeCall : \A r \in Result(call) : Done(call, r) \in Event
    BY DEF Event, Ended
<1> QED
    BY <1>1, <1>2, <1>3, <1>4, <1>5, <1>6

-----------------------------------------------------------------------------
\* The page's list

SetOf(s) == {s[p] : p \in DOMAIN s}

Distinct(s) == \A p, q \in DOMAIN s : s[p] = s[q] => p = q

LEMMA CardFacts ==
    ASSUME NEW cs \in Seq(CardSet)
    PROVE  /\ Len(cs) \in Nat
           /\ DOMAIN cs = 1..Len(cs)
           /\ \A p \in 1..Len(cs) : /\ cs[p] \in CardSet
                                    /\ cs[p].id \in Nat
                                    /\ cs[p].text \in Labels
<1>1. Len(cs) \in Nat /\ DOMAIN cs = 1..Len(cs)
    OBVIOUS
<1>2. \A p \in 1..Len(cs) : cs[p] \in CardSet
    OBVIOUS
<1> QED
    BY <1>1, <1>2 DEF CardSet

LEMMA IdFacts ==
    ASSUME NEW ids \in Seq(Nat)
    PROVE  /\ Len(ids) \in Nat
           /\ DOMAIN ids = 1..Len(ids)
           /\ \A p \in 1..Len(ids) : ids[p] \in Nat
    OBVIOUS

LEMMA MadeCard ==
    ASSUME NEW id \in Nat, NEW text \in Labels
    PROVE  Card(id, text) \in CardSet
    BY DEF Card, CardSet

\* A sequence given place by place.
LEMMA SeqByPlace ==
    ASSUME NEW T, NEW n \in Nat, NEW s, s = [p \in 1..n |-> s[p]],
           \A p \in 1..n : s[p] \in T
    PROVE  s \in Seq(T) /\ Len(s) = n /\ DOMAIN s = 1..n
<1>1. s \in [1..n -> T]
    OBVIOUS
<1>2. s \in Seq(T)
    BY <1>1
<1>3. DOMAIN s = 1..n
    BY <1>1
<1> QED
    BY <1>2, <1>3

LEMMA Joined ==
    ASSUME NEW T, NEW s \in Seq(T), NEW t \in Seq(T)
    PROVE  /\ s \o t \in Seq(T)
           /\ Len(s \o t) = Len(s) + Len(t)
           /\ \A p \in 1..(Len(s) + Len(t)) :
                 (s \o t)[p] = IF p <= Len(s) THEN s[p] ELSE t[p - Len(s)]
    OBVIOUS

LEMMA Cut ==
    ASSUME NEW T, NEW s \in Seq(T), NEW i \in Nat \ {0}, NEW j \in Nat,
           i <= j + 1, j <= Len(s)
    PROVE  /\ SubSeq(s, i, j) \in Seq(T)
           /\ Len(SubSeq(s, i, j)) = j - i + 1
           /\ \A p \in 1..(j - i + 1) : SubSeq(s, i, j)[p] = s[p + i - 1]
    OBVIOUS

LEMMA SameSeq ==
    ASSUME NEW T, NEW U, NEW s \in Seq(T), NEW t \in Seq(U), Len(s) = Len(t),
           \A p \in 1..Len(s) : s[p] = t[p]
    PROVE  s = t
    OBVIOUS

LEMMA CardsOf ==
    ASSUME NEW es \in Seq(Row)
    PROVE  /\ Cards(es) \in Seq(CardSet)
           /\ Len(Cards(es)) = Len(es)
           /\ \A p \in 1..Len(es) : Cards(es)[p] = Card(es[p].id, es[p].text)
           /\ Ids(Cards(es)) = Ids(es)
           /\ UniqueIds(es) => UniqueIds(Cards(es))
<1> DEFINE c == Cards(es)
<1>1. /\ Len(es) \in Nat /\ DOMAIN es = 1..Len(es)
      /\ \A p \in 1..Len(es) : es[p].id \in Nat /\ es[p].text \in Labels
    BY RowFacts
<1>2. c = [p \in 1..Len(es) |-> c[p]] /\ \A p \in 1..Len(es) : c[p] = Card(es[p].id, es[p].text)
    BY <1>1 DEF Cards
<1>3. \A p \in 1..Len(es) : c[p] \in CardSet /\ c[p].id = es[p].id
    BY <1>1, <1>2, MadeCard DEF Card
<1> HIDE DEF c
<1>4. c \in Seq(CardSet) /\ Len(c) = Len(es) /\ DOMAIN c = 1..Len(es)
    BY <1>1, <1>2, <1>3, SeqByPlace
<1>5. Ids(c) = Ids(es)
    BY <1>1, <1>3, <1>4 DEF Ids
<1>6. UniqueIds(es) => UniqueIds(c)
    BY <1>1, <1>3, <1>4 DEF UniqueIds
<1> QED
    BY <1>2, <1>4, <1>5, <1>6 DEF c

LEMMA CardIdsOf ==
    ASSUME NEW cs \in Seq(CardSet)
    PROVE  /\ CardIds(cs) \in Seq(Nat)
           /\ Len(CardIds(cs)) = Len(cs)
           /\ \A p \in 1..Len(cs) : CardIds(cs)[p] = cs[p].id
           /\ SetOf(CardIds(cs)) = Ids(cs)
           /\ UniqueIds(cs) => Distinct(CardIds(cs))
<1> DEFINE c == CardIds(cs)
<1>1. /\ Len(cs) \in Nat /\ DOMAIN cs = 1..Len(cs)
      /\ \A p \in 1..Len(cs) : cs[p].id \in Nat
    BY CardFacts
<1>2. c = [p \in 1..Len(cs) |-> c[p]] /\ \A p \in 1..Len(cs) : c[p] = cs[p].id
    BY <1>1 DEF CardIds
<1> HIDE DEF c
<1>4. c \in Seq(Nat) /\ Len(c) = Len(cs) /\ DOMAIN c = 1..Len(cs)
    BY <1>1, <1>2, SeqByPlace
<1>5. SetOf(c) = Ids(cs)
    BY <1>1, <1>2, <1>4 DEF Ids, SetOf
<1>6. UniqueIds(cs) => Distinct(c)
    BY <1>1, <1>2, <1>4 DEF UniqueIds, Distinct
<1> QED
    BY <1>2, <1>4, <1>5, <1>6 DEF c

\* A filter keeps what is distinct distinct.
LEMMA PickedIds ==
    ASSUME NEW s \in Seq(Nat), NEW S \in SUBSET (1..Len(s))
    PROVE  /\ Picked(s, S) \in Seq(Nat)
           /\ SetOf(Picked(s, S)) = {s[k] : k \in S}
           /\ Distinct(s) => Distinct(Picked(s, S))
<1> DEFINE n == Cardinality(S)
           t == Picked(s, S)
<1>1. /\ n \in Nat /\ t \in Seq(Nat) /\ DOMAIN t = 1..n
      /\ \A m \in 1..n : Nth(S, m) \in S /\ Nth(S, m) \in 1..Len(s) /\ t[m] = s[Nth(S, m)]
      /\ \A k, m \in 1..n : k < m => Nth(S, k) < Nth(S, m)
      /\ \A k \in S : \E m \in 1..n : Nth(S, m) = k
    BY PickedFrom
<1> HIDE DEF n, t
<1>2. SetOf(t) = {s[k] : k \in S}
    <2>1. ASSUME NEW x \in SetOf(t)
          PROVE  \E k \in S : x = s[k]
        <3>1. PICK m \in 1..n : x = t[m]
            BY <1>1 DEF SetOf
        <3> QED
            BY <3>1, <1>1
    <2>2. \A k \in S : s[k] \in SetOf(t)
        BY <1>1 DEF SetOf
    <2> QED
        BY <2>1, <2>2
<1>3. ASSUME Distinct(s), NEW k \in 1..n, NEW m \in 1..n, t[k] = t[m]
      PROVE  k = m
    <2>1. DOMAIN s = 1..Len(s)
        OBVIOUS
    <2>2. Nth(S, k) = Nth(S, m)
        BY <2>1, <1>1, <1>3 DEF Distinct
    <2>3. ~(k < m) /\ ~(m < k)
        <3>1. Nth(S, k) \in Int /\ Nth(S, m) \in Int
            BY <1>1
        <3> QED
            BY <1>1, <2>2, <3>1
    <2> QED
        BY <2>3, <1>1
<1> QED
    BY <1>1, <1>2, <1>3 DEF Distinct, t

LEMMA PickedCards ==
    ASSUME NEW s \in Seq(CardSet), NEW S \in SUBSET (1..Len(s))
    PROVE  /\ Picked(s, S) \in Seq(CardSet)
           /\ Ids(Picked(s, S)) = {s[k].id : k \in S}
           /\ UniqueIds(s) => UniqueIds(Picked(s, S))
<1> DEFINE n == Cardinality(S)
           t == Picked(s, S)
<1>1. /\ n \in Nat /\ t \in Seq(CardSet) /\ DOMAIN t = 1..n
      /\ \A m \in 1..n : Nth(S, m) \in S /\ Nth(S, m) \in 1..Len(s) /\ t[m] = s[Nth(S, m)]
      /\ \A k, m \in 1..n : k < m => Nth(S, k) < Nth(S, m)
      /\ \A k \in S : \E m \in 1..n : Nth(S, m) = k
    BY PickedFrom
<1> HIDE DEF n, t
<1>2. Ids(t) = {s[k].id : k \in S}
    <2>1. \A x \in Ids(t) : \E k \in S : x = s[k].id
        BY <1>1 DEF Ids
    <2>2. \A k \in S : s[k].id \in Ids(t)
        BY <1>1 DEF Ids
    <2> QED
        BY <2>1, <2>2
<1>3. ASSUME UniqueIds(s), NEW k \in 1..n, NEW m \in 1..n, t[k].id = t[m].id
      PROVE  k = m
    <2>1. DOMAIN s = 1..Len(s)
        OBVIOUS
    <2>2. Nth(S, k) = Nth(S, m)
        BY <2>1, <1>1, <1>3 DEF UniqueIds
    <2>3. ~(k < m) /\ ~(m < k)
        <3>1. Nth(S, k) \in Int /\ Nth(S, m) \in Int
            BY <1>1
        <3> QED
            BY <1>1, <2>2, <3>1
    <2> QED
        BY <2>3, <1>1
<1> QED
    BY <1>1, <1>2, <1>3 DEF UniqueIds, t

\* What a drag and a key make of the sequence of ids: the same ids.
LEMMA SwappedIds ==
    ASSUME NEW ids \in Seq(Nat), NEW i \in DOMAIN ids, NEW j \in DOMAIN ids
    PROVE  /\ Swapped(ids, i, j) \in Seq(Nat)
           /\ SetOf(Swapped(ids, i, j)) = SetOf(ids)
           /\ Distinct(ids) => Distinct(Swapped(ids, i, j))
<1> DEFINE t == Swapped(ids, i, j)
           n == Len(ids)
<1>1. n \in Nat /\ DOMAIN ids = 1..n /\ \A p \in 1..n : ids[p] \in Nat
    BY IdFacts
<1>2. /\ t = [p \in 1..n |-> t[p]]
      /\ \A p \in 1..n : t[p] = IF p = j THEN ids[i] ELSE IF p = i THEN ids[j] ELSE ids[p]
    BY <1>1 DEF Swapped
<1> HIDE DEF t
<1>3. t \in Seq(Nat) /\ DOMAIN t = 1..n
    BY <1>1, <1>2, SeqByPlace
<1>4. SetOf(t) = SetOf(ids)
    <2>1. ASSUME NEW x \in SetOf(ids) PROVE x \in SetOf(t)
        <3>1. PICK p \in 1..n : x = ids[p]
            BY <1>1 DEF SetOf
        <3>2. x = t[IF p = j THEN i ELSE IF p = i THEN j ELSE p]
            BY <1>1, <1>2, <3>1
        <3> QED
            BY <1>1, <1>3, <3>2 DEF SetOf
    <2>2. ASSUME NEW x \in SetOf(t) PROVE x \in SetOf(ids)
        BY <1>1, <1>2, <1>3 DEF SetOf
    <2> QED
        BY <2>1, <2>2
<1>5. Distinct(ids) => Distinct(t)
    BY SMTT(60), <1>1, <1>2, <1>3 DEF Distinct
<1> QED
    BY <1>3, <1>4, <1>5 DEF t

LEMMA MovedIds ==
    ASSUME NEW ids \in Seq(Nat), Distinct(ids), NEW id \in SetOf(ids), NEW k \in DOMAIN ids
    PROVE  /\ MovedTo(ids, id, k) \in Seq(Nat)
           /\ SetOf(MovedTo(ids, id, k)) \subseteq SetOf(ids)
           /\ Distinct(MovedTo(ids, id, k))
<1> DEFINE n == Len(ids)
           S == {p \in DOMAIN ids : ids[p] # id}
           rest == Picked(ids, S)
           t == MovedTo(ids, id, k)
<1>1. n \in Nat /\ DOMAIN ids = 1..n /\ id \in Nat /\ k \in 1..n
    BY IdFacts DEF SetOf
<1>2. PICK q \in 1..n : ids[q] = id
    BY <1>1 DEF SetOf
<1>3. S = (1..n) \ {q}
    BY SMTT(60), <1>1, <1>2 DEF Distinct
<1> DEFINE from(m) == IF m < q THEN m ELSE m + 1
<1>4. /\ rest \in Seq(Nat) /\ Len(rest) = n - 1
      /\ \A m \in 1..(n - 1) : rest[m] = ids[from(m)]
    BY <1>1, <1>3, PickedWithout
<1>5. t = SubSeq(rest, 1, k - 1) \o <<id>> \o SubSeq(rest, k, Len(rest))
    BY DEF MovedTo
<1> HIDE DEF rest, t, S
<1>6. /\ \A m \in 1..(n - 1) : rest[m] \in Nat
      /\ DOMAIN rest = 1..(n - 1)
    BY SMTT(60), <1>1, <1>4
<1> DEFINE a == SubSeq(rest, 1, k - 1)
           b == SubSeq(rest, k, Len(rest))
<1>7. a \in Seq(Nat) /\ Len(a) = k - 1 /\ \A p \in 1..(k - 1) : a[p] = rest[p]
    <2>1. k - 1 \in Nat /\ 1 <= k - 1 + 1 /\ k - 1 <= Len(rest) /\ k - 1 - 1 + 1 = k - 1
        BY <1>1, <1>4
    <2> DEFINE j == k - 1
    <2> HIDE DEF j
    <2>2. 1 \in Nat \ {0} /\ j \in Nat /\ 1 <= j + 1 /\ j <= Len(rest)
        BY <2>1 DEF j
    <2>3. /\ SubSeq(rest, 1, j) \in Seq(Nat)
          /\ Len(SubSeq(rest, 1, j)) = j - 1 + 1
          /\ \A p \in 1..(j - 1 + 1) : SubSeq(rest, 1, j)[p] = rest[p + 1 - 1]
        BY SMTT(60), <2>2, <1>4, Cut
    <2>4. a = SubSeq(rest, 1, j) /\ j - 1 + 1 = j /\ j = k - 1
        BY <2>2 DEF j
    <2>5. \A p \in 1..j : p + 1 - 1 = p
        BY <2>2
    <2> HIDE DEF a
    <2> QED
        BY <2>3, <2>4, <2>5
<1>8. b \in Seq(Nat) /\ Len(b) = n - k /\ \A p \in 1..(n - k) : b[p] = rest[p + k - 1]
    <2>1. n - 1 \in Nat /\ k \in Nat \ {0} /\ k <= n - 1 + 1 /\ n - 1 - k + 1 = n - k
        BY <1>1, <1>4
    <2> DEFINE j == Len(rest)
    <2> HIDE DEF j
    <2>2. j = n - 1 /\ j \in Nat /\ k <= j + 1 /\ j <= Len(rest) /\ j - k + 1 = n - k
        BY <2>1, <1>1, <1>4 DEF j
    <2>3. /\ SubSeq(rest, k, j) \in Seq(Nat)
          /\ Len(SubSeq(rest, k, j)) = j - k + 1
          /\ \A p \in 1..(j - k + 1) : SubSeq(rest, k, j)[p] = rest[p + k - 1]
        <3>1. rest \in Seq(Nat) /\ k \in Nat \ {0} /\ j \in Nat /\ k <= j + 1 /\ j <= Len(rest)
            BY <2>1, <2>2, <1>4
        <3> HIDE DEF n
        <3> QED
            BY <3>1, Cut, SMTT(20)
    <2>4. b = SubSeq(rest, k, j)
        BY DEF j
    <2> HIDE DEF b
    <2> QED
        BY <2>2, <2>3, <2>4
<1> HIDE DEF a, b
<1> DEFINE src(p) == IF p < k THEN from(p) ELSE IF p = k THEN q ELSE from(p - 1)
<1>9. /\ t \in Seq(Nat) /\ Len(t) = n
      /\ \A p \in 1..n : t[p] = ids[src(p)] /\ src(p) \in 1..n
    <2> DEFINE c == a \o <<id>>
    <2>1. /\ c \in Seq(Nat) /\ Len(c) = k
          /\ \A p \in 1..k : c[p] = IF p <= k - 1 THEN a[p] ELSE <<id>>[p - (k - 1)]
        <3> DEFINE d == <<id>>
        <3>1. d \in Seq(Nat) /\ Len(d) = 1 /\ k - 1 + 1 = k
            BY <1>1
        <3>2. /\ a \o d \in Seq(Nat)
              /\ Len(a \o d) = Len(a) + Len(d)
              /\ \A p \in 1..(Len(a) + Len(d)) :
                    (a \o d)[p] = IF p <= Len(a) THEN a[p] ELSE d[p - Len(a)]
            <4> HIDE DEF d
            <4> QED
                BY <3>1, <1>7, Joined
        <3> HIDE DEF d
        <3>3. c = a \o d
            BY DEF d
        <3> HIDE DEF c
        <3> QED
            BY <3>1, <3>2, <3>3, <1>7 DEF d
    <2>2. t = c \o b
        BY <1>5 DEF a, b
    <2> HIDE DEF c
    <2>3. /\ t \in Seq(Nat) /\ Len(t) = n
          /\ \A p \in 1..n : t[p] = IF p <= k THEN c[p] ELSE b[p - k]
        <3>1. k + (n - k) = n
            BY <1>1
        <3>2. /\ c \o b \in Seq(Nat)
              /\ Len(c \o b) = Len(c) + Len(b)
              /\ \A p \in 1..(Len(c) + Len(b)) :
                    (c \o b)[p] = IF p <= Len(c) THEN c[p] ELSE b[p - Len(c)]
            BY <2>1, <1>8, Joined
        <3> QED
            BY <3>1, <3>2, <2>1, <2>2, <1>8
    <2>4. ASSUME NEW p \in 1..n
          PROVE  t[p] = ids[src(p)] /\ src(p) \in 1..n
        <3>1. CASE p < k
            <4>0. p <= k /\ p \in 1..k /\ p \in 1..(k - 1) /\ p \in 1..(n - 1) /\ p <= k - 1
                BY <3>1, <1>1
            <4>1. t[p] = rest[p] /\ p \in 1..(n - 1)
                BY <4>0, <2>1, <2>3, <1>7
            <4>2. src(p) = from(p) /\ from(p) \in 1..n
                BY <3>1, <1>1
            <4> HIDE DEF src, from
            <4> QED
                BY <4>1, <4>2, <1>4
        <3>2. CASE p = k
            <4>1. t[p] = <<id>>[1]
                BY <3>2, <2>1, <2>3, <1>1, SMTT(20)
            <4> QED
                BY <3>2, <4>1, <1>1, <1>2
        <3>3. CASE p > k
            <4>1. p - k \in 1..(n - k) /\ p - k + k - 1 = p - 1 /\ p - 1 \in 1..(n - 1)
                BY <3>3, <1>1
            <4>2. t[p] = b[p - k]
                BY SMTT(60), <3>3, <2>3, <1>1
            <4>3. t[p] = rest[p - 1]
                BY <4>1, <4>2, <1>8
            <4>4. src(p) = from(p - 1)
                BY <3>3, <1>1
            <4>5. from(p - 1) \in 1..n
                BY <4>1, <1>1
            <4> HIDE DEF src, from
            <4> QED
                BY <4>1, <4>3, <4>4, <4>5, <1>4
        <3> QED
            BY <3>1, <3>2, <3>3, <1>1
    <2> HIDE DEF src
    <2> QED
        BY <2>3, <2>4
<1>11. \A p, r \in 1..n : src(p) = src(r) => p = r
    BY <1>1
<1> HIDE DEF src
<1>12. DOMAIN t = 1..n
    BY <1>1, <1>9
<1>13. Distinct(t)
    BY <1>1, <1>9, <1>11, <1>12 DEF Distinct
<1>14. SetOf(t) \subseteq SetOf(ids)
    BY <1>1, <1>9, <1>12 DEF SetOf
<1> QED
    BY <1>9, <1>13, <1>14 DEF t

-----------------------------------------------------------------------------
\* A reordering on the page

KnownIn(cs, ids) == Picked(ids, {p \in DOMAIN ids : ids[p] \in Ids(cs)})

LEMMA InOrderFacts ==
    ASSUME NEW cs \in Seq(CardSet), NEW ids \in Seq(Nat)
    PROVE  LET known == KnownIn(cs, ids)
               c == InOrder(cs, ids)
           IN  /\ known \in Seq(Nat)
               /\ SetOf(known) = Ids(cs) \cap SetOf(ids)
               /\ Distinct(ids) => Distinct(known)
               /\ c \in Seq(CardSet) /\ Len(c) = Len(known)
               /\ \A p \in 1..Len(known) : /\ known[p] \in Ids(cs)
                                           /\ At(cs, known[p]) \in 1..Len(cs)
                                           /\ c[p] = cs[At(cs, known[p])]
                                           /\ c[p].id = known[p]
               /\ Ids(c) = Ids(cs) \cap SetOf(ids)
               /\ Distinct(ids) => UniqueIds(c)
<1> DEFINE S == {p \in DOMAIN ids : ids[p] \in Ids(cs)}
           known == KnownIn(cs, ids)
           c == InOrder(cs, ids)
           n == Len(known)
<1>1. DOMAIN ids = 1..Len(ids) /\ DOMAIN cs = 1..Len(cs)
    OBVIOUS
<1>2. S \in SUBSET (1..Len(ids))
    BY <1>1
<1>3. /\ known \in Seq(Nat) /\ SetOf(known) = {ids[k] : k \in S}
      /\ Distinct(ids) => Distinct(known)
    <2> HIDE DEF S
    <2> QED
        BY <1>2, PickedIds DEF S, KnownIn
<1>4. SetOf(known) = Ids(cs) \cap SetOf(ids)
    BY <1>3 DEF SetOf
<1>5. c = [p \in DOMAIN known |-> cs[At(cs, known[p])]]
    BY DEF InOrder, KnownIn
<1> HIDE DEF S, known, c
<1>6. n \in Nat /\ DOMAIN known = 1..n /\ \A p \in 1..n : known[p] \in SetOf(known)
    BY <1>3, IdFacts DEF SetOf
<1>7. \A p \in 1..n : /\ known[p] \in Ids(cs) /\ At(cs, known[p]) \in 1..Len(cs)
                      /\ cs[At(cs, known[p])].id = known[p]
    BY <1>1, <1>4, <1>6, Found
<1>8. \A p \in 1..n : c[p] = cs[At(cs, known[p])] /\ c[p] \in CardSet /\ c[p].id = known[p]
    BY <1>5, <1>6, <1>7, CardFacts
<1>9. c \in Seq(CardSet) /\ Len(c) = n /\ DOMAIN c = 1..n
    <2>1. c = [p \in 1..n |-> c[p]]
        BY <1>5, <1>6
    <2> QED
        BY <2>1, <1>6, <1>8, SeqByPlace
<1>10. Ids(c) = SetOf(known)
    BY SMTT(60), <1>6, <1>8, <1>9 DEF Ids, SetOf
<1>11. Distinct(ids) => UniqueIds(c)
    BY <1>3, <1>6, <1>8, <1>9 DEF Distinct, UniqueIds
<1> QED
    BY <1>3, <1>4, <1>7, <1>8, <1>9, <1>10, <1>11 DEF known, c

\* A reordering that is as long as the list leaves no card out.
LEMMA InOrderWhole ==
    ASSUME NEW cs \in Seq(CardSet), NEW ids \in Seq(Nat), UniqueIds(cs), Distinct(ids),
           Len(InOrder(cs, ids)) = Len(cs)
    PROVE  Ids(cs) \subseteq SetOf(ids) /\ Ids(InOrder(cs, ids)) = Ids(cs)
<1> DEFINE known == KnownIn(cs, ids)
           n == Len(cs)
           f == [p \in 1..n |-> At(cs, known[p])]
<1>1. /\ known \in Seq(Nat) /\ SetOf(known) = Ids(cs) \cap SetOf(ids) /\ Distinct(known)
      /\ Len(known) = n
      /\ \A p \in 1..n : known[p] \in Ids(cs) /\ At(cs, known[p]) \in 1..n
      /\ Ids(InOrder(cs, ids)) = Ids(cs) \cap SetOf(ids)
    BY InOrderFacts
<1>2. n \in Nat /\ DOMAIN known = 1..n /\ DOMAIN cs = 1..n
    BY <1>1
<1> HIDE DEF known, n
<1>3. f \in [1..n -> 1..n]
    BY <1>1
<1>4. ASSUME NEW x \in 1..n, NEW y \in 1..n, f[x] = f[y]
      PROVE  x = y
    <2>1. At(cs, known[x]) = At(cs, known[y])
        BY <1>4
    <2>2. known[x] = known[y]
        BY SMTT(60), <2>1, <1>1, Found
    <2> QED
        BY <2>2, <1>1, <1>2 DEF Distinct
<1>5. IsFiniteSet(1..n) /\ Cardinality(1..n) = n
    BY <1>2, FS_Interval
<1>6. \A q \in 1..n : \E p \in 1..n : f[p] = q
    <2> HIDE DEF f
    <2> DEFINE D == 1..n
    <2>1. \A x, y \in D : f[x] = f[y] => x = y
        BY <1>4
    <2>2. f \in [D -> 1..n] /\ IsFiniteSet(D) /\ Cardinality(D) = n
        BY <1>3, <1>5
    <2> HIDE DEF D
    <2>3. \A q \in 1..n : \E p \in D : f[p] = q
        BY <2>1, <2>2, <1>2, Pigeonhole
    <2> QED
        BY <2>3 DEF D
<1>7. ASSUME NEW x \in Ids(cs)
      PROVE  x \in SetOf(known)
    <2>1. PICK q \in 1..n : cs[q].id = x
        BY <1>2 DEF Ids
    <2>2. PICK p \in 1..n : f[p] = q
        BY <1>6
    <2>3. At(cs, known[p]) = q
        BY <2>2
    <2>4. known[p] = x
        BY <2>1, <2>3, <1>1, Found
    <2> QED
        BY <2>4, <1>2 DEF SetOf
<1> QED
    BY <1>1, <1>7

\* When the list has all the ids, it comes out in their order.
LEMMA InOrderOfAll ==
    ASSUME NEW cs \in Seq(CardSet), NEW ids \in Seq(Nat), SetOf(ids) \subseteq Ids(cs)
    PROVE  /\ Len(InOrder(cs, ids)) = Len(ids)
           /\ \A p \in 1..Len(ids) : /\ At(cs, ids[p]) \in 1..Len(cs)
                                     /\ InOrder(cs, ids)[p] = cs[At(cs, ids[p])]
                                     /\ InOrder(cs, ids)[p].id = ids[p]
<1> DEFINE S == {p \in DOMAIN ids : ids[p] \in Ids(cs)}
<1>1. DOMAIN ids = 1..Len(ids)
    OBVIOUS
<1>2. S = 1..Len(ids)
    BY <1>1 DEF SetOf
<1>3. KnownIn(cs, ids) = ids
    BY <1>2, PickedAll DEF KnownIn
<1> QED
    BY <1>3, InOrderFacts

\* In a list that repeats no id, an id is where it is found.
LEMMA OnlyAt ==
    ASSUME NEW cs, UniqueIds(cs), NEW p \in DOMAIN cs
    PROVE  At(cs, cs[p].id) = p
<1>1. cs[p].id \in Ids(cs)
    BY DEF Ids
<1> QED
    BY <1>1, Found DEF UniqueIds

\* The list with one card replaced, in an order: the replaced card in its place.
WithCard(cs, card) == [p \in DOMAIN cs |-> IF cs[p].id = card.id THEN card ELSE cs[p]]

LEMMA WithCardFacts ==
    ASSUME NEW cs \in Seq(CardSet), NEW card \in CardSet
    PROVE  /\ WithCard(cs, card) \in Seq(CardSet)
           /\ Len(WithCard(cs, card)) = Len(cs)
           /\ \A p \in 1..Len(cs) :
                 /\ WithCard(cs, card)[p] = IF cs[p].id = card.id THEN card ELSE cs[p]
                 /\ WithCard(cs, card)[p].id = cs[p].id
           /\ Ids(WithCard(cs, card)) = Ids(cs)
           /\ UniqueIds(cs) => UniqueIds(WithCard(cs, card))
           /\ \A x : At(WithCard(cs, card), x) = At(cs, x)
<1> DEFINE c == WithCard(cs, card)
<1>1. /\ Len(cs) \in Nat /\ DOMAIN cs = 1..Len(cs)
      /\ \A p \in 1..Len(cs) : cs[p] \in CardSet
    BY CardFacts
<1>2. /\ c = [p \in 1..Len(cs) |-> c[p]]
      /\ \A p \in 1..Len(cs) : c[p] = IF cs[p].id = card.id THEN card ELSE cs[p]
    BY <1>1 DEF WithCard
<1> HIDE DEF c
<1>3. \A p \in 1..Len(cs) : c[p] \in CardSet /\ c[p].id = cs[p].id
    BY <1>1, <1>2
<1>4. c \in Seq(CardSet) /\ Len(c) = Len(cs) /\ DOMAIN c = 1..Len(cs)
    BY <1>1, <1>2, <1>3, SeqByPlace
<1>5. Ids(c) = Ids(cs) /\ (UniqueIds(cs) => UniqueIds(c))
    BY <1>1, <1>3, <1>4 DEF Ids, UniqueIds
<1>6. ASSUME NEW x
      PROVE  At(c, x) = At(cs, x)
    <2>1. \A p : (p \in DOMAIN c /\ c[p].id = x) <=> (p \in DOMAIN cs /\ cs[p].id = x)
        BY <1>1, <1>3, <1>4
    <2> QED
        BY <2>1 DEF At
<1> QED
    BY <1>2, <1>3, <1>4, <1>5, <1>6 DEF c

LEMMA InOrderWithCard ==
    ASSUME NEW cs \in Seq(CardSet), NEW ids \in Seq(Nat), NEW card \in CardSet
    PROVE  InOrder(WithCard(cs, card), ids) = WithCard(InOrder(cs, ids), card)
<1> DEFINE d == WithCard(cs, card)
           known == KnownIn(cs, ids)
           a == InOrder(d, ids)
           b == InOrder(cs, ids)
           r == WithCard(b, card)
<1>1. /\ d \in Seq(CardSet) /\ Ids(d) = Ids(cs)
      /\ \A x : At(d, x) = At(cs, x)
      /\ \A p \in 1..Len(cs) : d[p] = IF cs[p].id = card.id THEN card ELSE cs[p]
    BY WithCardFacts
<1> HIDE DEF d
<1>2. KnownIn(d, ids) = known
    BY <1>1 DEF KnownIn
<1>3. /\ b \in Seq(CardSet) /\ Len(b) = Len(known)
      /\ \A p \in 1..Len(known) : At(cs, known[p]) \in 1..Len(cs) /\ b[p] = cs[At(cs, known[p])]
    BY InOrderFacts
<1>4. /\ a \in Seq(CardSet) /\ Len(a) = Len(known)
      /\ \A p \in 1..Len(known) : a[p] = d[At(d, known[p])]
    BY <1>1, <1>2, InOrderFacts
<1>5. /\ r \in Seq(CardSet) /\ Len(r) = Len(known)
      /\ \A p \in 1..Len(known) : r[p] = IF b[p].id = card.id THEN card ELSE b[p]
    BY <1>3, WithCardFacts
<1> HIDE DEF known, a, b, r
<1>6. ASSUME NEW p \in 1..Len(known)
      PROVE  a[p] = r[p]
    <2> DEFINE i == At(cs, known[p])
    <2>1. i \in 1..Len(cs) /\ b[p] = cs[i] /\ r[p] = IF b[p].id = card.id THEN card ELSE b[p]
        BY <1>3, <1>5
    <2>2. a[p] = d[i]
        BY <1>1, <1>4
    <2> HIDE DEF i
    <2> QED
        BY <2>1, <2>2, <1>1
<1>7. a = r
    BY <1>4, <1>5, <1>6, SameSeq
<1> QED
    BY <1>7 DEF a, r, b, d

\* The list without the card of an id.
Dropped(cs, id) == Picked(cs, {p \in DOMAIN cs : cs[p].id # id})

LEMMA DroppedFacts ==
    ASSUME NEW cs \in Seq(CardSet), NEW id
    PROVE  /\ Dropped(cs, id) \in Seq(CardSet)
           /\ Ids(Dropped(cs, id)) = Ids(cs) \ {id}
           /\ UniqueIds(cs) => UniqueIds(Dropped(cs, id))
           /\ \A p \in DOMAIN Dropped(cs, id) : \E q \in DOMAIN cs : Dropped(cs, id)[p] = cs[q]
<1> DEFINE S == {p \in DOMAIN cs : cs[p].id # id}
<1>1. S \in SUBSET (1..Len(cs)) /\ DOMAIN cs = 1..Len(cs)
    <2>1. DOMAIN cs = 1..Len(cs)
        OBVIOUS
    <2> QED
        BY <2>1
<1>2. {cs[k].id : k \in S} = Ids(cs) \ {id}
    BY DEF Ids
<1> DEFINE t == Picked(cs, S)
<1> HIDE DEF S
<1>3. /\ t \in Seq(CardSet) /\ Ids(t) = Ids(cs) \ {id}
      /\ UniqueIds(cs) => UniqueIds(t)
    BY <1>1, <1>2, PickedCards
<1>4. /\ DOMAIN t = 1..Cardinality(S)
      /\ \A m \in 1..Cardinality(S) : Nth(S, m) \in 1..Len(cs) /\ t[m] = cs[Nth(S, m)]
    BY <1>1, PickedFrom
<1>5. \A p \in DOMAIN t : \E q \in DOMAIN cs : t[p] = cs[q]
    BY <1>1, <1>4
<1>6. Dropped(cs, id) = t
    BY DEF S, Dropped
<1> QED
    BY <1>3, <1>5, <1>6

LEMMA DroppedNone ==
    ASSUME NEW cs \in Seq(CardSet), NEW id, id \notin Ids(cs)
    PROVE  Dropped(cs, id) = cs
<1>1. {p \in DOMAIN cs : cs[p].id # id} = 1..Len(cs)
    <2>1. DOMAIN cs = 1..Len(cs)
        OBVIOUS
    <2> QED
        BY <2>1 DEF Ids
<1> QED
    BY <1>1, PickedAll DEF Dropped

\* A card that is not in the order does not matter for it.
LEMMA InOrderDropped ==
    ASSUME NEW cs \in Seq(CardSet), UniqueIds(cs), NEW ids \in Seq(Nat),
           NEW id, id \notin SetOf(ids)
    PROVE  InOrder(Dropped(cs, id), ids) = InOrder(cs, ids)
<1> DEFINE d == Dropped(cs, id)
           known == KnownIn(cs, ids)
           a == InOrder(d, ids)
           b == InOrder(cs, ids)
<1>1. /\ d \in Seq(CardSet) /\ Ids(d) = Ids(cs) \ {id} /\ UniqueIds(d)
      /\ \A p \in DOMAIN d : \E q \in DOMAIN cs : d[p] = cs[q]
    BY DroppedFacts
<1> HIDE DEF d
<1>2. KnownIn(d, ids) = known
    <2>1. {p \in DOMAIN ids : ids[p] \in Ids(d)} = {p \in DOMAIN ids : ids[p] \in Ids(cs)}
        BY <1>1 DEF SetOf
    <2> QED
        BY <2>1 DEF KnownIn
<1>3. /\ b \in Seq(CardSet) /\ Len(b) = Len(known)
      /\ \A p \in 1..Len(known) : known[p] \in Ids(cs) /\ b[p] = cs[At(cs, known[p])]
    BY InOrderFacts
<1>4. /\ a \in Seq(CardSet) /\ Len(a) = Len(known)
      /\ \A p \in 1..Len(known) : known[p] \in Ids(d) /\ a[p] = d[At(d, known[p])]
    BY <1>1, <1>2, InOrderFacts
<1> HIDE DEF known, a, b
<1>5. ASSUME NEW p \in 1..Len(known)
      PROVE  a[p] = b[p]
    <2> DEFINE i == At(d, known[p])
    <2>1. i \in DOMAIN d /\ d[i].id = known[p]
        BY <1>4, Found
    <2>2. PICK q \in DOMAIN cs : d[i] = cs[q]
        BY <2>1, <1>1
    <2>3. At(cs, known[p]) = q
        BY <2>1, <2>2, OnlyAt
    <2> QED
        BY <2>2, <2>3, <1>3, <1>4
<1>6. a = b
    BY <1>3, <1>4, <1>5, SameSeq
<1> QED
    BY <1>6 DEF a, b, d

-----------------------------------------------------------------------------
\* The page: its types are kept

LEMMA RowsOfMenu ==
    /\ DOMAIN Rows = 1..4 /\ Len(Rows) = 4
    /\ \A i \in 1..4 : Rows[i] \in Items
<1>1. Rows = <<"edit", "-", "up", "down">>
    BY DEF Rows
<1>2. DOMAIN Rows = 1..4 /\ Len(Rows) = 4
    BY <1>1
<1>3. Rows[1] = "edit" /\ Rows[2] = "-" /\ Rows[3] = "up" /\ Rows[4] = "down"
    BY <1>1
<1>4. \A i \in 1..4 : i = 1 \/ i = 2 \/ i = 3 \/ i = 4
    OBVIOUS
<1> HIDE DEF Rows
<1>5. \A i \in 1..4 : Rows[i] \in {"edit", "-", "up", "down"}
    BY <1>3, <1>4
<1> QED
    BY <1>2, <1>5 DEF Items

LEMMA PickableRows ==
    ASSUME NEW token
    PROVE  /\ Pickable(token) \in SUBSET (1..4)
           /\ \A i \in Pickable(token) : Rows[i] \in asked[token].enabled
    BY RowsOfMenu DEF Pickable

\* The row that a key leads to is one that can be picked, or none.
LEMMA EnabledRow ==
    ASSUME NEW S \in SUBSET (1..4), NEW from, NEW dir
    PROVE  NextEnabled(S, from, dir) \in {0} \cup S
<1> DEFINE start == IF from = 0 /\ dir = -1 THEN 4 + 1 ELSE from
           at(step) == ((start - 1 + dir * step) % 4) + 1
           hits == {step \in 1..4 : at(step) \in S}
           k == CHOOSE step \in hits : \A other \in hits : step <= other
<1>1. NextEnabled(S, from, dir) = IF hits = {} THEN 0 ELSE at(k)
    BY RowsOfMenu DEF NextEnabled
<1>2. hits \in SUBSET (1..4) /\ \A step \in hits : at(step) \in S
    OBVIOUS
<1> HIDE DEF hits, at
<1>3. hits # {} => k \in hits
    BY <1>2, First
<1> HIDE DEF k
<1> QED
    BY <1>1, <1>2, <1>3

Asked == [id : Nat, enabled : SUBSET Items, keyboard : BOOLEAN]

MenuTypes ==
    /\ waiting \in Nat
    /\ asked \in Seq(Asked)
    /\ opens \in Seq(Nat)
    /\ popup \in [token : Nat, hovered : 0..4]
    /\ settled \in [Tokens -> Picks \cup {Unsettled}]
    /\ chosen \in [Tokens -> Picks]

ListTypes ==
    /\ WellNumbered(stored) /\ Below(stored, given) /\ given \in Nat
    /\ calls \in Seq(SomeCall)
    /\ entries \in Seq(CardSet)

DragTypes == drag.at \in {"none", "pressed", "dragging"} /\ drag.id \in Nat /\ drag.order \in Seq(Nat)

PageTypes == MenuTypes /\ ListTypes /\ DragTypes /\ evals \in Seq(Event)

LEMMA FilteredTypes ==
    ASSUME entries \in Seq(CardSet)
    PROVE  /\ Filtered \in Seq(CardSet) /\ Ids(Filtered) \subseteq Ids(entries)
           /\ UniqueIds(entries) => UniqueIds(Filtered)
<1> DEFINE S == {p \in DOMAIN entries : query = "" \/ entries[p].text = query}
           f == Picked(entries, S)
<1>1. S \in SUBSET (1..Len(entries)) /\ DOMAIN entries = 1..Len(entries)
    <2>1. DOMAIN entries = 1..Len(entries)
        OBVIOUS
    <2> QED
        BY <2>1
<1>2. {entries[k].id : k \in S} \subseteq Ids(entries)
    BY DEF Ids
<1>3. Filtered = f
    BY DEF Filtered
<1> HIDE DEF S, f
<1>4. f \in Seq(CardSet) /\ Ids(f) = {entries[k].id : k \in S} /\ (UniqueIds(entries) => UniqueIds(f))
    BY <1>1, PickedCards DEF f
<1> QED
    BY <1>2, <1>3, <1>4

LEMMA RenderedTypes ==
    ASSUME entries \in Seq(CardSet), DragTypes
    PROVE  /\ Rendered \in Seq(Nat)
           /\ SetOf(Rendered) \subseteq Ids(entries) \cup SetOf(drag.order)
<1>1. CASE loading
    <2>1. Rendered = <<>>
        BY <1>1 DEF Rendered
    <2> QED
        BY <2>1 DEF SetOf
<1>2. CASE ~loading /\ drag.at = "dragging"
    BY <1>2 DEF Rendered, DragTypes
<1>3. CASE ~loading /\ drag.at # "dragging"
    <2>1. Rendered = CardIds(Filtered)
        BY <1>3 DEF Rendered
    <2>2. Filtered \in Seq(CardSet) /\ Ids(Filtered) \subseteq Ids(entries)
        BY FilteredTypes
    <2> QED
        BY <2>1, <2>2, CardIdsOf
<1> QED
    BY <1>1, <1>2, <1>3

\* Two messages and no more: what a step adds to what the page is to hear.
LEMMA EvalsAdded ==
    ASSUME NEW s \in Seq(Event), NEW t \in Seq(Event), NEW e \in Event
    PROVE  /\ s \o t \in Seq(Event)
           /\ Append(s, e) \in Seq(Event)
           /\ s \o t \o <<e>> \in Seq(Event)
    OBVIOUS

LEMMA TailOf ==
    ASSUME NEW T, NEW s \in Seq(T), s # <<>>
    PROVE  /\ Head(s) \in T /\ Head(s) = s[1] /\ Tail(s) \in Seq(T)
           /\ Len(s) \in Nat \ {0} /\ Len(Tail(s)) = Len(s) - 1
           /\ \A k \in 1..(Len(s) - 1) : Tail(s)[k] = s[k + 1]
    OBVIOUS

LEMMA OneMore ==
    ASSUME NEW T, NEW s \in Seq(T), NEW e \in T
    PROVE  /\ Append(s, e) \in Seq(T)
           /\ Len(Append(s, e)) = Len(s) + 1
           /\ Append(s, e)[Len(s) + 1] = e
           /\ \A k \in 1..Len(s) : Append(s, e)[k] = s[k]
    OBVIOUS

-----------------------------------------------------------------------------
\* What a step can do to the list and to the calls: one of these.

\* What the page makes of an event.
Applied(e, cs) ==
    IF e.kind # "done" THEN cs
    ELSE CASE e.call.op = "list" -> e.result
           [] e.call.op = "create" -> <<e.result>> \o cs
           [] e.call.op = "update" -> WithCard(cs, e.result)
           [] e.call.op = "delete" -> Dropped(cs, e.result)
           [] OTHER -> cs

Silent(e) == e.kind \notin {"done", "failed"}

FailedReorder(e) == e.kind = "failed" /\ e.call.op = "reorder"

\* More events, but no more answers.
Extends(s, t) ==
    /\ t \in Seq(Event) /\ Len(s) <= Len(t)
    /\ \A k \in 1..Len(s) : t[k] = s[k]
    /\ \A k \in (Len(s) + 1)..Len(t) : Silent(t[k])

\* The drag still holds ids that are on the page or were held before.
DragKept ==
    /\ DragTypes'
    /\ Distinct(drag'.order)
    /\ SetOf(drag'.order) \subseteq Ids(entries) \cup SetOf(drag.order)

Idles == Extends(evals, evals') /\ UNCHANGED <<stored, given, calls, entries, overlapped>>

Hears ==
    /\ evals # <<>> /\ ~FailedReorder(Head(evals)) /\ evals' = Tail(evals)
    /\ entries' = Applied(Head(evals), entries)
    /\ UNCHANGED <<stored, given, calls, overlapped>>

Posts ==
    \E call \in SomeCall :
        /\ call.op \notin {"list", "reorder"}
        /\ call.op = "delete" => call.id \in Ids(entries)
        /\ calls' = Append(calls, call)
        /\ UNCHANGED <<stored, given, evals, entries, overlapped>>

Refreshes ==
    /\ evals' = evals \/ (evals # <<>> /\ evals' = Tail(evals))
    /\ Refresh /\ UNCHANGED <<stored, given>>

\* What the page hears meanwhile is no answer.
Listens == evals' = evals \/ (evals # <<>> /\ Silent(Head(evals)) /\ evals' = Tail(evals))

ShowsOrder(ids) ==
    /\ Distinct(ids) /\ SetOf(ids) \subseteq Ids(entries) \cup SetOf(drag.order)
    /\ Len(InOrder(entries, ids)) = Len(entries)
    /\ Listens
    /\ entries' = InOrder(entries, ids)
    /\ calls' = Append(calls, [op |-> "reorder", ids |-> ids])
    /\ overlapped' = (overlapped \/ Refreshing)
    /\ UNCHANGED <<stored, given>>

Rearranges == \E ids \in Seq(Nat) : ShowsOrder(ids)

Fails ==
    /\ calls # <<>> /\ calls' = Tail(calls) /\ Head(calls).op # "list"
    /\ evals' = Append(evals, Failed(Head(calls)))
    /\ UNCHANGED <<stored, given, entries, overlapped, drag>>

Serves ==
    \/ ServeList \/ ServeCreate \/ ServeUpdate \/ ServeDelete \/ ServeReorder
    \/ ServeCopy \/ Fails

Typed == PageTypes /\ UniqueIds(entries) /\ Distinct(drag.order)

LEMMA SameDrag ==
    ASSUME Typed, drag' = drag \/ drag' = NoDrag
    PROVE  DragKept
<1>1. CASE drag' = drag
    BY <1>1 DEF Typed, PageTypes, DragKept, DragTypes
<1>2. CASE drag' = NoDrag
    <2>1. drag'.order = <<>> /\ drag'.at = "none" /\ drag'.id = 0
        BY <1>2 DEF NoDrag
    <2> QED
        BY <2>1 DEF DragKept, DragTypes, Distinct, SetOf
<1> QED
    BY <1>1, <1>2

LEMMA ExtendsFacts ==
    ASSUME NEW s \in Seq(Event)
    PROVE  /\ Extends(s, s)
           /\ \A e \in Event : Silent(e) => Extends(s, Append(s, e))
           /\ \A t \in Seq(Event) : (\A k \in 1..Len(t) : Silent(t[k])) =>
                 /\ Extends(s, s \o t)
                 /\ \A e \in Event : Silent(e) => Extends(s, s \o t \o <<e>>)
<1>1. Extends(s, s)
    BY DEF Extends
<1>2. ASSUME NEW e \in Event, Silent(e)
      PROVE  Extends(s, Append(s, e))
    BY <1>2 DEF Extends
<1>3. ASSUME NEW t \in Seq(Event), \A k \in 1..Len(t) : Silent(t[k])
      PROVE  Extends(s, s \o t)
    <2>1. s \o t \in Seq(Event) /\ Len(s \o t) = Len(s) + Len(t) /\ Len(s) \in Nat /\ Len(t) \in Nat
        OBVIOUS
    <2>2. \A k \in 1..Len(s) : (s \o t)[k] = s[k]
        OBVIOUS
    <2>3. \A k \in (Len(s) + 1)..(Len(s) + Len(t)) : (s \o t)[k] = t[k - Len(s)] /\ k - Len(s) \in 1..Len(t)
        OBVIOUS
    <2> QED
        BY <2>1, <2>2, <2>3, <1>3 DEF Extends
<1>4. ASSUME NEW t \in Seq(Event), \A k \in 1..Len(t) : Silent(t[k]), NEW e \in Event, Silent(e)
      PROVE  Extends(s, s \o t \o <<e>>)
    <2> DEFINE u == Append(t, e)
    <2>1. u \in Seq(Event) /\ \A k \in 1..Len(u) : Silent(u[k])
        <3>1. u \in Seq(Event) /\ Len(u) = Len(t) + 1 /\ u[Len(t) + 1] = e /\ Len(t) \in Nat
              /\ \A k \in 1..Len(t) : u[k] = t[k]
            OBVIOUS
        <3>2. \A k \in 1..(Len(t) + 1) : k \in 1..Len(t) \/ k = Len(t) + 1
            BY <3>1
        <3> HIDE DEF u
        <3> QED
            BY <3>1, <3>2, <1>4
    <2>2. s \o t \o <<e>> = s \o u
        BY SMTT(20)
    <2> HIDE DEF u
    <2> QED
        BY <2>1, <2>2, <1>3
<1> QED
    BY <1>1, <1>2, <1>3, <1>4

\* What is reported of a popup is no answer to a call.
LEMMA ReportedSilent ==
    ASSUME MenuTypes, NEW pick \in Picks
    PROVE  /\ Reported(pick) \in Seq(Event)
           /\ \A k \in 1..Len(Reported(pick)) : Silent(Reported(pick)[k])
<1>1. CASE popup = NoPopup
    BY <1>1 DEF Reported
<1>2. CASE popup # NoPopup
    <2> DEFINE e == Reply(popup.token, pick)
    <2>1. e \in Event /\ Silent(e)
        BY MadeRight DEF MenuTypes, Silent, Reply
    <2>2. Reported(pick) = <<e>>
        BY <1>2 DEF Reported
    <2> HIDE DEF e
    <2> QED
        BY <2>1, <2>2
<1> QED
    BY <1>1, <1>2

LEMMA SilentMade ==
    /\ \A kind \in {"slides", "rests", "parked"} : Told(kind) \in Event /\ Silent(Told(kind))
    /\ \A token \in Nat, pick \in Picks : Reply(token, pick) \in Event /\ Silent(Reply(token, pick))
<1>1. ASSUME NEW kind \in {"slides", "rests", "parked"}
      PROVE  Told(kind) \in Event /\ Silent(Told(kind))
    BY MadeRight DEF Silent, Told
<1>2. ASSUME NEW token \in Nat, NEW pick \in Picks
      PROVE  Reply(token, pick) \in Event /\ Silent(Reply(token, pick))
    BY MadeRight DEF Silent, Reply
<1> QED
    BY <1>1, <1>2

\* A reordering that the page shows, and one it does not.
LEMMA ReorderSteps ==
    ASSUME NEW ids \in Seq(Nat), Distinct(ids),
           SetOf(ids) \subseteq Ids(entries) \cup SetOf(drag.order),
           ReorderEntries(ids), UNCHANGED <<stored, given>>,
           Listens
    PROVE  Refreshes \/ Rearranges
<1>1. CASE Len(InOrder(entries, ids)) # Len(entries)
    <2>1. Refresh
        BY <1>1 DEF ReorderEntries
    <2> QED
        BY <2>1 DEF Refreshes, Listens
<1>2. CASE Len(InOrder(entries, ids)) = Len(entries)
    BY <1>2 DEF ReorderEntries, Rearranges, ShowsOrder, Posting
<1> QED
    BY <1>1, <1>2

LEMMA MoveBySteps ==
    ASSUME Typed, NEW id, NEW dir, MoveBy(id, dir), UNCHANGED <<stored, given>>,
           Listens
    PROVE  UNCHANGED <<entries, calls, overlapped>> \/ Refreshes \/ Rearranges
<1> DEFINE from == At(entries, id)
           ids == Swapped(CardIds(entries), from, from + dir)
<1>1. CASE id \in Ids(entries) /\ from + dir \in DOMAIN entries /\ ReorderEntries(ids)
    <2> DEFINE c == CardIds(entries)
    <2>1. entries \in Seq(CardSet) /\ UniqueIds(entries) /\ from \in DOMAIN entries
        BY <1>1, Found DEF Typed, PageTypes, ListTypes
    <2>2. c \in Seq(Nat) /\ Len(c) = Len(entries) /\ SetOf(c) = Ids(entries) /\ Distinct(c)
        BY <2>1, CardIdsOf
    <2>3. DOMAIN c = DOMAIN entries
        <3> HIDE DEF c
        <3> QED
            BY <2>1, <2>2, IdFacts, CardFacts
    <2> HIDE DEF c
    <2>4. ids = Swapped(c, from, from + dir)
        BY DEF c
    <2> HIDE DEF from
    <2>5. ids \in Seq(Nat) /\ SetOf(ids) = Ids(entries) /\ Distinct(ids)
        <3>1. from \in DOMAIN c /\ from + dir \in DOMAIN c
            BY <1>1, <2>1, <2>3
        <3> HIDE DEF ids
        <3> QED
            BY <3>1, <2>2, <2>4, SwappedIds
    <2> HIDE DEF ids
    <2> QED
        BY <1>1, <2>5, ReorderSteps
<1>2. CASE UNCHANGED list
    BY <1>2 DEF list
<1> QED
    BY <1>1, <1>2 DEF MoveBy

Steps == Idles \/ Hears \/ Posts \/ Refreshes \/ Rearranges \/ Serves

\* Every step of the page and of Go is one of those.
LEMMA ServeSteps ==
    ASSUME Typed,
           \/ ServeList \/ ServeCreate \/ ServeUpdate \/ ServeDelete \/ ServeReorder
           \/ ServeCopy \/ Refuse \/ SavingFails
    PROVE  DragKept /\ Serves /\ UNCHANGED drag
<1>1. GoUnchanged => UNCHANGED <<entries, overlapped, drag>>
    BY DEF GoUnchanged, mouse
<1>2. CASE ServeList \/ ServeCreate \/ ServeUpdate \/ ServeDelete \/ ServeReorder \/ ServeCopy
    <2>1. UNCHANGED drag
        BY <1>1, <1>2 DEF ServeList, ServeCreate, ServeUpdate, ServeDelete, ServeReorder, ServeCopy
    <2> QED
        BY <1>2, <2>1, SameDrag DEF Serves
<1>3. CASE Refuse \/ SavingFails
    <2>1. Fails
        BY <1>1, <1>3 DEF Refuse, SavingFails, Fails, Refused, Serving, Replying
    <2> QED
        BY <2>1, SameDrag DEF Serves, Fails
<1> QED
    BY <1>2, <1>3

LEMMA TakeSteps ==
    ASSUME Typed,
           \/ TakeList \/ TakeCreated \/ TakeUpdated \/ TakeDeleted \/ TakeReordered
           \/ TakeFailure \/ TakeFailedReorder
    PROVE  DragKept /\ (Hears \/ Refreshes) /\ UNCHANGED drag
<1>1. PageUnchanged => UNCHANGED <<stored, given, drag>>
    BY DEF PageUnchanged, go, mouse
<1>2. CASE TakeList
    <2>1. Applied(Head(evals), entries) = Head(evals).result /\ ~FailedReorder(Head(evals))
        BY <1>2 DEF TakeList, Answered, Hearing, Applied, FailedReorder
    <2>2. Hears
        BY <1>1, <1>2, <2>1 DEF TakeList, Answered, Hearing, Hears
    <2> QED
        BY <1>1, <1>2, <2>2, SameDrag DEF TakeList
<1>3. CASE TakeCreated
    <2>1. Applied(Head(evals), entries) = <<Head(evals).result>> \o entries /\ ~FailedReorder(Head(evals))
        BY <1>3 DEF TakeCreated, Answered, Hearing, Applied, FailedReorder
    <2>2. Hears
        BY <1>1, <1>3, <2>1 DEF TakeCreated, Answered, Hearing, Hears
    <2> QED
        BY <1>1, <1>3, <2>2, SameDrag DEF TakeCreated
<1>4. CASE TakeUpdated
    <2>1. /\ Applied(Head(evals), entries) = WithCard(entries, Head(evals).result)
          /\ ~FailedReorder(Head(evals))
        BY <1>4 DEF TakeUpdated, Answered, Hearing, Applied, FailedReorder
    <2>2. Hears
        BY <1>1, <1>4, <2>1 DEF TakeUpdated, Answered, Hearing, Hears, WithCard
    <2> QED
        BY <1>1, <1>4, <2>2, SameDrag DEF TakeUpdated
<1>5. CASE TakeDeleted
    <2>1. /\ Applied(Head(evals), entries) = Dropped(entries, Head(evals).result)
          /\ ~FailedReorder(Head(evals))
        BY <1>5 DEF TakeDeleted, Answered, Hearing, Applied, FailedReorder
    <2>2. Hears
        BY <1>1, <1>5, <2>1 DEF TakeDeleted, Answered, Hearing, Hears, Dropped
    <2> QED
        BY <1>1, <1>5, <2>2, SameDrag DEF TakeDeleted
<1>6. CASE TakeReordered
    <2>1. Applied(Head(evals), entries) = entries /\ ~FailedReorder(Head(evals))
        BY <1>6 DEF TakeReordered, Answered, Hearing, Applied, FailedReorder
    <2>2. Hears
        BY <1>1, <1>6, <2>1 DEF TakeReordered, Answered, Hearing, Hears, list
    <2> QED
        BY <1>1, <1>6, <2>2, SameDrag DEF TakeReordered
<1>7. CASE TakeFailure
    <2>1. Applied(Head(evals), entries) = entries /\ ~FailedReorder(Head(evals))
        BY <1>7 DEF TakeFailure, Hearing, Applied, FailedReorder
    <2>2. Hears
        BY <1>1, <1>7, <2>1 DEF TakeFailure, Hearing, Hears, list
    <2> QED
        BY <1>1, <1>7, <2>2, SameDrag DEF TakeFailure
<1>8. CASE TakeFailedReorder
    <2>1. Refreshes
        BY <1>1, <1>8 DEF TakeFailedReorder, Hearing, Refreshes
    <2> QED
        BY <1>1, <1>8, <2>1, SameDrag DEF TakeFailedReorder
<1> QED
    BY <1>2, <1>3, <1>4, <1>5, <1>6, <1>7, <1>8

LEMMA AbortedDrag ==
    ASSUME Typed, Aborted
    PROVE  DragKept
    BY SameDrag DEF Aborted

LEMMA HearsSilently ==
    ASSUME evals # <<>>, Silent(Head(evals)), evals' = Tail(evals),
           UNCHANGED <<stored, given, list>>
    PROVE  Hears
<1>1. Applied(Head(evals), entries) = entries /\ ~FailedReorder(Head(evals))
    BY DEF Applied, Silent, FailedReorder
<1> QED
    BY <1>1 DEF Hears, list

LEMMA MessageSteps ==
    ASSUME Typed, TakeMenuReply \/ TakeSlide \/ TakeRest
    PROVE  DragKept /\ (Hears \/ Refreshes \/ Rearranges)
<1>1. CASE TakeMenuReply
    <2>1. /\ evals # <<>> /\ Silent(Head(evals)) /\ evals' = Tail(evals)
          /\ UNCHANGED <<stored, given, drag>>
        BY <1>1 DEF TakeMenuReply, Settling, Silent, go, mouse
    <2>2. CASE UNCHANGED list
        BY <2>1, <2>2, HearsSilently, SameDrag
    <2>3. CASE \E id, dir : MoveBy(id, dir)
        <3>1. PICK id, dir : MoveBy(id, dir)
            BY <2>3
        <3>2. CASE UNCHANGED <<entries, calls, overlapped>>
            <4>1. Applied(Head(evals), entries) = entries /\ ~FailedReorder(Head(evals))
                BY <2>1 DEF Applied, Silent, FailedReorder
            <4>2. Hears
                BY <2>1, <3>2, <4>1 DEF Hears
            <4> QED
                BY <2>1, <4>2, SameDrag
        <3> QED
            BY <2>1, <3>1, <3>2, MoveBySteps, SameDrag DEF Listens
    <2>4. (\E id, dir : MoveBy(id, dir)) \/ UNCHANGED list
        BY <1>1 DEF TakeMenuReply
    <2> QED
        BY <2>2, <2>3, <2>4
<1>2. CASE TakeSlide
    <2>1. /\ evals # <<>> /\ Silent(Head(evals)) /\ evals' = Tail(evals)
          /\ UNCHANGED <<stored, given, list>> /\ Aborted
        BY <1>2 DEF TakeSlide, Hearing, Silent, go
    <2> QED
        BY <2>1, HearsSilently, AbortedDrag
<1>3. CASE TakeRest
    <2>1. /\ evals # <<>> /\ Silent(Head(evals)) /\ evals' = Tail(evals)
          /\ UNCHANGED <<stored, given, list, drag>>
        BY <1>3 DEF TakeRest, Hearing, Silent, go, mouse
    <2> QED
        BY <2>1, HearsSilently, SameDrag
<1> QED
    BY <1>1, <1>2, <1>3

LEMMA WindowSteps ==
    ASSUME Typed, Hide \/ Show \/ SlideEnds \/ OpenMenu \/ UsePopup
    PROVE  DragKept /\ Idles /\ UNCHANGED drag
<1>0. MenuTypes /\ evals \in Seq(Event)
    BY DEF Typed, PageTypes
<1>1. UNCHANGED <<stored, given, calls, entries, overlapped, drag>>
    BY DEF Hide, Show, SlideEnds, OpenMenu, UsePopup, WindowUnchanged, go, list, mouse
<1> DEFINE r == Reported(NoPick)
<1>2. NoPick \in Picks
    BY DEF Picks
<1>3. r \in Seq(Event) /\ \A k \in 1..Len(r) : Silent(r[k])
    BY <1>0, <1>2, ReportedSilent
<1>4. CASE Hide
    <2> DEFINE e == Told("slides")
    <2>1. e \in Event /\ Silent(e)
        BY SilentMade
    <2>2. evals' = evals \o r \o <<e>>
        BY <1>4 DEF Hide
    <2> HIDE DEF r, e
    <2>3. Extends(evals, evals')
        BY <1>0, <1>3, <2>1, <2>2, ExtendsFacts
    <2> QED
        BY <1>1, <2>3, SameDrag DEF Idles
<1>5. CASE Show \/ SlideEnds
    <2>1. PICK kind \in {"slides", "rests", "parked"} : evals' = Append(evals, Told(kind))
        BY <1>5 DEF Show, SlideEnds, Replying
    <2> DEFINE e == Told(kind)
    <2>2. e \in Event /\ Silent(e)
        BY SilentMade
    <2> HIDE DEF e
    <2>3. Extends(evals, evals')
        BY <1>0, <2>1, <2>2, ExtendsFacts DEF e
    <2> QED
        BY <1>1, <2>3, SameDrag DEF Idles
<1>6. CASE OpenMenu
    <2>0. opens # <<>> /\ opens \in Seq(Nat)
        BY <1>0, <1>6 DEF OpenMenu, Opening, MenuTypes
    <2> DEFINE e == Reply(Head(opens), NoPick)
    <2>1. e \in Event /\ Silent(e)
        BY <2>0, <1>2, SilentMade
    <2>2. evals' = evals \o r \/ evals' = evals \o r \o <<e>> \/ evals' = Append(evals, e)
        BY <1>6 DEF OpenMenu, Opening, Refuses, Shows, CannotCreate
    <2> HIDE DEF e, r
    <2>3. Extends(evals, evals')
        BY <1>0, <1>3, <2>1, <2>2, ExtendsFacts
    <2> QED
        BY <1>1, <2>3, SameDrag DEF Idles
<1>7. CASE UsePopup
    <2>1. CASE Pointing \/ Walking
        <3>1. evals' = evals
            BY <2>1 DEF Pointing, Walking, Highlighting
        <3> QED
            BY <1>0, <1>1, <3>1, ExtendsFacts, SameDrag DEF Idles
    <2>2. CASE Dismissing
        <3>1. evals' = evals \o r
            BY <2>2 DEF Dismissing
        <3> HIDE DEF r
        <3>2. Extends(evals, evals')
            BY <1>0, <1>3, <3>1, ExtendsFacts
        <3> QED
            BY <1>1, <3>2, SameDrag DEF Idles
    <2>3. CASE Clicking \/ Entering
        <3>1. PICK row \in 1..4 : Finishing(row)
            <4>1. CASE Clicking
                BY <4>1, PickableRows DEF Clicking
            <4>2. CASE Entering
                BY <4>2, <1>0 DEF Entering, MenuTypes
            <4> QED
                BY <2>3, <4>1, <4>2
        <3>2. Rows[row] \in Picks
            BY RowsOfMenu DEF Picks
        <3> DEFINE q == Reported(Rows[row])
        <3>3. q \in Seq(Event) /\ \A k \in 1..Len(q) : Silent(q[k])
            BY <1>0, <3>2, ReportedSilent
        <3>4. evals' = evals \o q
            BY <3>1 DEF Finishing
        <3> HIDE DEF q
        <3>5. Extends(evals, evals')
            BY <1>0, <3>3, <3>4, ExtendsFacts
        <3> QED
            BY <1>1, <3>5, SameDrag DEF Idles
    <2> QED
        BY <1>7, <2>1, <2>2, <2>3 DEF UsePopup
<1> QED
    BY <1>4, <1>5, <1>6, <1>7

LEMMA UserSteps ==
    ASSUME Typed, AskMenu \/ UseForm \/ MoveByKey \/ ClickByKey \/ Search
    PROVE  /\ DragKept /\ (Idles \/ Posts \/ Refreshes \/ Rearranges)
           /\ UNCHANGED drag
<1>0. evals \in Seq(Event) /\ entries \in Seq(CardSet)
    BY DEF Typed, PageTypes, ListTypes
<1>1. UNCHANGED <<stored, given, drag, evals>>
    BY DEF AskMenu, UseForm, MoveByKey, ClickByKey, Search, Asking, go, mouse
<1>2. UNCHANGED <<calls, entries, overlapped>> => Idles
    BY <1>0, <1>1, ExtendsFacts DEF Idles
<1>3. CASE AskMenu \/ Search
    <2>1. UNCHANGED list
        BY <1>3 DEF AskMenu, Search
    <2> QED
        BY <1>1, <1>2, <2>1, SameDrag DEF list
<1>4. CASE UseForm
    <2>1. UNCHANGED <<entries, overlapped>>
        BY <1>4 DEF UseForm
    <2>2. PICK call \in SomeCall : /\ call.op \notin {"list", "reorder"}
                                   /\ call.op = "delete" => call.id \in Ids(entries)
                                   /\ calls' = Append(calls, call)
        <3>1. CASE \E text \in Labels : Posting([op |-> "create", text |-> text])
            BY <3>1, MadeRight DEF Posting
        <3>2. CASE \E id \in Ids(entries), text \in Labels :
                       Posting([op |-> "update", id |-> id, text |-> text])
            <4>1. PICK id \in Ids(entries), text \in Labels :
                       Posting([op |-> "update", id |-> id, text |-> text])
                BY <3>2
            <4>2. id \in Nat
                BY <1>0, CardFacts DEF Ids
            <4> QED
                BY <4>1, <4>2, MadeRight DEF Posting
        <3>3. CASE \E id \in Ids(entries) : Posting([op |-> "delete", id |-> id])
            <4>1. PICK id \in Ids(entries) : Posting([op |-> "delete", id |-> id])
                BY <3>3
            <4>2. id \in Nat
                BY <1>0, CardFacts DEF Ids
            <4> QED
                BY <4>1, <4>2, MadeRight DEF Posting
        <3> QED
            BY <1>4, <3>1, <3>2, <3>3 DEF UseForm
    <2>3. Posts
        <3>1. /\ call.op \notin {"list", "reorder"}
              /\ call.op = "delete" => call.id \in Ids(entries)
              /\ calls' = Append(calls, call)
              /\ UNCHANGED <<stored, given, evals, entries, overlapped>>
            BY <1>1, <2>1, <2>2
        <3> QED
            BY <3>1 DEF Posts
    <2> QED
        BY <1>1, <2>3, SameDrag
<1>5. CASE MoveByKey
    <2>1. PICK id, dir : MoveBy(id, dir)
        BY <1>5 DEF MoveByKey
    <2>2. UNCHANGED <<entries, calls, overlapped>> \/ Refreshes \/ Rearranges
        BY <1>1, <2>1, MoveBySteps DEF Listens
    <2> QED
        BY <1>1, <1>2, <2>2, SameDrag
<1>6. CASE ClickByKey
    <2>1. UNCHANGED <<entries, overlapped>> /\ (UNCHANGED calls \/ Posting([op |-> "copy"]))
        BY <1>6 DEF ClickByKey
    <2>2. Idles \/ Posts
        BY <1>1, <1>2, <2>1, MadeRight DEF Posts, Posting
    <2> QED
        BY <1>1, <2>2, SameDrag
<1> QED
    BY <1>3, <1>4, <1>5, <1>6

\* What a drag holds is what is on the page, in another order.
LEMMA DragStep ==
    ASSUME Typed, Drag
    PROVE  DragKept
<1>0. entries \in Seq(CardSet) /\ UniqueIds(entries) /\ DragTypes /\ Distinct(drag.order)
    BY DEF Typed, PageTypes, ListTypes
<1> DEFINE order == IF drag.at = "pressed" THEN CardIds(Filtered) ELSE drag.order
<1>1. /\ order \in Seq(Nat) /\ Distinct(order)
      /\ SetOf(order) \subseteq Ids(entries) \cup SetOf(drag.order)
    <2>1. CASE drag.at = "pressed"
        <3>1. Filtered \in Seq(CardSet) /\ Ids(Filtered) \subseteq Ids(entries) /\ UniqueIds(Filtered)
            BY <1>0, FilteredTypes
        <3>2. order = CardIds(Filtered)
            BY <2>1
        <3> HIDE DEF order
        <3> QED
            BY <3>1, <3>2, CardIdsOf
    <2>2. CASE drag.at # "pressed"
        BY <2>2, <1>0 DEF DragTypes
    <2> QED
        BY <2>1, <2>2
<1>2. PICK k \in IF loading THEN {1} ELSE DOMAIN order :
          drag' = [at |-> "dragging", id |-> drag.id,
                   order |-> IF drag.id \in {order[p] : p \in DOMAIN order}
                             THEN MovedTo(order, drag.id, k) ELSE order]
    BY DEF Drag
<1> HIDE DEF order
<1>3. CASE drag.id \in SetOf(order)
    <2>1. drag' = [at |-> "dragging", id |-> drag.id, order |-> MovedTo(order, drag.id, k)]
        BY <1>2, <1>3 DEF SetOf
    <2>2. k \in DOMAIN order
        <3>1. DOMAIN order = 1..Len(order) /\ Len(order) \in Nat
            BY <1>1
        <3>2. DOMAIN order # {}
            BY <1>3 DEF SetOf
        <3>3. 1 \in DOMAIN order
            BY <3>1, <3>2
        <3> QED
            BY <3>3, <1>2
    <2>3. /\ MovedTo(order, drag.id, k) \in Seq(Nat)
          /\ SetOf(MovedTo(order, drag.id, k)) \subseteq SetOf(order)
          /\ Distinct(MovedTo(order, drag.id, k))
        BY <1>1, <1>3, <2>2, MovedIds
    <2> QED
        BY <1>0, <1>1, <2>1, <2>3 DEF DragKept, DragTypes
<1>4. CASE drag.id \notin SetOf(order)
    <2>1. drag' = [at |-> "dragging", id |-> drag.id, order |-> order]
        BY <1>2, <1>4 DEF SetOf
    <2> QED
        BY <1>0, <1>1, <2>1 DEF DragKept, DragTypes
<1> QED
    BY <1>3, <1>4

LEMMA MouseSteps ==
    ASSUME Typed,
           \/ Press \/ Drag \/ Release \/ Click \/ ReleaseUnseen \/ MoveWithoutButton
           \/ PointerCancel \/ Escape \/ Blur
    PROVE  DragKept /\ (Idles \/ Posts \/ Refreshes \/ Rearranges)
<1>0. /\ evals \in Seq(Event) /\ entries \in Seq(CardSet) /\ DragTypes
      /\ UniqueIds(entries) /\ Distinct(drag.order)
    BY DEF Typed, PageTypes, ListTypes
<1>1. UNCHANGED <<stored, given, evals>>
    BY DEF Press, Drag, Release, Click, ReleaseUnseen, MoveWithoutButton, PointerCancel,
           Escape, Blur, MouseUnchanged, go
<1>2. UNCHANGED <<calls, entries, overlapped>> => Idles
    BY <1>0, <1>1, ExtendsFacts DEF Idles
<1>3. CASE Press
    <2>1. PICK p \in DOMAIN Rendered : PressOn(Rendered[p])
        BY <1>3 DEF Press
    <2>2. Rendered[p] \in Nat
        BY <1>0, <2>1, RenderedTypes
    <2>3. drag' = [NoDrag EXCEPT !.at = "pressed", !.id = Rendered[p]] \/ drag' = drag
        BY <2>1 DEF PressOn
    <2>4. DragKept
        <3>1. CASE drag' = drag
            BY <3>1, SameDrag
        <3>2. CASE drag' = [NoDrag EXCEPT !.at = "pressed", !.id = Rendered[p]]
            <4>1. drag'.order = <<>> /\ drag'.at = "pressed" /\ drag'.id = Rendered[p]
                BY <3>2 DEF NoDrag
            <4> QED
                BY <2>2, <4>1 DEF DragKept, DragTypes, Distinct, SetOf
        <3> QED
            BY <2>3, <3>1, <3>2
    <2>5. UNCHANGED list
        BY <1>3 DEF Press
    <2> QED
        BY <1>2, <2>4, <2>5 DEF list
<1>4. CASE Drag
    <2>1. UNCHANGED list
        BY <1>4 DEF Drag
    <2> QED
        BY <1>2, <1>4, <2>1, DragStep DEF list
<1>5. CASE Release
    <2>1. drag' = drag \/ drag' = NoDrag
        BY <1>5 DEF Release
    <2>2. UNCHANGED list \/ (drag.at = "dragging" /\ ReorderEntries(drag.order))
        BY <1>5 DEF Release, Drop
    <2>3. CASE UNCHANGED list
        BY <1>2, <2>1, <2>3, SameDrag DEF list
    <2>4. CASE ReorderEntries(drag.order)
        <3>1. drag.order \in Seq(Nat) /\ Listens
            BY <1>0, <1>1 DEF DragTypes, Listens
        <3>2. Refreshes \/ Rearranges
            BY <1>0, <1>1, <2>4, <3>1, ReorderSteps
        <3> QED
            BY <2>1, <3>2, SameDrag
    <2> QED
        BY <2>2, <2>3, <2>4
<1>6. CASE Click
    <2>1. UNCHANGED <<entries, overlapped, drag>> /\ (UNCHANGED calls \/ Posting([op |-> "copy"]))
        BY <1>6 DEF Click
    <2>2. Idles \/ Posts
        BY <1>1, <1>2, <2>1, MadeRight DEF Posts, Posting
    <2> QED
        BY <2>1, <2>2, SameDrag
<1>7. CASE ReleaseUnseen \/ MoveWithoutButton \/ PointerCancel \/ Escape
    <2>1. UNCHANGED list /\ (drag' = drag \/ drag' = NoDrag)
        BY <1>7 DEF ReleaseUnseen, MoveWithoutButton, PointerCancel, Escape
    <2> QED
        BY <1>2, <2>1, SameDrag DEF list
<1>8. CASE Blur
    <2>1. UNCHANGED list /\ Aborted
        BY <1>8 DEF Blur
    <2> QED
        BY <1>2, <2>1, AbortedDrag DEF list
<1> QED
    BY <1>3, <1>4, <1>5, <1>6, <1>7, <1>8

LEMMA PageSteps ==
    ASSUME Typed, [PageNext]_pageVars
    PROVE  DragKept /\ Steps
<1>1. CASE UNCHANGED pageVars
    <2>1. UNCHANGED <<stored, given, calls, entries, overlapped, evals, drag>>
        BY <1>1 DEF pageVars, go, list, mouse
    <2>2. Idles
        BY <2>1, ExtendsFacts DEF Idles, Typed, PageTypes
    <2> QED
        BY <2>1, <2>2, SameDrag DEF Steps
<1>2. CASE PageNext
    BY <1>2, ServeSteps, TakeSteps, MessageSteps, WindowSteps, UserSteps, MouseSteps
        DEF PageNext, Steps
<1> QED
    BY <1>1, <1>2

-----------------------------------------------------------------------------
\* The types are kept

LEMMA RefreshTypes ==
    ASSUME Typed, Refresh
    PROVE  calls' \in Seq(SomeCall) /\ entries' = entries
<1>1. [op |-> "list"] \in SomeCall
    BY MadeRight
<1> QED
    BY <1>1 DEF Refresh, Posting, Typed, PageTypes, ListTypes

LEMMA AppliedTypes ==
    ASSUME NEW e \in Event, NEW cs \in Seq(CardSet)
    PROVE  Applied(e, cs) \in Seq(CardSet)
<1>1. CASE e.kind # "done"
    BY <1>1 DEF Applied
<1>2. CASE e.kind = "done"
    <2>1. e.call.op \in {"list", "copy", "create", "update", "delete", "reorder"}
        BY <1>2, EventFacts, CallFacts
    <2>2. CASE e.call.op = "list"
        BY <1>2, <2>2, EventFacts DEF Applied
    <2>3. CASE e.call.op = "create"
        <3>1. e.result \in CardSet
            BY <1>2, <2>3, EventFacts
        <3>2. <<e.result>> \o cs \in Seq(CardSet)
            BY <3>1
        <3> QED
            BY <1>2, <2>3, <3>2 DEF Applied
    <2>4. CASE e.call.op = "update"
        <3>1. e.result \in CardSet
            BY <1>2, <2>4, EventFacts
        <3> QED
            BY <1>2, <2>4, <3>1, WithCardFacts DEF Applied
    <2>5. CASE e.call.op = "delete"
        BY <1>2, <2>5, DroppedFacts DEF Applied
    <2>6. CASE e.call.op \in {"copy", "reorder"}
        BY <1>2, <2>6 DEF Applied
    <2> QED
        BY <2>1, <2>2, <2>3, <2>4, <2>5, <2>6
<1> QED
    BY <1>1, <1>2

LEMMA CallInFront ==
    ASSUME Typed, calls # <<>>
    PROVE  Head(calls) \in SomeCall /\ Head(calls) = calls[1] /\ Tail(calls) \in Seq(SomeCall)
    BY TailOf DEF Typed, PageTypes, ListTypes

\* What Go answers a call with.
LEMMA DoneTypes ==
    ASSUME NEW s \in Seq(Event), NEW call \in SomeCall, NEW r,
           \/ call.op = "list" /\ r \in Seq(CardSet)
           \/ call.op \in {"create", "update"} /\ r \in CardSet
           \/ call.op = "delete" /\ r \in Nat
           \/ call.op = "reorder" /\ r \in Seq(Nat)
    PROVE  Done(call, r) \in Event /\ Append(s, Done(call, r)) \in Seq(Event)
<1>1. r \in Result(call)
    BY CallFacts DEF Result
<1>2. Done(call, r) \in Event
    BY <1>1, MadeRight
<1> QED
    BY <1>2, OneMore

\* A reordering that Go takes has the ids of the list, each of them once.
LEMMA ReorderingIds ==
    ASSUME NEW es, WellNumbered(es), NEW ids \in Seq(Nat), IsReordering(es, ids)
    PROVE  /\ SetOf(ids) = Ids(es) /\ Distinct(ids) /\ Len(ids) = Len(es)
           /\ ids \in [DOMAIN es -> Ids(es)]
<1> DEFINE n == Len(es)
           place(i) == CHOOSE p \in 1..n : ids[p] = es[i].id
           D == 1..n
           f == [i \in D |-> place(i)]
<1>1. /\ n \in Nat /\ DOMAIN es = 1..n /\ Len(ids) = n /\ DOMAIN ids = 1..n
      /\ UniqueIds(es)
    <2>1. es \in Seq(Row) /\ Len(ids) = n /\ UniqueIds(es)
        BY DEF WellNumbered, IsReordering
    <2> QED
        BY <2>1, RowFacts, IdFacts
<1> HIDE DEF n
<1>2. \A i \in 1..n : place(i) \in 1..n /\ ids[place(i)] = es[i].id
    <2>1. ASSUME NEW i \in 1..n
          PROVE  \E p \in 1..n : ids[p] = es[i].id
        BY <1>1 DEF IsReordering, Ids
    <2> QED
        BY <2>1
<1> HIDE DEF place
<1>3. f \in [D -> 1..n]
    BY <1>2
<1>4. \A x, y \in D : f[x] = f[y] => x = y
    <2> SUFFICES ASSUME NEW x \in D, NEW y \in D, f[x] = f[y]
                 PROVE  x = y
        OBVIOUS
    <2>1. place(x) = place(y)
        OBVIOUS
    <2>2. es[x].id = es[y].id
        BY <2>1, <1>2
    <2> QED
        BY <2>2, <1>1 DEF UniqueIds
<1>5. IsFiniteSet(D) /\ Cardinality(D) = n
    BY <1>1, FS_Interval
<1>6. \A p \in 1..n : \E x \in D : f[x] = p
    <2> HIDE DEF D, f
    <2> QED
        BY <1>1, <1>3, <1>4, <1>5, Pigeonhole
<1>7. ASSUME NEW p \in 1..n
      PROVE  ids[p] \in Ids(es)
    <2>1. PICK x \in 1..n : place(x) = p
        BY <1>6
    <2> QED
        BY <2>1, <1>1, <1>2 DEF Ids
<1>8. SetOf(ids) = Ids(es)
    BY <1>1, <1>7 DEF IsReordering, SetOf
<1>9. Distinct(ids)
    BY DEF IsReordering, Distinct
<1> QED
    BY <1>1, <1>7, <1>8, <1>9 DEF n

LEMMA ServeTypes ==
    ASSUME Typed, Serves
    PROVE  ListTypes' /\ evals' \in Seq(Event) /\ UNCHANGED <<entries, overlapped, drag>>
<1>1. GoUnchanged => UNCHANGED <<entries, overlapped, drag>>
    BY DEF GoUnchanged, mouse
<1>2. /\ WellNumbered(stored) /\ Below(stored, given) /\ given \in Nat
      /\ stored \in Seq(Row) /\ evals \in Seq(Event) /\ entries \in Seq(CardSet)
    BY DEF Typed, PageTypes, ListTypes, WellNumbered
<1> DEFINE c == Head(calls)
<1>3. calls # <<>> /\ calls' = Tail(calls)
    BY DEF Serves, ServeList, ServeCreate, ServeUpdate, ServeDelete, ServeReorder, ServeCopy,
           Serving, Fails
<1>4. c \in SomeCall /\ calls' \in Seq(SomeCall)
    BY <1>3, CallInFront
<1> HIDE DEF c
<1>5. CASE ServeList
    <2> DEFINE r == Cards(Listed(stored))
    <2>1. Listed(stored) \in Seq(Row)
        BY <1>2, ListedByOrder
    <2>2. r \in Seq(CardSet)
        BY <2>1, CardsOf
    <2>3. evals' = Append(evals, Done(c, r)) /\ c = [op |-> "list"]
        BY <1>5 DEF ServeList, Replying, Serving, c
    <2>4. c.op = "list"
        BY <2>3
    <2> HIDE DEF r
    <2>5. evals' \in Seq(Event)
        BY <1>2, <1>4, <2>2, <2>3, <2>4, DoneTypes
    <2> QED
        BY <1>1, <1>2, <1>4, <1>5, <2>5 DEF ServeList, ListTypes
<1>6. CASE ServeCreate
    <2> DEFINE r == Card(given + 1, c.text)
    <2>1. c.op = "create" /\ c.text \in Labels /\ given + 1 \in Nat
        BY <1>2, <1>4, <1>6, CallFacts DEF ServeCreate, c
    <2>2. r \in CardSet
        BY <2>1, MadeCard
    <2>3. evals' = Append(evals, Done(c, r))
        BY <1>6 DEF ServeCreate, Replying, c
    <2> HIDE DEF r
    <2>4. evals' \in Seq(Event)
        BY <1>2, <1>4, <2>1, <2>2, <2>3, DoneTypes
    <2>5. given' = given + 1 /\ stored' = Created(stored, given + 1, c.text)
        BY <1>6 DEF ServeCreate, c
    <2>6. WellNumbered(stored') /\ Below(stored', given')
        BY <1>2, <2>1, <2>5, CreatedKeeps
    <2> QED
        BY <1>1, <1>2, <1>4, <1>6, <2>1, <2>4, <2>5, <2>6 DEF ServeCreate, ListTypes
<1>7. CASE ServeUpdate
    <2> DEFINE r == Card(c.id, c.text)
    <2>1. /\ c.op = "update" /\ c.text \in Labels /\ c.id \in Nat /\ c.id \in Ids(stored)
          /\ stored' = Updated(stored, c.id, c.text) /\ given' = given
        BY <1>4, <1>7, CallFacts DEF ServeUpdate, Known, c
    <2>2. r \in CardSet
        BY <2>1, MadeCard
    <2>3. evals' = Append(evals, Done(c, r))
        BY <1>7 DEF ServeUpdate, Replying, c
    <2> HIDE DEF r
    <2>4. evals' \in Seq(Event)
        BY <1>2, <1>4, <2>1, <2>2, <2>3, DoneTypes
    <2>5. WellNumbered(stored') /\ Below(stored', given')
        BY <1>2, <2>1, UpdatedKeeps
    <2> QED
        BY <1>1, <1>2, <1>4, <1>7, <2>1, <2>4, <2>5 DEF ServeUpdate, ListTypes
<1>8. CASE ServeDelete
    <2>1. /\ c.op = "delete" /\ c.id \in Nat /\ c.id \in Ids(stored)
          /\ stored' = Deleted(stored, c.id) /\ given' = given
        BY <1>4, <1>8, CallFacts DEF ServeDelete, Known, c
    <2>2. evals' = Append(evals, Done(c, c.id))
        BY <1>8 DEF ServeDelete, Replying, c
    <2>3. evals' \in Seq(Event)
        BY <1>2, <1>4, <2>1, <2>2, DoneTypes
    <2>4. WellNumbered(stored') /\ Below(stored', given')
        BY <1>2, <2>1, DeletedKeeps
    <2> QED
        BY <1>1, <1>2, <1>4, <1>8, <2>1, <2>3, <2>4 DEF ServeDelete, ListTypes
<1>9. CASE ServeReorder
    <2>1. /\ c.op = "reorder" /\ c.ids \in Seq(Nat) /\ IsReordering(stored, c.ids)
          /\ stored' = Reordered(stored, c.ids) /\ given' = given
        BY <1>4, <1>9, CallFacts DEF ServeReorder, c
    <2>2. evals' = Append(evals, Done(c, c.ids))
        BY <1>9 DEF ServeReorder, Replying, c
    <2>3. evals' \in Seq(Event)
        BY <1>2, <1>4, <2>1, <2>2, DoneTypes
    <2>4. WellNumbered(stored') /\ Below(stored', given')
        BY <1>2, <2>1, ReorderingIds, ReorderedKeeps
    <2> QED
        BY <1>1, <1>2, <1>4, <1>9, <2>1, <2>3, <2>4 DEF ServeReorder, ListTypes
<1>10. CASE ServeCopy
    BY <1>1, <1>2, <1>4, <1>10 DEF ServeCopy, ListTypes
<1>11. CASE Fails
    <2>1. Failed(c) \in Event
        BY <1>4, MadeRight
    <2>2. evals' \in Seq(Event)
        BY <1>2, <1>11, <2>1, OneMore DEF Fails, c
    <2> QED
        BY <1>2, <1>4, <1>11, <2>2 DEF Fails, ListTypes
<1> QED
    BY <1>5, <1>6, <1>7, <1>8, <1>9, <1>10, <1>11 DEF Serves

LEMMA ListTypesStep ==
    ASSUME Typed, Steps
    PROVE  ListTypes' /\ evals' \in Seq(Event)
<1>1. ListTypes /\ evals \in Seq(Event) /\ entries \in Seq(CardSet) /\ calls \in Seq(SomeCall)
    BY DEF Typed, PageTypes, ListTypes
<1>2. CASE Idles
    BY <1>1, <1>2 DEF Idles, Extends, ListTypes
<1>3. CASE Hears
    <2>1. Head(evals) \in Event /\ Tail(evals) \in Seq(Event)
        BY <1>1, <1>3, TailOf DEF Hears
    <2>2. entries' \in Seq(CardSet)
        BY <1>1, <1>3, <2>1, AppliedTypes DEF Hears
    <2> QED
        BY <1>1, <1>3, <2>1, <2>2 DEF Hears, ListTypes
<1>4. CASE Posts
    <2>1. PICK call \in SomeCall : calls' = Append(calls, call)
        BY <1>4 DEF Posts
    <2>2. calls' \in Seq(SomeCall)
        BY <1>1, <2>1, OneMore
    <2> QED
        BY <1>1, <1>4, <2>2 DEF Posts, ListTypes
<1>5. CASE Refreshes
    <2>1. evals' \in Seq(Event)
        BY <1>1, <1>5, TailOf DEF Refreshes
    <2>2. calls' \in Seq(SomeCall) /\ entries' = entries
        BY <1>5, RefreshTypes DEF Refreshes
    <2> QED
        BY <1>1, <1>5, <2>1, <2>2 DEF Refreshes, ListTypes
<1>6. CASE Rearranges
    <2>1. PICK ids \in Seq(Nat) : ShowsOrder(ids)
        BY <1>6 DEF Rearranges
    <2>2. evals' \in Seq(Event)
        BY <1>1, <2>1, TailOf DEF ShowsOrder, Listens
    <2>3. entries' \in Seq(CardSet)
        BY <1>1, <2>1, InOrderFacts DEF ShowsOrder
    <2>4. calls' \in Seq(SomeCall)
        <3>1. [op |-> "reorder", ids |-> ids] \in SomeCall
            BY MadeRight
        <3> QED
            BY <1>1, <2>1, <3>1, OneMore DEF ShowsOrder
    <2> QED
        BY <1>1, <2>1, <2>2, <2>3, <2>4 DEF ShowsOrder, ListTypes
<1>7. CASE Serves
    BY <1>7, ServeTypes
<1> QED
    BY <1>2, <1>3, <1>4, <1>5, <1>6, <1>7 DEF Steps

-----------------------------------------------------------------------------
\* The menu

\* The answers to menus that the page has not taken yet.
Replies == {e \in SetOf(evals) : e.kind = "menu"}

\* How many of the menus asked for Go has come to.
Opened == Last - Len(opens)

\* The requests reach Go in order, so the popup on the screen is of the last
\* one Go came to, and its answer is not on its way; the page waits for no
\* menu or for the newest.
MenuOrder ==
    /\ waiting \in {0, Last} /\ Last <= MaxMenus /\ Len(opens) <= Last
    /\ \A i \in 1..Len(opens) : opens[i] = Opened + i
    /\ popup.token \in {0, Opened} /\ (popup.token = 0 => popup = NoPopup)
    /\ Hidden => popup = NoPopup
    /\ waiting = 0 => opens = <<>> /\ popup = NoPopup

\* A menu that is waited for will be heard of.
MenuComes ==
    waiting # 0 => opens # <<>> \/ popup.token = Last \/ \E e \in Replies : e.token = Last

RepliesMatch ==
    \A e \in Replies : e.token \in 1..Opened /\ e.token # popup.token /\ e.pick = chosen[e.token]

PicksMatch ==
    /\ \A t \in Tokens : t > Opened \/ t = popup.token => chosen[t] = NoPick
    /\ \A t \in 1..Last : chosen[t] # NoPick => chosen[t] \in asked[t].enabled
    /\ popup.hovered # 0 => popup.hovered \in Pickable(popup.token)

SettledOnce ==
    /\ \A t \in 1..Last : settled[t] = Unsettled <=> t = waiting
    /\ \A t \in Tokens : t > Last => settled[t] = Unsettled

MenuInv == MenuOrder /\ MenuComes /\ RepliesMatch /\ PicksMatch /\ SettledOnce

LEMMA SetOfOneMore ==
    ASSUME NEW T, NEW u \in Seq(T), NEW x \in T
    PROVE  SetOf(Append(u, x)) = SetOf(u) \cup {x}
<1> DEFINE v == Append(u, x)
<1>1. /\ Len(u) \in Nat /\ DOMAIN u = 1..Len(u) /\ DOMAIN v = 1..(Len(u) + 1)
      /\ v[Len(u) + 1] = x /\ \A k \in 1..Len(u) : v[k] = u[k]
    OBVIOUS
<1> HIDE DEF v
<1>2. \A k \in 1..(Len(u) + 1) : k \in 1..Len(u) \/ k = Len(u) + 1
    BY <1>1
<1>3. SetOf(v) \subseteq SetOf(u) \cup {x}
    BY <1>1, <1>2 DEF SetOf
<1>4. x \in SetOf(v)
    <2>1. Len(u) + 1 \in DOMAIN v
        BY <1>1
    <2> QED
        BY <2>1, <1>1 DEF SetOf
<1>5. SetOf(u) \subseteq SetOf(v)
    BY <1>1 DEF SetOf
<1> QED
    BY <1>3, <1>4, <1>5 DEF v

LEMMA SetOfJoined ==
    ASSUME NEW T, NEW s \in Seq(T), NEW t \in Seq(T)
    PROVE  SetOf(s \o t) = SetOf(s) \cup SetOf(t)
<1> DEFINE v == s \o t
<1>1. /\ Len(s) \in Nat /\ Len(t) \in Nat /\ DOMAIN s = 1..Len(s) /\ DOMAIN t = 1..Len(t)
      /\ v \in Seq(T) /\ Len(v) = Len(s) + Len(t)
      /\ \A k \in 1..(Len(s) + Len(t)) : v[k] = IF k <= Len(s) THEN s[k] ELSE t[k - Len(s)]
    BY Joined
<1>2. DOMAIN v = 1..(Len(s) + Len(t))
    <2> HIDE DEF v
    <2> QED
        BY <1>1
<1> HIDE DEF v
<1>3. ASSUME NEW x \in SetOf(v) PROVE x \in SetOf(s) \cup SetOf(t)
    <2>1. PICK k \in 1..(Len(s) + Len(t)) : x = v[k]
        BY <1>2 DEF SetOf
    <2>2. CASE k <= Len(s)
        <3>1. x = s[k] /\ k \in 1..Len(s)
            BY <2>1, <2>2, <1>1
        <3> QED
            BY <3>1, <1>1 DEF SetOf
    <2>3. CASE k > Len(s)
        <3>1. x = t[k - Len(s)] /\ k - Len(s) \in 1..Len(t)
            BY <2>1, <2>3, <1>1
        <3> QED
            BY <3>1, <1>1 DEF SetOf
    <2> QED
        BY <2>2, <2>3, <1>1
<1>4. ASSUME NEW x \in SetOf(s) PROVE x \in SetOf(v)
    <2>1. PICK k \in 1..Len(s) : x = s[k]
        BY <1>1 DEF SetOf
    <2>2. k \in DOMAIN v /\ v[k] = x
        BY <2>1, <1>1, <1>2
    <2> QED
        BY <2>2 DEF SetOf
<1>5. ASSUME NEW x \in SetOf(t) PROVE x \in SetOf(v)
    <2>1. PICK k \in 1..Len(t) : x = t[k]
        BY <1>1 DEF SetOf
    <2>2. k + Len(s) \in 1..(Len(s) + Len(t)) /\ ~(k + Len(s) <= Len(s)) /\ k + Len(s) - Len(s) = k
        BY <1>1
    <2>3. v[k + Len(s)] = x
        BY <2>1, <2>2, <1>1
    <2> QED
        BY <2>2, <2>3, <1>2 DEF SetOf
<1> QED
    BY <1>3, <1>4, <1>5 DEF v

LEMMA SetOfTail ==
    ASSUME NEW T, NEW s \in Seq(T), s # <<>>
    PROVE  SetOf(s) = {Head(s)} \cup SetOf(Tail(s))
<1>1. /\ Len(s) \in Nat \ {0} /\ DOMAIN s = 1..Len(s) /\ Head(s) = s[1]
      /\ DOMAIN Tail(s) = 1..(Len(s) - 1)
      /\ \A k \in 1..(Len(s) - 1) : Tail(s)[k] = s[k + 1]
    OBVIOUS
<1> DEFINE u == Tail(s)
<1> HIDE DEF u
<1>2. ASSUME NEW x \in SetOf(s) PROVE x \in {s[1]} \cup SetOf(u)
    <2>1. PICK k \in 1..Len(s) : x = s[k]
        BY <1>1 DEF SetOf
    <2>2. CASE k = 1
        BY <2>1, <2>2
    <2>3. CASE k # 1
        <3>1. k - 1 \in 1..(Len(s) - 1) /\ k - 1 + 1 = k
            BY <2>3, <1>1
        <3>2. u[k - 1] = x /\ k - 1 \in DOMAIN u
            BY <3>1, <2>1, <1>1 DEF u
        <3> QED
            BY <3>2 DEF SetOf
    <2> QED
        BY <2>2, <2>3
<1>3. ASSUME NEW x \in SetOf(u) PROVE x \in SetOf(s)
    <2>1. PICK k \in 1..(Len(s) - 1) : x = u[k]
        BY <1>1 DEF SetOf, u
    <2>2. x = s[k + 1] /\ k + 1 \in DOMAIN s
        BY <2>1, <1>1 DEF u
    <2> QED
        BY <2>2 DEF SetOf
<1>4. s[1] \in SetOf(s)
    BY <1>1 DEF SetOf
<1> QED
    BY <1>1, <1>2, <1>3, <1>4 DEF u

\* A step that leaves the menus alone.
MenuStays == UNCHANGED menuVars /\ (Hidden' => Hidden) /\ Replies' = Replies

LEMMA RepliesTaken ==
    ASSUME evals \in Seq(Event), evals # <<>>, evals' = Tail(evals)
    PROVE  /\ Head(evals).kind # "menu" => Replies' = Replies
           /\ Head(evals).kind = "menu" =>
                 /\ Head(evals) \in Replies /\ Replies = Replies' \cup {Head(evals)}
                 /\ Head(evals) \in Event
<1>1. SetOf(evals) = {Head(evals)} \cup SetOf(evals') /\ Head(evals) \in Event
    BY SetOfTail, TailOf
<1>2. Replies' = {e \in SetOf(evals') : e.kind = "menu"}
    BY DEF Replies, SetOf
<1> HIDE DEF SetOf
<1> QED
    BY <1>1, <1>2 DEF Replies

LEMMA RepliesAdded ==
    ASSUME evals \in Seq(Event), NEW e \in Event, evals' = Append(evals, e)
    PROVE  Replies' = Replies \cup (IF e.kind = "menu" THEN {e} ELSE {})
<1>1. SetOf(evals') = SetOf(evals) \cup {e}
    BY SetOfOneMore
<1>2. Replies' = {x \in SetOf(evals') : x.kind = "menu"}
    BY DEF Replies, SetOf
<1> QED
    BY <1>1, <1>2 DEF Replies

LEMMA RepliesReported ==
    ASSUME MenuTypes, evals \in Seq(Event), NEW pick \in Picks, NEW e \in Event
    PROVE  LET told == IF popup = NoPopup THEN {} ELSE {Reply(popup.token, pick)}
               more == IF e.kind = "menu" THEN {e} ELSE {}
           IN  /\ evals' = evals \o Reported(pick) => Replies' = Replies \cup told
               /\ evals' = evals \o Reported(pick) \o <<e>> => Replies' = Replies \cup told \cup more
<1> DEFINE told == IF popup = NoPopup THEN {} ELSE {Reply(popup.token, pick)}
           more == IF e.kind = "menu" THEN {e} ELSE {}
           r == Reported(pick)
<1>1. r \in Seq(Event) /\ SetOf(r) = told /\ \A x \in told : x.kind = "menu"
    <2>1. r \in Seq(Event)
        BY ReportedSilent
    <2>2. SetOf(r) = told
        BY DEF Reported, SetOf
    <2>3. \A x \in told : x.kind = "menu"
        BY DEF Reply
    <2> QED
        BY <2>1, <2>2, <2>3
<1>2. Replies' = {x \in SetOf(evals') : x.kind = "menu"}
    BY DEF Replies, SetOf
<1> HIDE DEF told, r
<1>3. SetOf(evals \o r) = SetOf(evals) \cup told /\ evals \o r \in Seq(Event)
    BY <1>1, SetOfJoined, EvalsAdded
<1>4. SetOf(evals \o r \o <<e>>) = SetOf(evals) \cup told \cup {e}
    <2>1. <<e>> \in Seq(Event) /\ SetOf(<<e>>) = {e}
        BY DEF SetOf
    <2> DEFINE one == <<e>>
    <2> HIDE DEF one
    <2>3. one \in Seq(Event)
        BY <2>1 DEF one
    <2> DEFINE s == evals \o r
    <2>4. s \in Seq(Event)
        BY <1>3
    <2> HIDE DEF s
    <2>5. SetOf(s \o one) = SetOf(s) \cup SetOf(one)
        BY <2>3, <2>4, SetOfJoined
    <2>2. SetOf(evals \o r \o one) = SetOf(evals \o r) \cup SetOf(one)
        BY <2>5 DEF s
    <2> QED
        BY <1>3, <2>1, <2>2 DEF one
<1>5. evals' = evals \o r => Replies' = Replies \cup told
    BY <1>1, <1>2, <1>3 DEF Replies
<1>6. evals' = evals \o r \o <<e>> => Replies' = Replies \cup told \cup more
    BY <1>1, <1>2, <1>4 DEF Replies
<1> QED
    BY <1>5, <1>6 DEF told, r

LEMMA MenuFacts ==
    ASSUME MenuTypes, MenuInv
    PROVE  /\ Last \in Nat /\ Len(opens) \in Nat /\ Opened \in Nat /\ MaxMenus \in Nat
           /\ Opened <= Last /\ Last <= MaxMenus /\ (opens = <<>> <=> Opened = Last)
           /\ popup # NoPopup => popup.token = Opened /\ popup.token \in 1..Last /\ popup.token \in Tokens
           /\ popup = NoPopup => popup.token = 0
           /\ \A e \in Replies : e.token \in Tokens /\ e.token \in 1..Last
           /\ \A t \in 1..Last : t \in Tokens
<1>1. Last \in Nat /\ Len(opens) \in Nat /\ MaxMenus \in Nat /\ (opens = <<>> <=> Len(opens) = 0)
    BY MenuAssumption DEF MenuTypes, Last
<1>2. Opened = Last - Len(opens) /\ Len(opens) <= Last /\ Last <= MaxMenus
    BY DEF Opened, MenuInv, MenuOrder
<1>3. Opened \in Nat /\ Opened <= Last /\ (opens = <<>> <=> Opened = Last)
    BY <1>1, <1>2
<1>4. popup = NoPopup => popup.token = 0
    BY DEF NoPopup, NoMenu
<1>5. popup # NoPopup => popup.token = Opened /\ Opened # 0
    BY DEF MenuInv, MenuOrder, RepliesMatch
<1>6. \A e \in Replies : e.token \in 1..Opened
    BY DEF MenuInv, MenuOrder, RepliesMatch
<1>7. \A t \in 1..Last : t \in Tokens
    BY <1>1, <1>2 DEF Tokens
<1>8. \A t \in 1..Opened : t \in 1..Last
    BY <1>1, <1>3
<1>9. popup # NoPopup => popup.token \in 1..Opened
    BY <1>3, <1>5
<1> QED
    BY <1>1, <1>2, <1>3, <1>4, <1>5, <1>6, <1>7, <1>8, <1>9

\* The invariant and the promise are kept.
Menus == MenuInv /\ PickIsItsOwn

LEMMA StaysMenus ==
    ASSUME Menus, MenuStays
    PROVE  Menus'
<1>1. /\ UNCHANGED <<waiting, asked, opens, popup, settled, chosen>>
      /\ (Hidden' => Hidden) /\ Replies' = Replies
    BY DEF MenuStays, menuVars
<1>2. Last' = Last /\ Opened' = Opened /\ \A t : Pickable(t)' = Pickable(t)
    BY <1>1 DEF Last, Opened, Pickable
<1> QED
    BY <1>1, <1>2 DEF Menus, MenuInv, PickIsItsOwn, MenuOrder, MenuComes, RepliesMatch,
                      PicksMatch, SettledOnce

\* The popup closes without a pick.
LEMMA ClosingMenus ==
    ASSUME MenuTypes, Menus, popup' = NoPopup,
           UNCHANGED <<waiting, asked, opens, settled, chosen>>,
           Replies' = Replies \cup (IF popup = NoPopup THEN {} ELSE {Reply(popup.token, NoPick)})
    PROVE  Menus'
<1>1. /\ Last' = Last /\ Opened' = Opened
    BY DEF Last, Opened
<1>2. popup'.token = 0 /\ popup'.hovered = 0
    BY DEF NoPopup, NoMenu
<1>3. ASSUME NEW e \in Replies'
      PROVE  e.token \in 1..Opened /\ e.token # 0 /\ e.pick = chosen[e.token]
    <2>1. CASE e \in Replies
        BY <2>1, MenuFacts DEF Menus, MenuInv, MenuOrder, MenuComes, RepliesMatch, PicksMatch
    <2>2. CASE popup # NoPopup /\ e = Reply(popup.token, NoPick)
        <3>1. e.token = popup.token /\ e.pick = NoPick
            BY <2>2 DEF Reply
        <3>2. chosen[popup.token] = NoPick
            BY <2>2, MenuFacts DEF Menus, MenuInv, MenuOrder, MenuComes, RepliesMatch, PicksMatch
        <3>3. popup.token \in 1..Opened
            BY <2>2, MenuFacts DEF Menus, MenuInv, MenuOrder, MenuComes, RepliesMatch, PicksMatch
        <3> QED
            BY <3>1, <3>2, <3>3, MenuFacts DEF Menus
    <2> QED
        BY <2>1, <2>2
<1>4. waiting # 0 => opens # <<>> \/ \E e \in Replies' : e.token = Last
    <2>1. CASE popup = NoPopup
        BY <2>1, MenuFacts DEF Menus, MenuInv, MenuOrder, MenuComes, RepliesMatch, PicksMatch
    <2>2. CASE popup # NoPopup
        <3>1. Reply(popup.token, NoPick) \in Replies' /\ Reply(popup.token, NoPick).token = popup.token
            BY <2>2 DEF Reply
        <3> QED
            BY <3>1 DEF Menus, MenuInv, MenuOrder, MenuComes, RepliesMatch, PicksMatch
    <2> QED
        BY <2>1, <2>2
<1>5. PickIsItsOwn'
    BY <1>1 DEF Menus, PickIsItsOwn
<1>6. MenuOrder' /\ MenuComes' /\ SettledOnce'
    BY <1>1, <1>2, <1>4 DEF Menus, MenuInv, MenuOrder, MenuComes, SettledOnce
<1>7. RepliesMatch'
    BY <1>1, <1>2, <1>3 DEF RepliesMatch
<1>8. PicksMatch'
    <2>1. \A t \in Tokens : t # 0
        BY MenuAssumption DEF Tokens
    <2> QED
        BY <1>1, <1>2, <2>1 DEF Menus, MenuInv, PicksMatch
<1> QED
    BY <1>5, <1>6, <1>7, <1>8 DEF Menus, MenuInv

\* Its steps, one by one.
LEMMA SettlingMenus ==
    ASSUME MenuTypes, evals \in Seq(Event), Menus, Settling, UNCHANGED window
    PROVE  Menus' /\ MenuTypes'
<1> DEFINE reply == Head(evals)
<1>1. /\ evals # <<>> /\ reply.kind = "menu" /\ evals' = Tail(evals)
      /\ UNCHANGED <<asked, opens, popup, chosen>>
    BY DEF Settling
<1>2. /\ reply \in Replies /\ Replies = Replies' \cup {reply} /\ reply \in Event
      /\ reply.token \in 1..Last /\ reply.token \in 1..Opened /\ reply.token # popup.token
      /\ reply.pick = chosen[reply.token] /\ reply.pick \in Picks
    BY <1>1, RepliesTaken, MenuFacts, EventFacts DEF Menus, MenuInv, RepliesMatch
<1> HIDE DEF reply
<1>3. Last' = Last /\ Opened' = Opened /\ (Hidden' <=> Hidden) /\ \A t : Pickable(t)' = Pickable(t)
    BY <1>1 DEF Last, Opened, Hidden, Pickable
<1>4. CASE Expected(reply)
    <2>1. /\ waiting = Last /\ waiting # 0 /\ reply.token = Last
          /\ waiting' = 0 /\ settled' = [settled EXCEPT ![Last] = reply.pick]
          /\ Last \in Tokens /\ Last \in 1..Last
        BY <1>2, <1>4, MenuFacts DEF Settling, Expected, NoMenu, Resolved, Menus, MenuInv, MenuOrder, reply
    <2>2. Opened = Last /\ opens = <<>> /\ popup = NoPopup
        <3>1. Opened = Last
            BY <1>2, <2>1, MenuFacts DEF Menus
        <3>2. popup.token # Opened
            BY <1>2, <2>1, <3>1
        <3> QED
            BY <3>1, <3>2, MenuFacts DEF Menus
    <2>3. MenuOrder' /\ MenuComes' /\ RepliesMatch' /\ PicksMatch'
        BY <1>1, <1>2, <1>3, <2>1, <2>2
           DEF Menus, MenuInv, MenuOrder, MenuComes, RepliesMatch, PicksMatch
    <2>4. /\ settled' \in [Tokens -> Picks \cup {Unsettled}]
          /\ settled'[Last] = reply.pick
          /\ \A t \in Tokens : t # Last => settled'[t] = settled[t]
        BY <1>2, <2>1 DEF MenuTypes
    <2>5. reply.pick # Unsettled
        BY <1>2 DEF Picks, Items, NoPick, Unsettled
    <2>6. \A t \in 1..Last : t \in Tokens /\ t # 0
        BY MenuFacts DEF Menus
    <2>7. SettledOnce'
        BY <1>3, <2>1, <2>4, <2>5, <2>6 DEF Menus, MenuInv, SettledOnce
    <2>8. PickIsItsOwn'
        <3>1. \A t \in 1..Last : (t = Last \/ t < Last)
            BY MenuFacts DEF Menus
        <3>2. reply.pick = chosen[Last]
            BY <1>2, <2>1
        <3>3. chosen[Last] # NoPick => chosen[Last] \in asked[Last].enabled
            BY <2>1 DEF Menus, MenuInv, PicksMatch
        <3>4. \A t \in 1..Last : settled'[t] = Unsettled <=> t = waiting'
            BY <1>3, <2>7 DEF SettledOnce
        <3> QED
            BY <1>1, <1>3, <2>4, <2>6, <3>1, <3>2, <3>3, <3>4 DEF Menus, PickIsItsOwn
    <2>9. MenuTypes'
        BY <1>1, <2>1, <2>4 DEF MenuTypes
    <2> QED
        BY <2>3, <2>7, <2>8, <2>9 DEF Menus, MenuInv
<1>5. CASE ~Expected(reply)
    <2>1. UNCHANGED <<waiting, settled>> /\ (reply.token # waiting \/ waiting = 0)
        BY <1>5 DEF Settling, Expected, NoMenu, reply
    <2>2. waiting # 0 => waiting = Last
        BY DEF Menus, MenuInv, MenuOrder
    <2>3. waiting # 0 => reply.token # Last
        BY <2>1, <2>2
    <2>4. MenuComes'
        BY <1>1, <1>2, <1>3, <2>1, <2>3 DEF Menus, MenuInv, MenuComes
    <2>5. MenuOrder' /\ RepliesMatch' /\ PicksMatch' /\ SettledOnce'
        BY <1>1, <1>2, <1>3, <2>1 DEF Menus, MenuInv, MenuOrder, RepliesMatch, PicksMatch, SettledOnce
    <2>6. PickIsItsOwn'
        BY <1>1, <1>3, <2>1 DEF Menus, PickIsItsOwn
    <2>7. MenuTypes'
        BY <1>1, <2>1 DEF MenuTypes
    <2> QED
        BY <2>4, <2>5, <2>6, <2>7 DEF Menus, MenuInv
<1> QED
    BY <1>4, <1>5

LEMMA FinishingMenus ==
    ASSUME MenuTypes, evals \in Seq(Event), Menus, popup # NoPopup,
           NEW row \in Pickable(popup.token), Finishing(row), UNCHANGED window
    PROVE  Menus' /\ MenuTypes'
<1> DEFINE token == popup.token
           pick == Rows[row]
<1>1. /\ popup' = NoPopup /\ evals' = evals \o Reported(pick)
      /\ chosen' = [chosen EXCEPT ![token] = pick]
      /\ UNCHANGED <<waiting, asked, opens, settled>>
    BY DEF Finishing
<1>2. pick \in Picks /\ pick \in asked[token].enabled /\ pick # NoPick
    BY PickableRows, RowsOfMenu DEF Picks, Items, NoPick
<1>3. token = Opened /\ token \in 1..Last /\ token \in Tokens
    BY MenuFacts DEF Menus
<1> HIDE DEF pick
<1>4. Replies' = Replies \cup {Reply(token, pick)}
    BY <1>1, <1>2, RepliesReported, MadeRight
<1> HIDE DEF token
<1>5. Last' = Last /\ Opened' = Opened /\ (Hidden' <=> Hidden) /\ \A t : Pickable(t)' = Pickable(t)
    BY <1>1 DEF Last, Opened, Hidden, Pickable
<1>6. /\ chosen' \in [Tokens -> Picks] /\ chosen'[token] = pick
      /\ \A t \in Tokens : t # token => chosen'[t] = chosen[t]
    BY <1>1, <1>2, <1>3 DEF MenuTypes
<1>7. popup'.token = 0 /\ popup'.hovered = 0
    BY <1>1 DEF NoPopup, NoMenu
<1>8. \A e \in Replies : e.token \in Tokens /\ e.token # token /\ e.token # 0
    BY MenuFacts, <1>3 DEF Menus, MenuInv, RepliesMatch, token
<1>9. Reply(token, pick).token = token /\ Reply(token, pick).pick = pick /\ token # 0
    BY <1>3 DEF Reply
<1>10. RepliesMatch'
    <2>1. token \in 1..Opened
        BY <1>3, MenuFacts DEF Menus
    <2> QED
        BY <1>4, <1>5, <1>6, <1>7, <1>8, <1>9, <2>1 DEF Menus, MenuInv, RepliesMatch
<1>11. PicksMatch'
    <2>1. \A t \in Tokens : t > Opened => t # token
        BY <1>3, MenuFacts DEF Menus, Tokens
    <2>2. \A t \in Tokens : t # 0
        BY MenuAssumption DEF Tokens
    <2>3. \A t \in 1..Last : t \in Tokens
        BY MenuFacts DEF Menus
    <2>4. \A t \in 1..Last : chosen'[t] # NoPick => chosen'[t] \in asked'[t].enabled
        BY <1>1, <1>2, <1>6, <2>3 DEF Menus, MenuInv, PicksMatch
    <2>5. \A t \in Tokens : t > Opened \/ t = 0 => chosen'[t] = NoPick
        BY <1>6, <2>1, <2>2 DEF Menus, MenuInv, PicksMatch
    <2> QED
        BY <1>5, <1>7, <2>4, <2>5 DEF PicksMatch
<1>12. MenuComes'
    BY <1>1, <1>4, <1>5, <1>9 DEF Menus, MenuInv, MenuComes, token
<1>13. MenuOrder' /\ SettledOnce'
    BY <1>1, <1>5, <1>7 DEF Menus, MenuInv, MenuOrder, SettledOnce
\* What a promise has been resolved to, it was not by a menu that is open.
<1>14. PickIsItsOwn'
    <2>1. settled[token] \notin {NoPick, Unsettled} => chosen[token] # NoPick
        BY <1>3 DEF Menus, PickIsItsOwn
    <2>2. chosen[token] = NoPick
        BY <1>3 DEF Menus, MenuInv, PicksMatch, token
    <2>3. settled[token] = NoPick => token < Last
        <3>1. CASE token = Last
            <4>1. waiting = Last
                BY <3>1, <1>3 DEF Menus, MenuInv, MenuOrder
            <4>2. settled[token] = Unsettled
                BY <3>1, <4>1, <1>3 DEF Menus, MenuInv, SettledOnce
            <4> QED
                BY <4>2 DEF Unsettled, NoPick
        <3>2. CASE token # Last
            BY <3>2, <1>3, MenuFacts DEF Menus
        <3> QED
            BY <3>1, <3>2
    <2>4. \A t \in 1..Last : t \in Tokens
        BY MenuFacts DEF Menus
    <2> QED
        BY <1>1, <1>5, <1>6, <2>1, <2>2, <2>3, <2>4 DEF Menus, PickIsItsOwn
<1>15. MenuTypes'
    BY <1>1, <1>6 DEF MenuTypes, NoPopup, NoMenu
<1> QED
    BY <1>10, <1>11, <1>12, <1>13, <1>14, <1>15 DEF Menus, MenuInv

LEMMA HighlightingMenus ==
    ASSUME MenuTypes, Menus, popup # NoPopup,
           NEW row \in {0} \cup Pickable(popup.token), Highlighting(row), UNCHANGED window
    PROVE  Menus' /\ MenuTypes'
<1>1. /\ UNCHANGED <<waiting, asked, opens, evals, settled, chosen>>
      /\ popup' = [popup EXCEPT !.hovered = row]
    BY DEF Highlighting
<1>2. row \in 0..4
    BY PickableRows
<1>3. popup' \in [token : Nat, hovered : 0..4] /\ popup'.token = popup.token /\ popup'.hovered = row
    BY <1>1, <1>2 DEF MenuTypes
<1>4. popup.token # 0 /\ ~Hidden
    BY DEF Menus, MenuInv, MenuOrder
<1>5. /\ Last' = Last /\ Opened' = Opened /\ (Hidden' <=> Hidden) /\ Replies' = Replies
      /\ \A t : Pickable(t)' = Pickable(t)
    BY <1>1 DEF Last, Opened, Hidden, Pickable, Replies, SetOf
<1>6. popup' # NoPopup
    BY <1>3, <1>4 DEF NoPopup, NoMenu
<1>7. MenuOrder' /\ MenuComes' /\ SettledOnce' /\ PickIsItsOwn'
    BY <1>1, <1>3, <1>4, <1>5, <1>6 DEF Menus, MenuInv, MenuOrder, MenuComes, SettledOnce, PickIsItsOwn
<1>8. RepliesMatch' /\ PicksMatch'
    <2>1. \A t : t = popup'.token <=> t = popup.token
        BY <1>3
    <2>2. row # 0 => row \in Pickable(popup.token)
        OBVIOUS
    <2> QED
        BY <1>1, <1>3, <1>5, <2>1, <2>2 DEF Menus, MenuInv, RepliesMatch, PicksMatch
<1>9. MenuTypes'
    BY <1>1, <1>3 DEF MenuTypes
<1> QED
    BY <1>7, <1>8, <1>9 DEF Menus, MenuInv

\* Go comes to the next request: its popup opens, or its answer is sent.
LEMMA OpeningMenus ==
    ASSUME MenuTypes, Menus, opens # <<>>, opens' = Tail(opens),
           UNCHANGED <<waiting, asked, settled, chosen>>,
           popup' = NoPopup \/ popup'.token = Head(opens),
           popup' \in [token : Nat, hovered : 0..4],
           popup'.hovered \in {0} \cup Pickable(popup'.token),
           Hidden' => popup' = NoPopup,
           Replies' = Replies
               \cup (IF popup = NoPopup THEN {} ELSE {Reply(popup.token, NoPick)})
               \cup (IF popup' = NoPopup THEN {Reply(Head(opens), NoPick)} ELSE {})
    PROVE  Menus' /\ MenuTypes'
<1> DEFINE token == Head(opens)
<1>1. /\ token = Opened + 1 /\ token \in 1..Last /\ token \in Tokens
      /\ Len(opens') = Len(opens) - 1 /\ opens' \in Seq(Nat)
      /\ \A i \in 1..(Len(opens) - 1) : opens'[i] = opens[i + 1]
    <2>1. /\ token = opens[1] /\ opens' \in Seq(Nat) /\ Len(opens') = Len(opens) - 1
          /\ \A i \in 1..(Len(opens) - 1) : opens'[i] = opens[i + 1]
          /\ Len(opens) \in Nat /\ 1 \in 1..Len(opens)
        <3>1. opens \in Seq(Nat)
            BY DEF MenuTypes
        <3> QED
            BY <3>1, TailOf
    <2>2. opens[1] = Opened + 1
        BY <2>1 DEF Menus, MenuInv, MenuOrder
    <2>3. Opened + 1 \in 1..Last
        BY MenuFacts DEF Menus
    <2>4. \A t \in 1..Last : t \in Tokens
        BY MenuFacts DEF Menus
    <2> HIDE DEF token
    <2> QED
        BY <2>1, <2>2, <2>3, <2>4
<1>2. /\ Last' = Last /\ Opened' = token /\ \A t : Pickable(t)' = Pickable(t)
      /\ Last \in Nat /\ Opened \in Nat /\ Len(opens) \in Nat /\ Opened = Last - Len(opens)
    <2>1. Last \in Nat /\ Opened \in Nat /\ Len(opens) \in Nat /\ Opened = Last - Len(opens)
        BY MenuFacts DEF Menus, Opened
    <2>2. Last' = Last /\ \A t : Pickable(t)' = Pickable(t)
        BY DEF Last, Pickable
    <2>3. Opened' = Last - Len(opens')
        BY <2>2 DEF Opened
    <2> HIDE DEF token
    <2> QED
        BY <1>1, <2>1, <2>2, <2>3
<1> HIDE DEF token
<1>0. token \in Nat \ {0} /\ token \in 1..token /\ Opened < token
    <2>1. ASSUME NEW m \in Nat PROVE m + 1 \in Nat \ {0} /\ m + 1 \in 1..(m + 1) /\ m < m + 1
        OBVIOUS
    <2>2. Opened \in Nat /\ token = Opened + 1
        BY <1>1, <1>2
    <2> QED
        BY <2>1, <2>2
<1>3. waiting = Last /\ waiting # 0
    BY DEF Menus, MenuInv, MenuOrder
<1>4. /\ popup'.token \in {0, token} /\ (popup'.token = 0 <=> popup' = NoPopup)
      /\ (popup' = NoPopup => popup'.hovered = 0)
    BY <1>1 DEF token, NoPopup, NoMenu
<1>5. MenuOrder'
    <2>1. Len(opens') <= Last /\ \A i \in 1..Len(opens') : opens'[i] = Opened' + i
        <3>1. \A i \in 1..(Len(opens) - 1) : i + 1 \in 1..Len(opens)
            BY <1>2
        <3>2. \A i \in 1..Len(opens) : opens[i] = Opened + i
            BY DEF Menus, MenuInv, MenuOrder
        <3>3. Len(opens) <= Last
            BY DEF Menus, MenuInv, MenuOrder
        <3> QED
            BY <1>1, <1>2, <3>1, <3>2, <3>3
    <2> QED
        BY <1>2, <1>3, <1>4, <2>1 DEF Menus, MenuInv, MenuOrder
<1>6. MenuComes'
    <2>1. opens' = <<>> => token = Last
        <3>1. opens' = <<>> => Len(opens') = 0
            OBVIOUS
        <3> QED
            BY <1>1, <1>2, <3>1
    <2>2. popup' = NoPopup => \E e \in Replies' : e.token = token
        <3>1. popup' = NoPopup => Reply(token, NoPick) \in Replies'
            BY DEF token
        <3>2. Reply(token, NoPick).token = token
            BY DEF Reply
        <3> QED
            BY <3>1, <3>2
    <2> QED
        BY <1>2, <1>4, <2>1, <2>2 DEF MenuComes
<1>7. chosen[token] = NoPick /\ (popup # NoPopup => chosen[popup.token] = NoPick)
    <2>1. token > Opened
        BY <1>1, <1>2
    <2>2. popup # NoPopup => popup.token \in Tokens
        BY MenuFacts DEF Menus
    <2> QED
        BY <1>1, <2>1, <2>2 DEF Menus, MenuInv, PicksMatch
<1>8. RepliesMatch'
    <2> SUFFICES ASSUME NEW e \in Replies'
                 PROVE  e.token \in 1..token /\ e.token # popup'.token /\ e.pick = chosen[e.token]
        BY <1>2 DEF RepliesMatch
    <2>1. CASE e \in Replies
        <3>1. e.token \in 1..Opened /\ e.pick = chosen[e.token]
            BY <2>1 DEF Menus, MenuInv, RepliesMatch
        <3> QED
            BY <1>1, <1>2, <1>4, <3>1
    <2>2. CASE popup # NoPopup /\ e = Reply(popup.token, NoPick)
        <3>1. e.token = Opened /\ e.pick = NoPick /\ e.token = popup.token
            BY <2>2, MenuFacts DEF Menus, Reply
        <3>2. Opened # 0 /\ Opened \in 1..token /\ Opened # token
            <4>1. Opened \in 1..Last
                BY <2>2, MenuFacts DEF Menus
            <4>2. ASSUME NEW m \in Nat, NEW n \in Nat, m \in 1..n, NEW k, k = m + 1
                  PROVE  m # 0 /\ m \in 1..k /\ m # k
                BY <4>2
            <4>3. token = Opened + 1 /\ Opened \in Nat /\ Last \in Nat
                BY <1>1, <1>2
            <4> QED
                BY <4>1, <4>2, <4>3
        <3> QED
            BY <1>0, <1>1, <1>2, <1>4, <1>7, <2>2, <3>1, <3>2
    <2>3. CASE popup' = NoPopup /\ e = Reply(token, NoPick)
        <3>1. e.token = token /\ e.pick = NoPick
            BY <2>3 DEF Reply
        <3>2. token \in 1..token /\ token # 0
            BY <1>0
        <3> QED
            BY <1>4, <1>7, <2>3, <3>1, <3>2
    <2> QED
        BY <2>1, <2>2, <2>3 DEF token
<1>9. PicksMatch'
    <2>1. \A t \in Tokens : t > token => t > Opened
        BY <1>1, <1>2, MenuAssumption DEF Tokens
    <2>2. \A t \in Tokens : t # 0
        BY MenuAssumption DEF Tokens
    <2>3. popup'.hovered # 0 => popup'.hovered \in Pickable(popup.token)'
        BY DEF Pickable
    <2> QED
        BY <1>2, <1>4, <1>7, <2>1, <2>2, <2>3 DEF Menus, MenuInv, PicksMatch
<1>10. SettledOnce' /\ PickIsItsOwn'
    BY <1>2 DEF Menus, MenuInv, SettledOnce, PickIsItsOwn
<1>11. MenuTypes'
    BY <1>1 DEF MenuTypes
<1> QED
    BY <1>5, <1>6, <1>8, <1>9, <1>10, <1>11 DEF Menus, MenuInv

LEMMA OpenMenus ==
    ASSUME MenuTypes, evals \in Seq(Event), Menus, OpenMenu
    PROVE  Menus' /\ MenuTypes'
<1> DEFINE token == Head(opens)
<1>1. /\ UNCHANGED window /\ opens # <<>> /\ opens' = Tail(opens)
      /\ UNCHANGED <<waiting, asked, settled, chosen>>
      /\ (Hidden' <=> Hidden)
      /\ (Hidden /\ Refuses(token)) \/ (~Hidden /\ (Shows(token) \/ CannotCreate(token)))
    BY DEF OpenMenu, Opening, go, Hidden
<1>2. token \in Nat
    BY <1>1, TailOf DEF MenuTypes
<1>3. Reply(token, NoPick) \in Event /\ Reply(token, NoPick).kind = "menu" /\ NoPick \in Picks
    BY <1>2, MadeRight DEF Reply, Picks
<1> HIDE DEF token
<1>4. NoPopup \in [token : Nat, hovered : 0..4] /\ NoPopup.hovered = 0
    BY DEF NoPopup, NoMenu
<1>5. CASE Hidden /\ Refuses(token)
    <2>1. popup = NoPopup /\ popup' = popup
        BY <1>5 DEF Refuses, Menus, MenuInv, MenuOrder
    <2>2. Replies' = Replies \cup {Reply(token, NoPick)}
        BY <1>3, <1>5, RepliesAdded DEF Refuses
    <2> QED
        BY <1>1, <1>4, <2>1, <2>2, OpeningMenus DEF token
<1>6. CASE ~Hidden /\ Shows(token)
    <2> DEFINE row == IF asked[token].keyboard THEN NextEnabled(Pickable(token), 0, 1) ELSE 0
    <2>1. row \in {0} \cup Pickable(token) /\ row \in 0..4
        BY PickableRows, EnabledRow
    <2>2. popup' = [token |-> token, hovered |-> row] /\ evals' = evals \o Reported(NoPick)
        BY <1>6 DEF Shows
    <2> HIDE DEF row
    <2>3. /\ popup'.token = token /\ popup' \in [token : Nat, hovered : 0..4]
          /\ popup'.hovered \in {0} \cup Pickable(popup'.token)
        BY <1>2, <2>1, <2>2
    <2>4. Replies' = Replies \cup (IF popup = NoPopup THEN {} ELSE {Reply(popup.token, NoPick)})
        BY <1>3, <2>2, RepliesReported
    <2>5. popup' # NoPopup
        <3>1. token \in 1..Last
            <4>1. token = opens[1] /\ 1 \in 1..Len(opens)
                BY <1>1, TailOf DEF token, MenuTypes
            <4>2. token = Opened + 1
                BY <4>1 DEF Menus, MenuInv, MenuOrder
            <4> QED
                BY <1>1, <4>2, MenuFacts DEF Menus
        <3> QED
            BY <2>3, <3>1 DEF NoPopup, NoMenu
    <2> QED
        BY <1>1, <1>6, <2>3, <2>4, <2>5, OpeningMenus DEF token
<1>7. CASE ~Hidden /\ CannotCreate(token)
    <2>1. popup' = NoPopup /\ evals' = evals \o Reported(NoPick) \o <<Reply(token, NoPick)>>
        BY <1>7 DEF CannotCreate
    <2>2. Replies' = Replies \cup (IF popup = NoPopup THEN {} ELSE {Reply(popup.token, NoPick)})
                             \cup {Reply(token, NoPick)}
        BY <1>3, <2>1, RepliesReported
    <2> QED
        BY <1>1, <1>4, <1>7, <2>1, <2>2, OpeningMenus DEF token
<1> QED
    BY <1>1, <1>5, <1>6, <1>7

\* The page asks for a menu; the one it waited for gets no pick.
LEMMA AskingMenus ==
    ASSUME MenuTypes, evals \in Seq(Event), Menus, NEW request \in Asked, Asking(request),
           UNCHANGED window
    PROVE  Menus' /\ MenuTypes'
<1> DEFINE newest == Last + 1
<1>1. /\ Last < MaxMenus /\ asked' = Append(asked, request) /\ waiting' = newest
      /\ settled' = (IF waiting = 0 THEN settled ELSE [settled EXCEPT ![waiting] = NoPick])
      /\ opens' = Append(opens, newest) /\ UNCHANGED <<popup, evals, chosen>>
    BY DEF Asking, Replaced, Resolved, NoMenu
<1>2. /\ Last \in Nat /\ Len(opens) \in Nat /\ Opened \in Nat /\ MaxMenus \in Nat
      /\ Opened = Last - Len(opens) /\ Len(opens) <= Last
      /\ \A t \in 1..Last : t \in Tokens
      /\ Opened <= Last
    BY MenuFacts DEF Menus, MenuInv, MenuOrder, Opened
<1>3. /\ asked' \in Seq(Asked) /\ Len(asked') = Last + 1 /\ asked'[Last + 1] = request
      /\ \A t \in 1..Last : asked'[t] = asked[t]
    <2>1. asked \in Seq(Asked)
        BY DEF MenuTypes
    <2> QED
        BY <1>1, <2>1, OneMore DEF Last
<1>4. /\ opens' \in Seq(Nat) /\ Len(opens') = Len(opens) + 1 /\ opens'[Len(opens) + 1] = newest
      /\ \A i \in 1..Len(opens) : opens'[i] = opens[i]
    <2>1. opens \in Seq(Nat) /\ newest \in Nat
        BY <1>2 DEF MenuTypes
    <2> HIDE DEF newest
    <2> QED
        BY <1>1, <2>1, OneMore
<1>5. /\ Last' = newest /\ Opened' = Opened /\ (Hidden' <=> Hidden) /\ Replies' = Replies
      /\ newest \in Tokens /\ newest \in Nat \ {0} /\ newest > Last
    <2>1. Last' = newest
        BY <1>3 DEF Last
    <2>2. Opened' = Last' - Len(opens')
        BY DEF Opened
    <2> QED
        BY <1>1, <1>2, <1>4, <2>1, <2>2 DEF Hidden, Replies, SetOf, Tokens
<1>6. /\ settled' \in [Tokens -> Picks \cup {Unsettled}]
      /\ \A t \in Tokens : settled'[t] = IF t = waiting /\ waiting # 0 THEN NoPick ELSE settled[t]
    <2>1. waiting # 0 => waiting \in Tokens
        <3>1. waiting # 0 => waiting = Last
            BY DEF Menus, MenuInv, MenuOrder
        <3> QED
            BY <1>2, <3>1
    <2>2. NoPick \in Picks
        BY DEF Picks
    <2> QED
        BY <1>1, <2>1, <2>2 DEF MenuTypes
<1>7. \A t \in 1..newest : t \in 1..Last \/ t = newest
    BY <1>2
<1>8. settled[newest] = Unsettled /\ chosen[newest] = NoPick /\ newest # waiting /\ newest > Opened
    <2>1. waiting \in {0, Last}
        BY DEF Menus, MenuInv, MenuOrder
    <2>2. newest > Opened /\ newest # waiting
        BY <1>2, <2>1
    <2> QED
        BY <1>5, <2>2 DEF Menus, MenuInv, SettledOnce, PicksMatch
<1>9. \A t \in Tokens : t > newest => t > Last /\ t # waiting
    <2>1. waiting \in {0, Last}
        BY DEF Menus, MenuInv, MenuOrder
    <2> QED
        BY <1>2, <2>1, MenuAssumption DEF Tokens
<1>10. newest <= MaxMenus /\ Len(opens') <= newest /\ newest # 0
       /\ \A i \in 1..Len(opens') : opens'[i] = Opened + i
    <2>1. \A i \in 1..(Len(opens) + 1) : i \in 1..Len(opens) \/ i = Len(opens) + 1
        BY <1>2
    <2>2. \A i \in 1..Len(opens) : opens[i] = Opened + i
        BY DEF Menus, MenuInv, MenuOrder
    <2> QED
        BY <1>1, <1>2, <1>4, <2>1, <2>2
<1> HIDE DEF newest
<1>11. MenuOrder' /\ MenuComes'
    <2>1. opens' # <<>>
        BY <1>2, <1>4
    <2> QED
        BY <1>1, <1>5, <1>10, <2>1 DEF Menus, MenuInv, MenuOrder, MenuComes
<1>12. RepliesMatch'
    BY <1>1, <1>5 DEF Menus, MenuInv, RepliesMatch
<1>13. PicksMatch'
    <2>1. \A t \in 1..newest : chosen[t] # NoPick => chosen[t] \in asked'[t].enabled
        BY <1>3, <1>7, <1>8 DEF Menus, MenuInv, PicksMatch
    <2>2. popup.hovered # 0 => popup.hovered \in Pickable(popup.token)'
        <3>1. CASE popup = NoPopup
            BY <3>1 DEF NoPopup
        <3>2. CASE popup # NoPopup
            <4>1. asked'[popup.token] = asked[popup.token]
                BY <1>3, <3>2, MenuFacts DEF Menus
            <4> QED
                BY <1>1, <4>1 DEF Menus, MenuInv, PicksMatch, Pickable
        <3> QED
            BY <3>1, <3>2
    <2> QED
        BY <1>1, <1>5, <2>1, <2>2 DEF Menus, MenuInv, PicksMatch
<1>14. SettledOnce'
    <2>1. \A t \in 1..Last : t # newest /\ t # 0 /\ t \in Tokens
        BY <1>2, <1>5
    <2>2. \A t \in 1..newest : settled'[t] = Unsettled <=> t = newest
        <3>1. ASSUME NEW t \in 1..Last PROVE settled'[t] # Unsettled
            BY <1>6, <2>1 DEF Menus, MenuInv, SettledOnce, NoPick, Unsettled
        <3>2. settled'[newest] = Unsettled
            BY <1>5, <1>6, <1>8
        <3> QED
            BY <1>7, <2>1, <3>1, <3>2
    <2>3. \A t \in Tokens : t > newest => settled'[t] = Unsettled
        BY <1>6, <1>9 DEF Menus, MenuInv, SettledOnce
    <2> QED
        BY <1>1, <1>5, <2>2, <2>3 DEF SettledOnce
<1>15. PickIsItsOwn'
    <2> SUFFICES ASSUME NEW t \in 1..newest
                 PROVE  /\ settled'[t] \notin {NoPick, Unsettled}
                               => settled'[t] = chosen[t] /\ chosen[t] \in asked'[t].enabled
                        /\ settled'[t] = NoPick => chosen[t] = NoPick \/ t < newest
                        /\ settled'[t] = Unsettled <=> t = newest
        BY <1>1, <1>5 DEF PickIsItsOwn
    <2>1. settled'[t] = Unsettled <=> t = newest
        BY <1>1, <1>5, <1>14 DEF SettledOnce
    <2>2. CASE t = newest
        BY <1>8, <2>1, <2>2
    <2>3. CASE t \in 1..Last
        <3>1. t < newest /\ t \in Tokens /\ asked'[t] = asked[t]
            BY <1>2, <1>3, <1>5, <2>3
        <3>2. settled'[t] # NoPick => settled'[t] = settled[t]
            BY <1>6, <3>1
        <3> QED
            BY <2>1, <2>3, <3>1, <3>2 DEF Menus, PickIsItsOwn
    <2> QED
        BY <1>7, <2>2, <2>3
<1>16. MenuTypes'
    BY <1>1, <1>3, <1>4, <1>5, <1>6 DEF MenuTypes
<1> QED
    BY <1>11, <1>12, <1>13, <1>14, <1>15, <1>16 DEF Menus, MenuInv

LEMMA NoReplyAdded ==
    ASSUME evals \in Seq(Event), NEW e, e.kind # "menu", evals' = Append(evals, e)
    PROVE  Replies' = Replies
<1> DEFINE T == Event \cup {e}
<1>1. evals \in Seq(T) /\ e \in T
    OBVIOUS
<1> HIDE DEF T
<1>2. SetOf(evals') = SetOf(evals) \cup {e}
    BY <1>1, SetOfOneMore
<1>3. Replies' = {x \in SetOf(evals') : x.kind = "menu"}
    BY DEF Replies, SetOf
<1> QED
    BY <1>2, <1>3 DEF Replies

\* Steps that are not about menus.
LEMMA OtherMenus ==
    ASSUME evals \in Seq(Event),
           \/ ServeList \/ ServeCreate \/ ServeUpdate \/ ServeDelete \/ ServeReorder
           \/ ServeCopy \/ Refuse \/ SavingFails
           \/ TakeList \/ TakeCreated \/ TakeUpdated \/ TakeDeleted \/ TakeReordered
           \/ TakeFailure \/ TakeFailedReorder \/ TakeSlide \/ TakeRest
           \/ Show \/ SlideEnds
           \/ UseForm \/ MoveByKey \/ ClickByKey \/ Search
           \/ Press \/ Drag \/ Release \/ Click \/ ReleaseUnseen \/ MoveWithoutButton
           \/ PointerCancel \/ Escape \/ Blur
    PROVE  MenuStays
<1>0. window' = window => (Hidden' => Hidden)
    BY DEF Hidden
<1>1. evals' = evals => Replies' = Replies
    BY DEF Replies, SetOf
<1>2. evals # <<>> /\ Head(evals).kind # "menu" /\ evals' = Tail(evals) => Replies' = Replies
    BY RepliesTaken
<1>3. \A call, r : evals' = Append(evals, Done(call, r)) => Replies' = Replies
    <2> TAKE call, r
    <2>1. Done(call, r).kind # "menu"
        BY DEF Done
    <2> QED
        BY <2>1, NoReplyAdded
<1>4. \A call : evals' = Append(evals, Failed(call)) => Replies' = Replies
    <2> TAKE call
    <2>1. Failed(call).kind # "menu"
        BY DEF Failed
    <2> QED
        BY <2>1, NoReplyAdded
<1>5. \A kind \in {"slides", "rests", "parked"} :
          evals' = Append(evals, Told(kind)) => Replies' = Replies
    <2> TAKE kind \in {"slides", "rests", "parked"}
    <2>1. Told(kind).kind # "menu"
        BY DEF Told
    <2> QED
        BY <2>1, NoReplyAdded
<1>6. CASE \/ ServeList \/ ServeCreate \/ ServeUpdate \/ ServeDelete \/ ServeReorder
           \/ ServeCopy \/ Refuse \/ SavingFails
    <2>1. UNCHANGED <<menuVars, window>>
        BY <1>6 DEF ServeList, ServeCreate, ServeUpdate, ServeDelete, ServeReorder,
                    ServeCopy, Refuse, SavingFails, GoUnchanged
    <2>2. CASE ServeList
        BY <1>3, <2>2 DEF ServeList, Replying, MenuStays, GoUnchanged, Hidden
    <2>3. CASE ServeCreate
        BY <1>0, <1>3, <2>1, <2>3 DEF ServeCreate, Replying, MenuStays
    <2>4. CASE ServeUpdate
        BY <1>0, <1>3, <2>1, <2>4 DEF ServeUpdate, Replying, MenuStays
    <2>5. CASE ServeDelete
        BY <1>0, <1>3, <2>1, <2>5 DEF ServeDelete, Replying, MenuStays
    <2>6. CASE ServeReorder
        BY <1>0, <1>3, <2>1, <2>6 DEF ServeReorder, Replying, MenuStays
    <2>7. CASE ServeCopy
        BY <1>0, <1>1, <2>1, <2>7 DEF ServeCopy, MenuStays
    <2>8. CASE Refuse
        BY <1>0, <1>4, <2>1, <2>8 DEF Refuse, Replying, MenuStays
    <2>9. CASE SavingFails
        BY <1>0, <1>4, <2>1, <2>9 DEF SavingFails, Replying, MenuStays
    <2> QED
        BY <1>6, <2>2, <2>3, <2>4, <2>5, <2>6, <2>7, <2>8, <2>9
<1>7. CASE \/ TakeList \/ TakeCreated \/ TakeUpdated \/ TakeDeleted \/ TakeReordered
           \/ TakeFailure \/ TakeFailedReorder \/ TakeSlide \/ TakeRest
    <2>1. UNCHANGED <<menuVars, window>>
        BY <1>7 DEF TakeList, TakeCreated, TakeUpdated, TakeDeleted, TakeReordered,
                    TakeFailure, TakeFailedReorder, TakeSlide, TakeRest, PageUnchanged, go
    <2>2. evals # <<>> /\ Head(evals).kind # "menu" /\ evals' = Tail(evals)
        BY <1>7 DEF TakeList, TakeCreated, TakeUpdated, TakeDeleted, TakeReordered,
                    TakeFailure, TakeFailedReorder, TakeSlide, TakeRest, Answered, Hearing
    <2> QED
        BY <1>0, <1>2, <2>1, <2>2 DEF MenuStays
<1>8. CASE Show
    <2>1. UNCHANGED menuVars /\ ~Hidden' /\ evals' = Append(evals, Told("slides"))
        BY <1>8 DEF Show, Hidden
    <2> QED
        BY <1>5, <2>1 DEF MenuStays
<1>9. CASE SlideEnds
    <2>1. UNCHANGED menuVars /\ (Hidden' => Hidden)
        BY <1>9 DEF SlideEnds, Hidden
    <2> QED
        BY <1>5, <1>9, <2>1 DEF MenuStays, SlideEnds, Replying
<1>10. CASE \/ UseForm \/ MoveByKey \/ ClickByKey \/ Search
            \/ Press \/ Drag \/ Release \/ Click \/ ReleaseUnseen \/ MoveWithoutButton
            \/ PointerCancel \/ Escape \/ Blur
    <2>1. UNCHANGED <<menuVars, window, evals>>
        BY <1>10 DEF UseForm, MoveByKey, ClickByKey, Search, Press, Drag, Release, Click,
                     ReleaseUnseen, MoveWithoutButton, PointerCancel, Escape, Blur, MouseUnchanged, go
    <2> QED
        BY <1>0, <1>1, <2>1 DEF MenuStays
<1> QED
    BY <1>6, <1>7, <1>8, <1>9, <1>10

LEMMA ClosingSteps ==
    ASSUME MenuTypes, evals \in Seq(Event), Menus, Hide \/ Dismissing
    PROVE  Menus' /\ MenuTypes'
<1>1. popup' = NoPopup /\ UNCHANGED <<waiting, asked, opens, settled, chosen>>
    BY DEF Hide, Dismissing
<1>2. Told("slides") \in Event /\ Told("slides").kind # "menu" /\ NoPick \in Picks
    BY MadeRight DEF Told, Picks
<1>3. Replies' = Replies \cup (IF popup = NoPopup THEN {} ELSE {Reply(popup.token, NoPick)})
    <2>1. CASE Dismissing
        BY <1>2, <2>1, RepliesReported DEF Dismissing
    <2>2. CASE Hide
        <3> DEFINE e == Told("slides")
        <3>1. evals' = evals \o Reported(NoPick) \o <<e>> /\ e \in Event /\ e.kind # "menu"
            BY <1>2, <2>2 DEF Hide
        <3> HIDE DEF e
        <3> QED
            BY <1>2, <3>1, RepliesReported
    <2> QED
        BY <2>1, <2>2
<1>4. MenuTypes'
    BY <1>1 DEF MenuTypes, NoPopup, NoMenu
<1> QED
    BY <1>1, <1>3, <1>4, ClosingMenus

LEMMA PopupSteps ==
    ASSUME MenuTypes, evals \in Seq(Event), Menus, UsePopup
    PROVE  Menus' /\ MenuTypes'
<1>1. UNCHANGED window
    BY DEF UsePopup, go
<1>2. CASE Pointing
    BY <1>1, <1>2, HighlightingMenus DEF Pointing
<1>3. CASE Walking
    <2>1. \A from, dir : NextEnabled(Pickable(popup.token), from, dir) \in {0} \cup Pickable(popup.token)
        BY PickableRows, EnabledRow
    <2> QED
        BY <1>1, <1>3, <2>1, HighlightingMenus DEF Walking
<1>4. CASE Clicking
    BY <1>1, <1>4, FinishingMenus DEF Clicking
<1>5. CASE Entering
    <2>1. popup.hovered \in Pickable(popup.token)
        BY <1>5 DEF Entering, Menus, MenuInv, PicksMatch
    <2> QED
        BY <1>1, <1>5, <2>1, FinishingMenus DEF Entering
<1>6. CASE Dismissing
    BY <1>6, ClosingSteps
<1> QED
    BY <1>2, <1>3, <1>4, <1>5, <1>6 DEF UsePopup

LEMMA AskSteps ==
    ASSUME Typed, Menus, AskMenu
    PROVE  Menus' /\ MenuTypes'
<1>1. MenuTypes /\ evals \in Seq(Event) /\ Rendered \in Seq(Nat) /\ UNCHANGED window
    BY RenderedTypes DEF Typed, PageTypes, ListTypes, AskMenu, go
<1>2. PICK p \in DOMAIN Rendered, keyboard \in BOOLEAN :
          Asking(Request(Rendered[p],
                  {"edit"} \cup (IF CanDrag /\ p > 1 THEN {"up"} ELSE {})
                           \cup (IF CanDrag /\ p < Len(Rendered) THEN {"down"} ELSE {}),
                  keyboard))
    BY DEF AskMenu
<1> DEFINE enabled == {"edit"} \cup (IF CanDrag /\ p > 1 THEN {"up"} ELSE {})
                               \cup (IF CanDrag /\ p < Len(Rendered) THEN {"down"} ELSE {})
           id == Rendered[p]
           request == Request(id, enabled, keyboard)
<1>3. enabled \in SUBSET Items
    BY DEF Items
<1>4. id \in Nat
    BY <1>1
<1>5. Asking(request)
    BY <1>2
<1> HIDE DEF enabled, id
<1>6. request \in Asked
    BY <1>3, <1>4 DEF Request, Asked
<1> HIDE DEF request
<1> QED
    BY <1>1, <1>5, <1>6, AskingMenus

LEMMA MenuSteps ==
    ASSUME Typed, Menus, [PageNext]_pageVars
    PROVE  Menus' /\ MenuTypes'
<1>0. MenuTypes /\ evals \in Seq(Event)
    BY DEF Typed, PageTypes
<1>1. CASE MenuStays
    <2>1. UNCHANGED <<waiting, asked, opens, popup, settled, chosen>>
        BY <1>1 DEF MenuStays, menuVars
    <2> QED
        BY <1>0, <1>1, <2>1, StaysMenus DEF MenuTypes
<1>2. CASE TakeMenuReply
    <2>1. Settling /\ UNCHANGED window
        BY <1>2 DEF TakeMenuReply, go
    <2> QED
        BY <1>0, <2>1, SettlingMenus
<1>3. CASE Hide \/ OpenMenu \/ UsePopup \/ AskMenu
    BY <1>0, <1>3, ClosingSteps, OpenMenus, PopupSteps, AskSteps
<1>4. CASE UNCHANGED pageVars
    <2>1. MenuStays
        BY <1>4 DEF pageVars, go, MenuStays, Hidden, Replies, SetOf
    <2> QED
        BY <1>1, <2>1
<1> QED
    BY <1>0, <1>1, <1>2, <1>3, <1>4, OtherMenus DEF PageNext

-----------------------------------------------------------------------------
\* The mouse

\* What the page has done about the press so far agrees with what has happened
\* to it.
PressKnown ==
    /\ swallow \in BOOLEAN
    /\ drag.at # "none" => button \in {"down", "lost"} /\ ~sliding
    /\ button \in {"down", "clicks"} =>
           /\ swallow => "dragged" \in gesture \/ "cut" \in gesture
           /\ "moved" \in gesture => swallow
           /\ "cut" \in gesture => swallow \/ "searched" \in gesture \/ "escaped" \in gesture
    /\ button = "down" =>
           /\ drag.at = "dragging" => "dragged" \in gesture
           /\ drag.at = "none" => \/ "cut" \in gesture \/ "searched" \in gesture
                                  \/ "escaped" \in gesture

\* A step that leaves the mouse alone.
LEMMA PressStays ==
    ASSUME PressKnown, UNCHANGED <<swallow, button, gesture, drag, sliding>>
    PROVE  PressKnown'
    BY DEF PressKnown

LEMMA PressStep ==
    ASSUME PressKnown, [PageNext]_pageVars
    PROVE  /\ PressKnown'
           /\ ClickTaken =>
                 /\ calls' # calls =>
                       /\ "moved" \notin gesture
                       /\ "cut" \in gesture => gesture \cap {"searched", "escaped"} # {}
                 /\ swallow => gesture \cap {"dragged", "cut"} # {}
<1>0. swallow \in BOOLEAN
    BY DEF PressKnown
<1>1. ASSUME UNCHANGED <<swallow, button, gesture, drag, sliding>>
      PROVE  PressKnown' /\ ~ClickTaken
    BY <1>1, PressStays DEF ClickTaken
<1>2. CASE \/ ServeList \/ ServeCreate \/ ServeUpdate \/ ServeDelete \/ ServeReorder
           \/ ServeCopy \/ Refuse \/ SavingFails
    BY <1>1, <1>2 DEF ServeList, ServeCreate, ServeUpdate, ServeDelete, ServeReorder, ServeCopy,
                      Refuse, SavingFails, GoUnchanged, mouse
<1>3. CASE \/ TakeList \/ TakeCreated \/ TakeUpdated \/ TakeDeleted \/ TakeReordered
           \/ TakeFailure \/ TakeFailedReorder \/ TakeMenuReply
    BY <1>1, <1>3 DEF TakeList, TakeCreated, TakeUpdated, TakeDeleted, TakeReordered,
                      TakeFailure, TakeFailedReorder, TakeMenuReply, PageUnchanged, mouse
<1>4. CASE \/ Hide \/ Show \/ SlideEnds \/ OpenMenu \/ UsePopup
           \/ UseForm \/ MoveByKey \/ Search
    BY <1>1, <1>4 DEF Hide, Show, SlideEnds, OpenMenu, UsePopup, UseForm, MoveByKey, Search,
                      WindowUnchanged, mouse
<1>5. CASE UNCHANGED pageVars
    BY <1>1, <1>5 DEF pageVars, mouse
<1>6. CASE AskMenu \/ ClickByKey
    <2>1. button = "up" /\ UNCHANGED <<button, drag, sliding>> /\ swallow' \in BOOLEAN
        BY <1>0, <1>6 DEF AskMenu, ClickByKey
    <2> QED
        BY <2>1 DEF PressKnown, ClickTaken
<1>7. CASE TakeRest
    BY <1>7 DEF TakeRest, PressKnown, ClickTaken, mouse
<1>8. CASE Press
    <2>1. PICK id : PressOn(id)
        BY <1>8 DEF Press
    <2>2. /\ button = "up" /\ button' = "down" /\ swallow' = FALSE
          /\ sliding' = sliding /\ ~sliding
          /\ gesture' = IF CanDrag THEN {} ELSE {"searched"}
          /\ CanDrag => drag'.at = "pressed"
        BY <1>8, <2>1 DEF Press, PressOn, NoDrag, MouseUnchanged
    <2>3. ~CanDrag => drag'.at = "none"
        BY <2>1, <2>2 DEF PressOn, PressKnown
    <2> QED
        BY <2>2, <2>3 DEF PressKnown, ClickTaken
<1>9. CASE TakeSlide \/ Blur
    <2>1. /\ drag'.at = "none" /\ swallow' = (swallow \/ drag.at # "none")
          /\ button' = button /\ Happened("cut")
        BY <1>9 DEF TakeSlide, Blur, Aborted, NoDrag
    <2>2. gesture' = IF button = "down" THEN gesture \cup {"cut"} ELSE gesture
        BY <2>1 DEF Happened
    <2>3. CASE button = "down"
        BY <1>0, <2>1, <2>2, <2>3 DEF PressKnown, ClickTaken
    <2>4. CASE button # "down"
        BY <1>0, <2>1, <2>2, <2>4 DEF PressKnown, ClickTaken
    <2> QED
        BY <2>3, <2>4
<1>10. CASE Release
    <2>1. /\ button = "down" /\ button' \in {"up", "clicks"} /\ sliding' = sliding
          /\ gesture' = IF button' = "up" THEN {}
                        ELSE IF calls' # calls THEN gesture \cup {"moved"} ELSE gesture
          /\ drag'.at = "none"
        BY <1>10 DEF Release, MouseUnchanged, NoDrag, PressKnown
    <2>2. CASE swallow' = swallow /\ calls' = calls
        BY <1>0, <2>1, <2>2 DEF PressKnown, ClickTaken
    <2>3. CASE swallow' = TRUE /\ drag.at = "dragging"
        BY <2>1, <2>3 DEF PressKnown, ClickTaken
    <2> QED
        BY <1>10, <2>2, <2>3 DEF Release, Drop, list
<1>11. CASE Click
    BY <1>11 DEF Click, PressKnown, MouseUnchanged, ClickTaken
<1>12. CASE Drag
    <2>1. /\ button = "down" /\ button' = "down" /\ ~sliding /\ sliding' = sliding
          /\ swallow' = swallow /\ gesture' = gesture \cup {"dragged"}
          /\ drag'.at = "dragging"
        BY <1>12 DEF Drag, MouseUnchanged, Happened
    <2> QED
        BY <2>1 DEF PressKnown, ClickTaken
<1>13. CASE ReleaseUnseen \/ PointerCancel
    <2>1. /\ button = "down" /\ button' \in {"up", "lost"} /\ sliding' = sliding
          /\ swallow' = swallow /\ (drag'.at = "none" \/ (button' = "lost" /\ drag' = drag))
        BY <1>13 DEF ReleaseUnseen, PointerCancel, MouseUnchanged, NoDrag
    <2> QED
        BY <2>1 DEF PressKnown, ClickTaken
<1>14. CASE Escape
    <2>1. /\ button' = button /\ sliding' = sliding /\ swallow' = swallow /\ drag'.at = "none"
          /\ gesture' = IF button = "down" THEN gesture \cup {"escaped"} ELSE gesture
        BY <1>14 DEF Escape, MouseUnchanged, NoDrag, Happened
    <2> QED
        BY <2>1 DEF PressKnown, ClickTaken
<1>15. CASE MoveWithoutButton
    <2>1. /\ button = "lost" /\ button' = "up" /\ sliding' = sliding /\ swallow' \in BOOLEAN
        BY <1>0, <1>15 DEF MoveWithoutButton, MouseUnchanged
    <2>2. drag'.at = "none"
        BY <1>15 DEF MoveWithoutButton, NoDrag, PressKnown
    <2> QED
        BY <2>1, <2>2 DEF PressKnown, ClickTaken
<1> QED
    BY <1>2, <1>3, <1>4, <1>5, <1>6, <1>7, <1>8, <1>9, <1>10, <1>11, <1>12, <1>13, <1>14, <1>15
    DEF PageNext

-----------------------------------------------------------------------------
\* What is on its way: the ids it names

ListDone(e) == e.kind = "done" /\ e.call.op = "list"
CreateDone(e) == e.kind = "done" /\ e.call.op = "create"
DeleteDone(e) == e.kind = "done" /\ e.call.op = "delete"

\* The ids an answer brings to the page.
Brought(e) ==
    IF ListDone(e) THEN Ids(e.result) ELSE IF CreateDone(e) THEN {e.result.id} ELSE {}

\* The ids of the order or the deletion a call asks for.
Named(call) ==
    IF call.op = "delete" THEN {call.id}
    ELSE IF call.op = "reorder" THEN SetOf(call.ids) ELSE {}

NamedBy(cs) == UNION {Named(cs[i]) : i \in DOMAIN cs}

\* The ids that the page has or had, as far as it still matters.
Held == Ids(entries) \cup SetOf(drag.order) \cup NamedBy(calls)

\* One answer on its way, what goes before it brings the ids in "before":
\* a listing has what the page holds by then and the service still has; a new
\* entry is new to the page and still there; a deleted one is not there.
SoundAnswer(e, before, ids, n) ==
    /\ Brought(e) \subseteq 1..n
    /\ ListDone(e) => UniqueIds(e.result) /\ ids \cap before \subseteq Ids(e.result)
    /\ CreateDone(e) => e.result.id \notin before /\ e.result.id \in ids
    /\ DeleteDone(e) => e.result \in 1..n /\ e.result \notin ids

Before(evs, held, k) == held \cup UNION {Brought(evs[j]) : j \in 1..(k - 1)}

SoundAnswers(evs, held, ids, n) ==
    \A k \in 1..Len(evs) : SoundAnswer(evs[k], Before(evs, held, k), ids, n)

LEMMA SilentSound ==
    ASSUME NEW e, Silent(e)
    PROVE  /\ ~ListDone(e) /\ ~CreateDone(e) /\ ~DeleteDone(e) /\ Brought(e) = {}
           /\ \A before, ids, n : SoundAnswer(e, before, ids, n)
    BY DEF Silent, ListDone, CreateDone, DeleteDone, Brought, SoundAnswer

\* The less the page holds, the better; and ids that are neither held nor
\* brought may come and go.
LEMMA SoundForOther ==
    ASSUME NEW e, NEW before, NEW small, small \subseteq before,
           NEW ids, NEW others, NEW n \in Nat, NEW m \in Nat, n <= m,
           SoundAnswer(e, before, ids, n),
           \A x \in others : x \in ids \/ x \notin 1..n,
           before \subseteq 1..n,
           CreateDone(e) => e.result.id \in others
    PROVE  SoundAnswer(e, small, others, m)
<1>1. 1..n \subseteq 1..m
    OBVIOUS
<1>2. ListDone(e) => others \cap small \subseteq Ids(e.result)
    BY DEF SoundAnswer
<1>3. DeleteDone(e) => e.result \in 1..m /\ e.result \notin others
    BY <1>1 DEF SoundAnswer
<1> QED
    BY <1>1, <1>2, <1>3 DEF SoundAnswer

\* What is brought is bounded.
LEMMA BeforeBounded ==
    ASSUME NEW evs \in Seq(Event), NEW held, NEW ids, NEW n \in Nat,
           SoundAnswers(evs, held, ids, n), held \subseteq 1..n
    PROVE  \A k \in 1..(Len(evs) + 1) : Before(evs, held, k) \subseteq 1..n
<1> TAKE k \in 1..(Len(evs) + 1)
<1>1. \A j \in 1..(k - 1) : j \in 1..Len(evs)
    OBVIOUS
<1>2. \A j \in 1..Len(evs) : Brought(evs[j]) \subseteq 1..n
    BY DEF SoundAnswers, SoundAnswer
<1> QED
    BY <1>1, <1>2 DEF Before

LEMMA SoundAll ==
    ASSUME NEW evs \in Seq(Event), NEW held, NEW small, small \subseteq held,
           NEW ids, NEW others, NEW n \in Nat, NEW m \in Nat, n <= m,
           SoundAnswers(evs, held, ids, n), held \subseteq 1..n,
           \A x \in others : x \in ids \/ x \notin 1..n,
           \A x \in ids : x \in others \/ x \in held
    PROVE  SoundAnswers(evs, small, others, m)
<1> SUFFICES ASSUME NEW k \in 1..Len(evs)
             PROVE  SoundAnswer(evs[k], Before(evs, small, k), others, m)
    BY DEF SoundAnswers
<1>1. SoundAnswer(evs[k], Before(evs, held, k), ids, n)
    BY DEF SoundAnswers
<1>2. Before(evs, small, k) \subseteq Before(evs, held, k) /\ held \subseteq Before(evs, held, k)
    BY DEF Before
<1>3. Before(evs, held, k) \subseteq 1..n
    <2>1. k \in 1..(Len(evs) + 1)
        OBVIOUS
    <2> QED
        BY <2>1, BeforeBounded
<1>4. CreateDone(evs[k]) => evs[k].result.id \in others
    BY <1>1, <1>2 DEF SoundAnswer
<1> QED
    BY <1>1, <1>2, <1>3, <1>4, SoundForOther

LEMMA SoundTail ==
    ASSUME NEW evs \in Seq(Event), evs # <<>>, NEW held, NEW small, NEW ids, NEW n \in Nat,
           SoundAnswers(evs, held, ids, n), held \subseteq 1..n,
           small \subseteq held \cup Brought(Head(evs))
    PROVE  SoundAnswers(Tail(evs), small, ids, n)
<1> DEFINE t == Tail(evs)
<1>1. /\ t \in Seq(Event) /\ Len(evs) \in Nat \ {0} /\ Len(t) = Len(evs) - 1 /\ Head(evs) = evs[1]
      /\ \A k \in 1..(Len(evs) - 1) : t[k] = evs[k + 1]
    BY TailOf
<1> HIDE DEF t
<1> SUFFICES ASSUME NEW k \in 1..Len(t)
             PROVE  SoundAnswer(t[k], Before(t, small, k), ids, n)
    BY DEF SoundAnswers, t
<1>2. k + 1 \in 1..Len(evs) /\ t[k] = evs[k + 1] /\ k \in Nat
    BY <1>1
<1>3. SoundAnswer(evs[k + 1], Before(evs, held, k + 1), ids, n)
    BY <1>2 DEF SoundAnswers
<1>4. Before(t, small, k) \subseteq Before(evs, held, k + 1)
    <2>1. ASSUME NEW j \in 1..(k - 1)
          PROVE  t[j] = evs[j + 1] /\ j + 1 \in 1..(k + 1 - 1)
        BY <1>1, <1>2
    <2>2. 1 \in 1..(k + 1 - 1)
        BY <1>2
    <2>3. \A j \in 1..(k + 1 - 1) : Brought(evs[j]) \subseteq Before(evs, held, k + 1)
        BY DEF Before
    <2>4. held \subseteq Before(evs, held, k + 1)
        BY DEF Before
    <2>5. small \subseteq Before(evs, held, k + 1)
        BY <1>1, <2>2, <2>3, <2>4
    <2>6. ASSUME NEW j \in 1..(k - 1)
          PROVE  Brought(t[j]) \subseteq Before(evs, held, k + 1)
        BY <2>1, <2>3
    <2> QED
        BY <2>5, <2>6 DEF Before
<1>5. Before(evs, held, k + 1) \subseteq 1..n
    <2>1. k + 1 \in 1..(Len(evs) + 1)
        BY <1>1, <1>2
    <2> QED
        BY <2>1, BeforeBounded
<1>6. CreateDone(t[k]) => t[k].result.id \in ids
    BY <1>2, <1>3 DEF SoundAnswer
<1> QED
    BY <1>2, <1>3, <1>4, <1>5, <1>6, SoundForOther

LEMMA SoundExtended ==
    ASSUME NEW evs \in Seq(Event), NEW t, Extends(evs, t), NEW held, NEW ids, NEW n,
           SoundAnswers(evs, held, ids, n)
    PROVE  SoundAnswers(t, held, ids, n)
<1>1. /\ t \in Seq(Event) /\ Len(evs) <= Len(t) /\ Len(evs) \in Nat /\ Len(t) \in Nat
      /\ \A k \in 1..Len(evs) : t[k] = evs[k]
      /\ \A k \in (Len(evs) + 1)..Len(t) : Silent(t[k])
    BY DEF Extends
<1> SUFFICES ASSUME NEW k \in 1..Len(t)
             PROVE  SoundAnswer(t[k], Before(t, held, k), ids, n)
    BY DEF SoundAnswers
<1>2. CASE k \in 1..Len(evs)
    <2>1. \A j \in 1..(k - 1) : t[j] = evs[j]
        BY <1>1, <1>2
    <2>2. Before(t, held, k) = Before(evs, held, k)
        BY <2>1 DEF Before
    <2> QED
        BY <1>1, <1>2, <2>2 DEF SoundAnswers
<1>3. CASE k \in (Len(evs) + 1)..Len(t)
    BY <1>1, <1>3, SilentSound
<1> QED
    BY <1>1, <1>2, <1>3

LEMMA SoundAppended ==
    ASSUME NEW evs \in Seq(Event), NEW e, NEW held, NEW ids, NEW n,
           SoundAnswers(evs, held, ids, n),
           SoundAnswer(e, Before(evs, held, Len(evs) + 1), ids, n)
    PROVE  SoundAnswers(Append(evs, e), held, ids, n)
<1> DEFINE t == Append(evs, e)
<1>1. /\ Len(evs) \in Nat /\ Len(t) = Len(evs) + 1 /\ t[Len(evs) + 1] = e
      /\ \A k \in 1..Len(evs) : t[k] = evs[k]
    OBVIOUS
<1> HIDE DEF t
<1> SUFFICES ASSUME NEW k \in 1..Len(t)
             PROVE  SoundAnswer(t[k], Before(t, held, k), ids, n)
    BY DEF SoundAnswers, t
<1>2. \A j \in 1..(k - 1) : t[j] = evs[j]
    BY <1>1
<1>3. Before(t, held, k) = Before(evs, held, k)
    BY <1>2 DEF Before
<1>4. CASE k \in 1..Len(evs)
    BY <1>1, <1>3, <1>4 DEF SoundAnswers
<1>5. CASE k = Len(evs) + 1
    BY <1>1, <1>3, <1>5
<1> QED
    BY <1>1, <1>4, <1>5

-----------------------------------------------------------------------------
\* What the service's operations do to the list as the page is to show it

\* The cards of a listing.
Shown(es) == Cards(Listed(es))

LEMMA ShownRows ==
    ASSUME NEW es, WellNumbered(es)
    PROVE  /\ Shown(es) \in Seq(CardSet) /\ Len(es) \in Nat /\ Len(Shown(es)) = Len(es)
           /\ DOMAIN es = 1..Len(es)
           /\ UniqueIds(Shown(es))
           /\ \A i \in 1..Len(es) :
                 /\ es[i].order + 1 \in 1..Len(es)
                 /\ Shown(es)[es[i].order + 1] = Card(es[i].id, es[i].text)
           /\ \A p \in 1..Len(es) : \E i \in 1..Len(es) :
                 es[i].order + 1 = p /\ Shown(es)[p] = Card(es[i].id, es[i].text)
           /\ Ids(Shown(es)) = Ids(es)
<1> DEFINE l == Listed(es)
           n == Len(es)
<1>1. /\ es \in Seq(Row) /\ n \in Nat /\ DOMAIN es = 1..n
      /\ \A i \in 1..n : es[i].order \in 0..(n - 1)
    BY RowFacts DEF WellNumbered
<1>2. /\ l \in Seq(Row) /\ Len(l) = n /\ UniqueIds(l)
      /\ \A i \in 1..n : l[es[i].order + 1] = es[i]
      /\ \A p \in 1..n : \E i \in 1..n : es[i].order = p - 1 /\ l[p] = es[i]
    BY <1>1, ListedByOrder
<1> HIDE DEF l, n
<1>3. /\ Cards(l) \in Seq(CardSet) /\ Len(Cards(l)) = n /\ UniqueIds(Cards(l))
      /\ \A p \in 1..n : Cards(l)[p] = Card(l[p].id, l[p].text)
      /\ Ids(Cards(l)) = Ids(l)
    BY <1>2, CardsOf
<1>4. \A i \in 1..n : es[i].order + 1 \in 1..n
    BY <1>1
<1>5. \A i \in 1..n : Cards(l)[es[i].order + 1] = Card(es[i].id, es[i].text)
    <2> TAKE i \in 1..n
    <2> DEFINE p == es[i].order + 1
    <2>1. p \in 1..n /\ l[p] = es[i]
        BY <1>2, <1>4
    <2> HIDE DEF p
    <2> QED
        BY <1>3, <2>1 DEF p
<1>6. \A p \in 1..n : \E i \in 1..n : es[i].order + 1 = p /\ Cards(l)[p] = Card(es[i].id, es[i].text)
    <2> TAKE p \in 1..n
    <2>1. PICK i \in 1..n : es[i].order = p - 1 /\ l[p] = es[i]
        BY <1>2
    <2>2. es[i].order + 1 = p
        BY <1>1, <2>1
    <2> QED
        BY <1>3, <2>1, <2>2
<1>7. Ids(l) = Ids(es)
    <2>1. DOMAIN l = 1..n
        BY <1>1, <1>2
    <2>2. ASSUME NEW p \in 1..n
          PROVE  \E i \in 1..n : l[p].id = es[i].id
        BY <1>2
    <2>3. ASSUME NEW i \in 1..n
          PROVE  \E p \in 1..n : l[p].id = es[i].id
        <3> DEFINE p == es[i].order + 1
        <3>1. p \in 1..n /\ l[p] = es[i]
            BY <1>2, <1>4
        <3> HIDE DEF p
        <3> QED
            BY <3>1
    <2>4. Ids(l) = {l[p].id : p \in 1..n} /\ Ids(es) = {es[i].id : i \in 1..n}
        BY <1>1, <2>1 DEF Ids
    <2>5. \A x \in Ids(l) : x \in Ids(es)
        <3> TAKE x \in Ids(l)
        <3>1. PICK p \in 1..n : x = l[p].id
            BY <2>4
        <3> QED
            BY <2>2, <2>4, <3>1
    <2>6. \A x \in Ids(es) : x \in Ids(l)
        <3> TAKE x \in Ids(es)
        <3>1. PICK i \in 1..n : x = es[i].id
            BY <2>4
        <3> QED
            BY <2>3, <2>4, <3>1
    <2> QED
        BY <2>5, <2>6
<1> QED
    BY <1>1, <1>3, <1>4, <1>5, <1>6, <1>7 DEF Shown, l, n

\* A card on top of a list.
LEMMA OnTop ==
    ASSUME NEW c \in CardSet, NEW cs \in Seq(CardSet)
    PROVE  /\ <<c>> \o cs \in Seq(CardSet) /\ Len(<<c>> \o cs) = 1 + Len(cs) /\ Len(cs) \in Nat
           /\ \A p \in 1..(1 + Len(cs)) : (<<c>> \o cs)[p] = IF p <= 1 THEN c ELSE cs[p - 1]
           /\ Ids(<<c>> \o cs) = Ids(cs) \cup {c.id}
           /\ UniqueIds(cs) /\ c.id \notin Ids(cs) => UniqueIds(<<c>> \o cs)
<1> DEFINE one == <<c>>
           v == one \o cs
           n == Len(cs)
<1>1. one \in Seq(CardSet) /\ Len(one) = 1 /\ one[1] = c /\ n \in Nat /\ DOMAIN cs = 1..n
    BY CardFacts
<1> HIDE DEF one
<1>2. /\ v \in Seq(CardSet) /\ Len(v) = Len(one) + n
      /\ \A p \in 1..(Len(one) + n) : v[p] = IF p <= Len(one) THEN one[p] ELSE cs[p - Len(one)]
    BY <1>1, Joined
<1> HIDE DEF v, n
<1>3. ASSUME NEW p \in 1..(1 + n)
      PROVE  v[p] = IF p <= 1 THEN c ELSE cs[p - 1]
    <2>1. p <= 1 => p = 1
        OBVIOUS
    <2> QED
        BY <1>1, <1>2, <2>1
<1>4. DOMAIN v = 1..(1 + n)
    BY <1>1, <1>2
<1>5. v[1] = c /\ 1 \in 1..(1 + n)
    BY <1>1, <1>3
<1>6. \A p \in 1..n : p + 1 \in 1..(1 + n) /\ v[p + 1] = cs[p]
    <2> TAKE p \in 1..n
    <2>1. p + 1 \in 1..(1 + n) /\ ~(p + 1 <= 1) /\ p + 1 - 1 = p
        BY <1>1
    <2> QED
        BY <1>3, <2>1
<1>7. \A p \in 1..(1 + n) : p = 1 \/ (p - 1 \in 1..n /\ v[p] = cs[p - 1])
    <2> TAKE p \in 1..(1 + n)
    <2>1. p = 1 \/ (p - 1 \in 1..n /\ ~(p <= 1))
        BY <1>1
    <2> QED
        BY <1>3, <2>1
<1>8. Ids(v) = {v[p].id : p \in 1..(1 + n)} /\ Ids(cs) = {cs[p].id : p \in 1..n}
    BY <1>1, <1>4 DEF Ids
<1>9. Ids(v) = Ids(cs) \cup {c.id}
    <2>1. \A x \in Ids(cs) : x \in Ids(v)
        BY <1>6, <1>8
    <2>2. \A x \in Ids(v) : x = c.id \/ x \in Ids(cs)
        BY <1>5, <1>7, <1>8
    <2> QED
        BY <1>5, <1>8, <2>1, <2>2
<1>10. ASSUME UniqueIds(cs), c.id \notin Ids(cs), NEW i \in 1..(1 + n), NEW j \in 1..(1 + n),
              v[i].id = v[j].id
       PROVE  i = j
    <2>1. \A p \in 1..n : cs[p].id # c.id
        BY <1>8, <1>10
    <2>2. CASE i = 1
        BY <1>5, <1>7, <1>10, <2>1, <2>2
    <2>3. CASE j = 1
        BY <1>5, <1>7, <1>10, <2>1, <2>3
    <2>4. CASE i # 1 /\ j # 1
        <3>1. i - 1 = j - 1
            BY ZenonT(60), <1>1, <1>7, <1>10, <2>4 DEF UniqueIds
        <3> QED
            BY <3>1
    <2> QED
        BY <2>2, <2>3, <2>4
<1>11. UniqueIds(cs) /\ c.id \notin Ids(cs) => UniqueIds(v)
    BY <1>4, <1>10 DEF UniqueIds
<1> QED
    BY <1>1, <1>2, <1>3, <1>9, <1>11 DEF v, one, n

LEMMA ShownCreated ==
    ASSUME NEW es, WellNumbered(es), NEW u \in Nat, Below(es, u), NEW text \in Labels
    PROVE  /\ Shown(Created(es, u + 1, text)) = <<Card(u + 1, text)>> \o Shown(es)
           /\ Ids(Created(es, u + 1, text)) = Ids(es) \cup {u + 1}
<1> DEFINE n == Len(es)
           new == Created(es, u + 1, text)
           c == Card(u + 1, text)
           l == Shown(es)
           v == <<c>> \o l
<1>1. /\ Len(new) = n + 1
      /\ \A i \in 1..n : /\ new[i].id = es[i].id /\ new[i].text = es[i].text
                         /\ new[i].order = es[i].order + 1
      /\ new[n + 1] = Entry(u + 1, text, 0)
    BY CreatedRows
<1>2. WellNumbered(new)
    BY CreatedKeeps
<1> HIDE DEF new
<1>3. /\ l \in Seq(CardSet) /\ n \in Nat /\ Len(l) = n
      /\ \A p \in 1..n : \E i \in 1..n :
            es[i].order + 1 = p /\ l[p] = Card(es[i].id, es[i].text)
      /\ Ids(l) = Ids(es)
    BY ShownRows
<1> HIDE DEF l, n
<1>4. /\ Shown(new) \in Seq(CardSet) /\ Len(Shown(new)) = n + 1
      /\ \A i \in 1..(n + 1) : Shown(new)[new[i].order + 1] = Card(new[i].id, new[i].text)
      /\ Ids(Shown(new)) = Ids(new)
    BY <1>1, <1>2, ShownRows
<1>5. c \in CardSet /\ c.id = u + 1
    BY MadeCard DEF Card
<1> HIDE DEF c
<1>6. /\ v \in Seq(CardSet) /\ Len(v) = 1 + n /\ Ids(v) = Ids(l) \cup {c.id}
      /\ \A p \in 1..(1 + n) : v[p] = IF p <= 1 THEN c ELSE l[p - 1]
    BY <1>3, <1>5, OnTop
<1> HIDE DEF v
<1>7. ASSUME NEW p \in 1..(n + 1)
      PROVE  Shown(new)[p] = v[p]
    <2>1. CASE p = 1
        <3>1. n + 1 \in 1..(n + 1) /\ 1 \in 1..(1 + n) /\ 1 <= 1
            BY <1>3
        <3>2. new[n + 1].order + 1 = 1 /\ new[n + 1].id = u + 1 /\ new[n + 1].text = text
            BY <1>1 DEF Entry
        <3>3. v[1] = c
            BY <1>6, <3>1
        <3> QED
            BY <1>4, <2>1, <3>1, <3>2, <3>3 DEF c
    <2>2. CASE p # 1
        <3>1. p - 1 \in 1..n /\ ~(p <= 1) /\ p \in 1..(1 + n)
            BY <1>3, <2>2
        <3>2. PICK i \in 1..n : es[i].order + 1 = p - 1 /\ l[p - 1] = Card(es[i].id, es[i].text)
            BY <1>3, <3>1
        <3>3. new[i].order + 1 = p /\ i \in 1..(n + 1)
            <4>1. new[i].order = p - 1 /\ p \in Int
                BY <1>1, <3>2
            <4> QED
                BY <1>3, <4>1
        <3> QED
            BY <1>1, <1>4, <1>6, <3>1, <3>2, <3>3
    <2> QED
        BY <2>1, <2>2
<1>8. Shown(new) = v
    <2>1. Len(Shown(new)) = Len(v)
        BY <1>3, <1>4, <1>6
    <2> QED
        BY <1>4, <1>6, <1>7, <2>1, SameSeq
<1> QED
    BY <1>3, <1>4, <1>5, <1>6, <1>8 DEF new, v, c, l, n

LEMMA ShownUpdated ==
    ASSUME NEW es, WellNumbered(es), NEW u \in Nat, Below(es, u),
           NEW id \in Ids(es), id \in Nat, NEW text \in Labels
    PROVE  /\ Shown(Updated(es, id, text)) = WithCard(Shown(es), Card(id, text))
           /\ Ids(Updated(es, id, text)) = Ids(es)
<1> DEFINE n == Len(es)
           new == Updated(es, id, text)
           card == Card(id, text)
           l == Shown(es)
           v == WithCard(l, card)
<1>1. /\ l \in Seq(CardSet) /\ n \in Nat /\ Len(l) = n /\ DOMAIN es = 1..n
      /\ \A p \in 1..n : \E i \in 1..n :
            es[i].order + 1 = p /\ l[p] = Card(es[i].id, es[i].text)
      /\ Ids(l) = Ids(es)
    BY ShownRows
<1>2. /\ Len(new) = n
      /\ \A i \in 1..n : /\ new[i].id = es[i].id /\ new[i].order = es[i].order
                         /\ new[i].text = IF es[i].id = id THEN text ELSE es[i].text
    BY <1>1, UpdatedRows
<1>3. WellNumbered(new)
    BY UpdatedKeeps
<1> HIDE DEF new
<1>4. /\ Shown(new) \in Seq(CardSet) /\ Len(Shown(new)) = n
      /\ \A i \in 1..n : Shown(new)[new[i].order + 1] = Card(new[i].id, new[i].text)
      /\ Ids(Shown(new)) = Ids(new)
    BY <1>2, <1>3, ShownRows
<1>5. card \in CardSet /\ card.id = id
    BY MadeCard DEF Card
<1> HIDE DEF card, l, n
<1>6. /\ v \in Seq(CardSet) /\ Len(v) = n /\ Ids(v) = Ids(l)
      /\ \A p \in 1..n : v[p] = IF l[p].id = card.id THEN card ELSE l[p]
    BY ZenonT(60), <1>1, <1>5, WithCardFacts
<1> HIDE DEF v
<1>7. ASSUME NEW p \in 1..n
      PROVE  Shown(new)[p] = v[p]
    <2>1. PICK i \in 1..n : es[i].order + 1 = p /\ l[p] = Card(es[i].id, es[i].text)
        BY <1>1
    <2>2. Shown(new)[p] = Card(es[i].id, IF es[i].id = id THEN text ELSE es[i].text)
        BY <1>2, <1>4, <2>1
    <2>3. l[p].id = es[i].id
        BY <2>1 DEF Card
    <2>4. es[i].id = id => Shown(new)[p] = card
        BY <2>2 DEF card
    <2> QED
        BY <1>5, <1>6, <2>1, <2>2, <2>3, <2>4
<1>8. Shown(new) = v
    <2>1. Len(Shown(new)) = Len(v)
        BY <1>4, <1>6
    <2> QED
        BY <1>4, <1>6, <1>7, <2>1, SameSeq
<1> QED
    BY <1>1, <1>4, <1>6, <1>8 DEF new, v, card, l, n

\* A reordering shows the same cards, in the order asked for.
LEMMA ShownReordered ==
    ASSUME NEW es, WellNumbered(es), NEW u \in Nat, Below(es, u),
           NEW ids \in Seq(Nat), IsReordering(es, ids)
    PROVE  LET after == Shown(Reordered(es, ids))
           IN  /\ after \in Seq(CardSet) /\ Len(after) = Len(es)
               /\ \A p \in 1..Len(es) : /\ after[p].id = ids[p]
                                        /\ \E q \in 1..Len(es) : after[p] = Shown(es)[q]
               /\ \A q \in 1..Len(es) : \E p \in 1..Len(es) : Shown(es)[q] = after[p]
               /\ Ids(Reordered(es, ids)) = Ids(es)
<1> DEFINE n == Len(es)
           new == Reordered(es, ids)
<1>1. /\ Shown(es) \in Seq(CardSet) /\ n \in Nat /\ Len(Shown(es)) = n /\ DOMAIN es = 1..n
      /\ \A i \in 1..n : /\ es[i].order + 1 \in 1..n
                         /\ Shown(es)[es[i].order + 1] = Card(es[i].id, es[i].text)
      /\ \A p \in 1..n : \E i \in 1..n :
            es[i].order + 1 = p /\ Shown(es)[p] = Card(es[i].id, es[i].text)
    BY ShownRows
<1>2. /\ Len(new) = n
      /\ \A i \in 1..n : /\ new[i].id = es[i].id /\ new[i].text = es[i].text
                         /\ ids[new[i].order + 1] = es[i].id
    BY <1>1, ReorderedRows
<1>3. WellNumbered(new)
    BY ReorderingIds, ReorderedKeeps
<1> HIDE DEF new, n
<1>4. /\ Shown(new) \in Seq(CardSet) /\ Len(Shown(new)) = n /\ DOMAIN new = 1..n
      /\ \A i \in 1..n : /\ new[i].order + 1 \in 1..n
                         /\ Shown(new)[new[i].order + 1] = Card(new[i].id, new[i].text)
      /\ \A p \in 1..n : \E i \in 1..n :
            new[i].order + 1 = p /\ Shown(new)[p] = Card(new[i].id, new[i].text)
    BY <1>2, <1>3, ShownRows
<1>5. ASSUME NEW p \in 1..n
      PROVE  Shown(new)[p].id = ids[p] /\ \E q \in 1..n : Shown(new)[p] = Shown(es)[q]
    <2>1. PICK i \in 1..n : new[i].order + 1 = p /\ Shown(new)[p] = Card(new[i].id, new[i].text)
        BY <1>4
    <2>2. Shown(new)[p] = Card(es[i].id, es[i].text) /\ ids[p] = es[i].id
        BY <1>2, <2>1
    <2>3. Shown(new)[p].id = ids[p]
        BY <2>2 DEF Card
    <2>4. Shown(new)[p] = Shown(es)[es[i].order + 1] /\ es[i].order + 1 \in 1..n
        BY <1>1, <2>2
    <2> QED
        BY <2>2, <2>3, <2>4
<1>6. ASSUME NEW q \in 1..n
      PROVE  \E p \in 1..n : Shown(es)[q] = Shown(new)[p]
    <2>1. PICK i \in 1..n : es[i].order + 1 = q /\ Shown(es)[q] = Card(es[i].id, es[i].text)
        BY <1>1
    <2>2. Shown(new)[new[i].order + 1] = Shown(es)[q]
        BY <1>2, <1>4, <2>1
    <2> QED
        BY <1>4, <2>2
<1>7. Ids(new) = Ids(es)
    <2>1. Ids(new) = {new[i].id : i \in 1..n} /\ Ids(es) = {es[i].id : i \in 1..n}
        BY <1>1, <1>4 DEF Ids
    <2> QED
        BY <1>2, <2>1
<1> QED
    BY <1>4, <1>5, <1>6, <1>7 DEF new, n

LEMMA ShownDeleted ==
    ASSUME NEW es, WellNumbered(es), NEW u \in Nat, Below(es, u), NEW id \in Ids(es)
    PROVE  /\ Shown(Deleted(es, id)) = Dropped(Shown(es), id)
           /\ Ids(Deleted(es, id)) = Ids(es) \ {id}
<1> DEFINE n == Len(es)
           k == At(es, id)
           q == es[k].order + 1
           new == Deleted(es, id)
           l == Shown(es)
           v == Picked(l, (1..Len(l)) \ {q})
<1>1. /\ l \in Seq(CardSet) /\ n \in Nat /\ Len(l) = n /\ DOMAIN es = 1..n /\ UniqueIds(l)
      /\ \A i \in 1..n : /\ es[i].order + 1 \in 1..n
                         /\ l[es[i].order + 1] = Card(es[i].id, es[i].text)
      /\ \A p \in 1..n : \E i \in 1..n :
            es[i].order + 1 = p /\ l[p] = Card(es[i].id, es[i].text)
      /\ Ids(l) = Ids(es)
    BY ShownRows
<1>2. k \in 1..n /\ es[k].id = id
    BY <1>1, Found
<1>3. /\ Len(new) = n - 1
      /\ \A i \in (1..n) \ {k} :
            LET p == IF es[i].order < es[k].order THEN es[i].order + 1 ELSE es[i].order
            IN  /\ p \in 1..(n - 1)
                /\ new[p].id = es[i].id /\ new[p].text = es[i].text
                /\ new[p].order = p - 1
    <2>1. /\ Len(new) = Len(es) - 1
          /\ \A i \in DOMAIN es \ {k} :
                LET p == IF es[i].order < es[k].order THEN es[i].order + 1 ELSE es[i].order
                IN  /\ p \in 1..(Len(es) - 1)
                    /\ new[p].id = es[i].id /\ new[p].text = es[i].text
                    /\ new[p].order = p - 1
        BY DeletedRows
    <2> HIDE DEF new, k
    <2> QED
        BY <1>1, <2>1
<1>4. WellNumbered(new)
    BY DeletedKeeps
<1>5. \A i \in 1..n : es[i].order \in Int
    BY RowFacts DEF WellNumbered
<1> HIDE DEF new, l, k, n
<1>6. /\ Shown(new) \in Seq(CardSet) /\ Len(Shown(new)) = n - 1
      /\ \A i \in 1..(n - 1) : Shown(new)[new[i].order + 1] = Card(new[i].id, new[i].text)
      /\ Ids(Shown(new)) = Ids(new)
    BY <1>3, <1>4, ShownRows
<1>7. q \in 1..n /\ l[q].id = id
    <2>1. l[q] = Card(es[k].id, es[k].text)
        BY <1>1, <1>2
    <2> QED
        BY <1>1, <1>2, <2>1 DEF Card
<1> HIDE DEF q
<1>8. /\ v \in Seq(CardSet) /\ Len(v) = n - 1
      /\ \A m \in 1..(n - 1) : v[m] = l[IF m < q THEN m ELSE m + 1]
    <2>1. q \in 1..Len(l) /\ l \in Seq(CardSet)
        BY <1>1, <1>7
    <2>2. /\ v \in Seq(CardSet) /\ Len(v) = Len(l) - 1
          /\ \A m \in 1..(Len(l) - 1) : v[m] = l[IF m < q THEN m ELSE m + 1]
        BY <2>1, PickedWithout
    <2> HIDE DEF v
    <2> QED
        BY <1>1, <2>2
<1>9. v = Dropped(l, id)
    <2>1. DOMAIN l = 1..n
        BY <1>1
    <2>2. \A p \in 1..n : l[p].id # id <=> p # q
        BY <1>1, <1>7, <2>1 DEF UniqueIds
    <2>3. {p \in DOMAIN l : l[p].id # id} = (1..Len(l)) \ {q}
        BY <1>1, <2>1, <2>2
    <2> QED
        BY <2>3 DEF Dropped
<1> HIDE DEF v
<1>10. ASSUME NEW p \in 1..(n - 1)
       PROVE  Shown(new)[p] = v[p]
    <2> DEFINE m == IF p < q THEN p ELSE p + 1
    <2>1. m \in 1..n /\ m # q
        <3>1. q \in Int /\ p \in Int /\ p >= 1 /\ p <= n - 1
            BY <1>1, <1>7
        <3> QED
            BY <1>1, <3>1
    <2>2. PICK i \in 1..n : es[i].order + 1 = m /\ l[m] = Card(es[i].id, es[i].text)
        BY <1>1, <2>1
    <2>3. i # k
        BY <2>1, <2>2 DEF q
    <2>4. es[i].order \in Int /\ es[k].order \in Int /\ q = es[k].order + 1
        BY <1>2, <1>5 DEF q
    <2>5. p = IF es[i].order < es[k].order THEN es[i].order + 1 ELSE es[i].order
        <3>1. CASE p < q
            BY <2>2, <2>4, <3>1
        <3>2. CASE ~(p < q)
            <4>1. es[i].order = p
                BY <2>2, <2>4, <3>2
            <4> QED
                BY <2>4, <3>2, <4>1
        <3> QED
            BY <3>1, <3>2
    <2> HIDE DEF m
    <2>6. new[p].id = es[i].id /\ new[p].text = es[i].text /\ new[p].order = p - 1
        BY <1>3, <2>3, <2>5
    <2>7. new[p].order + 1 = p
        BY <2>6
    <2>8. Shown(new)[p] = l[m]
        BY <1>6, <2>2, <2>6, <2>7
    <2> QED
        BY <1>8, <2>8 DEF m
<1>11. Shown(new) = v
    <2>1. Len(Shown(new)) = Len(v)
        BY <1>6, <1>8
    <2>2. \A p \in 1..Len(v) : Shown(new)[p] = v[p]
        BY <1>8, <1>10
    <2> QED
        BY <1>6, <1>8, <2>1, <2>2, SameSeq
<1>12. Ids(v) = Ids(l) \ {id}
    BY <1>1, <1>9, DroppedFacts
<1> QED
    BY <1>1, <1>6, <1>9, <1>11, <1>12 DEF new, l, n

-----------------------------------------------------------------------------
\* No id is taken for another

\* An order that is asked for after a deletion has the id that goes only if it
\* was gone before.
OrdersKnow ==
    \A i, j \in 1..Len(calls) :
        j < i /\ calls[i].op = "reorder" /\ calls[j].op = "delete"
            => calls[j].id \in SetOf(calls[i].ids) \/ calls[j].id \notin Ids(stored)

\* What the page holds was given; of what the service still has, the page has
\* what it held; and the answers on their way fit both.
Fresh ==
    /\ Held \subseteq 1..given
    /\ SoundAnswers(evals, Held, Ids(stored), given)
    /\ Ids(stored) \cap Held \subseteq Ids(entries)
    /\ OrdersKnow

LEMMA NamedAppended ==
    ASSUME NEW T, NEW cs \in Seq(T), NEW call \in T
    PROVE  NamedBy(Append(cs, call)) = NamedBy(cs) \cup Named(call)
<1> DEFINE v == Append(cs, call)
<1>1. /\ Len(cs) \in Nat /\ DOMAIN cs = 1..Len(cs) /\ DOMAIN v = 1..(Len(cs) + 1)
      /\ v[Len(cs) + 1] = call /\ \A i \in 1..Len(cs) : v[i] = cs[i]
    OBVIOUS
<1> HIDE DEF v
<1>2. \A i \in 1..(Len(cs) + 1) : i \in 1..Len(cs) \/ i = Len(cs) + 1
    BY <1>1
<1>3. NamedBy(v) \subseteq NamedBy(cs) \cup Named(call)
    BY <1>1, <1>2 DEF NamedBy
<1>4. NamedBy(cs) \subseteq NamedBy(v)
    <2>1. \A i \in 1..Len(cs) : i \in DOMAIN v
        BY <1>1
    <2> QED
        BY <1>1, <2>1 DEF NamedBy
<1>5. Named(call) \subseteq NamedBy(v)
    <2>1. Len(cs) + 1 \in DOMAIN v
        BY <1>1
    <2> QED
        BY <1>1, <2>1 DEF NamedBy
<1> QED
    BY <1>3, <1>4, <1>5 DEF v

LEMMA NamedTail ==
    ASSUME NEW T, NEW cs \in Seq(T), cs # <<>>
    PROVE  NamedBy(Tail(cs)) \subseteq NamedBy(cs) /\ Named(Head(cs)) \subseteq NamedBy(cs)
<1> DEFINE v == Tail(cs)
<1>1. /\ Len(cs) \in Nat \ {0} /\ DOMAIN cs = 1..Len(cs) /\ DOMAIN v = 1..(Len(cs) - 1)
      /\ Head(cs) = cs[1] /\ \A i \in 1..(Len(cs) - 1) : v[i] = cs[i + 1]
    OBVIOUS
<1> HIDE DEF v
<1>2. \A i \in 1..(Len(cs) - 1) : i + 1 \in 1..Len(cs)
    BY <1>1
<1>3. 1 \in DOMAIN cs
    BY <1>1
<1> QED
    BY <1>1, <1>2, <1>3 DEF NamedBy, v

LEMMA StoredIds ==
    ASSUME ListTypes
    PROVE  Ids(stored) \subseteq 1..given
    BY DEF ListTypes, Below, Ids

\* Whatever the step, unless it hears an answer.
LEMMA FreshUnlessHeard ==
    ASSUME Typed, Fresh, Held' \subseteq Held, UNCHANGED <<stored, given>>,
           Ids(entries') = Ids(entries), OrdersKnow',
           Extends(evals, evals') \/ (evals # <<>> /\ evals' = Tail(evals))
    PROVE  Fresh'
<1>1. /\ evals \in Seq(Event) /\ given \in Nat
      /\ Held \subseteq 1..given /\ SoundAnswers(evals, Held, Ids(stored), given)
    BY DEF Typed, PageTypes, ListTypes, Fresh
<1>2. given <= given
    BY <1>1
<1>3. SoundAnswers(evals, Held', Ids(stored), given)
    BY <1>1, <1>2, SoundAll
<1>4. SoundAnswers(evals', Held', Ids(stored), given)
    <2>1. CASE Extends(evals, evals')
        BY <1>1, <1>3, <2>1, SoundExtended
    <2>2. CASE evals # <<>> /\ evals' = Tail(evals)
        BY <1>1, <2>2, SoundTail
    <2> QED
        BY <2>1, <2>2
<1> QED
    BY <1>1, <1>4 DEF Fresh

LEMMA HeldAfter ==
    ASSUME DragKept
    PROVE  Held' \subseteq Ids(entries') \cup Ids(entries) \cup SetOf(drag.order) \cup NamedBy(calls')
<1>1. Held' = Ids(entries') \cup SetOf(drag'.order) \cup NamedBy(calls')
    BY DEF Held, SetOf, Ids, NamedBy, Named
<1> QED
    BY <1>1 DEF DragKept

LEMMA FreshIdle ==
    ASSUME Typed, Fresh, DragKept, Idles
    PROVE  Fresh' /\ UniqueIds(entries')
<1>1. UNCHANGED <<stored, given, calls, entries>> /\ Extends(evals, evals')
    BY DEF Idles
<1>2. Held' \subseteq Held
    BY <1>1, HeldAfter DEF Held
<1>3. OrdersKnow'
    BY <1>1 DEF Fresh, OrdersKnow
<1> QED
    BY <1>1, <1>2, <1>3, FreshUnlessHeard DEF Typed

LEMMA FreshPost ==
    ASSUME Typed, Fresh, DragKept, Posts
    PROVE  Fresh' /\ UniqueIds(entries')
<1>1. PICK call \in SomeCall :
          /\ call.op \notin {"list", "reorder"}
          /\ call.op = "delete" => call.id \in Ids(entries)
          /\ calls' = Append(calls, call)
          /\ UNCHANGED <<stored, given, evals, entries, overlapped>>
    BY DEF Posts
<1>2. evals \in Seq(Event) /\ calls \in Seq(SomeCall)
    BY DEF Typed, PageTypes, ListTypes
<1>3. NamedBy(calls') = NamedBy(calls) \cup Named(call)
    BY <1>1, <1>2, NamedAppended
<1>4. Named(call) \subseteq Ids(entries)
    BY <1>1 DEF Named
<1>5. Held' \subseteq Held
    BY <1>1, <1>3, <1>4, HeldAfter DEF Held
<1>6. OrdersKnow'
    <2>1. /\ Len(calls) \in Nat /\ Len(calls') = Len(calls) + 1 /\ calls'[Len(calls) + 1] = call
          /\ \A i \in 1..Len(calls) : calls'[i] = calls[i]
        BY <1>1, <1>2, OneMore
    <2>2. ASSUME NEW i \in 1..Len(calls'), NEW j \in 1..Len(calls'), j < i, calls'[i].op = "reorder"
          PROVE  i \in 1..Len(calls) /\ j \in 1..Len(calls)
        BY <1>1, <2>1, <2>2
    <2> QED
        BY <1>1, <2>1, <2>2 DEF Fresh, OrdersKnow
<1>7. Extends(evals, evals')
    BY <1>1, <1>2, ExtendsFacts
<1> QED
    BY <1>1, <1>5, <1>6, <1>7, FreshUnlessHeard DEF Typed

LEMMA FreshRefresh ==
    ASSUME Typed, Fresh, DragKept, Refreshes
    PROVE  Fresh' /\ UniqueIds(entries')
<1> DEFINE call == [op |-> "list"]
<1>1. calls' = Append(calls, call) /\ UNCHANGED <<stored, given, entries>>
    BY DEF Refreshes, Refresh, Posting
<1>2. evals \in Seq(Event) /\ calls \in Seq(SomeCall) /\ call \in SomeCall /\ call.op = "list"
    BY MadeRight DEF Typed, PageTypes, ListTypes
<1> HIDE DEF call
<1>3. NamedBy(calls') = NamedBy(calls) \cup Named(call)
    BY <1>1, <1>2, NamedAppended
<1>4. Named(call) = {}
    BY <1>2 DEF Named
<1>5. Held' \subseteq Held
    BY <1>1, <1>3, <1>4, HeldAfter DEF Held
<1>6. OrdersKnow'
    <2>1. /\ Len(calls) \in Nat /\ Len(calls') = Len(calls) + 1 /\ calls'[Len(calls) + 1] = call
          /\ \A i \in 1..Len(calls) : calls'[i] = calls[i]
        BY <1>1, <1>2, OneMore
    <2>2. ASSUME NEW i \in 1..Len(calls'), NEW j \in 1..Len(calls'), j < i, calls'[i].op = "reorder"
          PROVE  i \in 1..Len(calls) /\ j \in 1..Len(calls)
        BY <1>2, <2>1, <2>2
    <2> QED
        BY <1>1, <2>1, <2>2 DEF Fresh, OrdersKnow
<1>7. Extends(evals, evals') \/ (evals # <<>> /\ evals' = Tail(evals))
    BY <1>2, ExtendsFacts DEF Refreshes
<1> QED
    BY <1>1, <1>5, <1>6, <1>7, FreshUnlessHeard DEF Typed

LEMMA FreshRearranged ==
    ASSUME Typed, Fresh, DragKept, Rearranges
    PROVE  Fresh' /\ UniqueIds(entries')
<1>1. PICK ids \in Seq(Nat) : ShowsOrder(ids)
    BY DEF Rearranges
<1> DEFINE call == [op |-> "reorder", ids |-> ids]
<1>2. /\ evals \in Seq(Event) /\ calls \in Seq(SomeCall) /\ call \in SomeCall
      /\ call.op = "reorder" /\ call.ids = ids
      /\ entries \in Seq(CardSet) /\ UniqueIds(entries)
    BY MadeRight DEF Typed, PageTypes, ListTypes
<1>3. /\ calls' = Append(calls, call) /\ UNCHANGED <<stored, given>>
      /\ Distinct(ids) /\ SetOf(ids) \subseteq Ids(entries) \cup SetOf(drag.order)
      /\ Len(InOrder(entries, ids)) = Len(entries) /\ entries' = InOrder(entries, ids)
    BY <1>1 DEF ShowsOrder
<1>4. Ids(entries) \subseteq SetOf(ids) /\ Ids(entries') = Ids(entries) /\ UniqueIds(entries')
    BY <1>2, <1>3, InOrderWhole, InOrderFacts
<1> HIDE DEF call
<1>5. NamedBy(calls') = NamedBy(calls) \cup SetOf(ids)
    <2>1. NamedBy(calls') = NamedBy(calls) \cup Named(call)
        BY <1>2, <1>3, NamedAppended
    <2> QED
        BY <1>2, <2>1 DEF Named
<1>6. Held' \subseteq Held
    BY <1>3, <1>4, <1>5, HeldAfter DEF Held
<1>7. OrdersKnow'
    <2>1. /\ Len(calls) \in Nat /\ Len(calls') = Len(calls) + 1 /\ calls'[Len(calls) + 1] = call
          /\ \A i \in 1..Len(calls) : calls'[i] = calls[i]
        BY <1>2, <1>3, OneMore
    <2>2. ASSUME NEW i \in 1..Len(calls'), NEW j \in 1..Len(calls'), j < i,
                 calls'[i].op = "reorder", calls'[j].op = "delete"
          PROVE  calls'[j].id \in SetOf(calls'[i].ids) \/ calls'[j].id \notin Ids(stored)
        <3>1. j \in 1..Len(calls)
            BY <2>1, <2>2
        <3>2. CASE i \in 1..Len(calls)
            BY <2>1, <2>2, <3>1, <3>2 DEF Fresh, OrdersKnow
        <3>3. CASE i = Len(calls) + 1
            <4>1. calls[j] = calls'[j] /\ j \in DOMAIN calls
                BY <1>2, <2>1, <3>1
            <4>2. calls[j].id \in NamedBy(calls)
                <5>1. calls[j].id \in Named(calls[j])
                    BY <2>2, <4>1 DEF Named
                <5> QED
                    BY <4>1, <5>1 DEF NamedBy
            <4>3. calls[j].id \in Ids(stored) => calls[j].id \in SetOf(ids)
                BY <1>4, <4>2 DEF Fresh, Held
            <4> QED
                BY <1>2, <2>1, <3>3, <4>1, <4>3
        <3> QED
            BY <2>1, <3>2, <3>3
    <2> QED
        BY <1>3, <2>2 DEF OrdersKnow
<1>8. Extends(evals, evals') \/ (evals # <<>> /\ evals' = Tail(evals))
    BY <1>1, <1>2, ExtendsFacts DEF ShowsOrder, Listens
<1> QED
    BY <1>3, <1>4, <1>6, <1>7, <1>8, FreshUnlessHeard

LEMMA AppliedFresh ==
    ASSUME NEW e \in Event, NEW cs \in Seq(CardSet), UniqueIds(cs),
           NEW held, Ids(cs) \subseteq held, NEW ids, NEW n,
           SoundAnswer(e, held, ids, n), ids \cap held \subseteq Ids(cs)
    PROVE  /\ UniqueIds(Applied(e, cs))
           /\ Ids(Applied(e, cs)) \subseteq Ids(cs) \cup Brought(e)
           /\ ids \cap (held \cup Brought(e)) \subseteq Ids(Applied(e, cs))
<1> DEFINE after == Applied(e, cs)
<1>1. CASE ListDone(e)
    <2>1. after = e.result /\ Brought(e) = Ids(e.result)
        BY <1>1 DEF Applied, ListDone, Brought
    <2> HIDE DEF after
    <2> QED
        BY <1>1, <2>1 DEF SoundAnswer, after
<1>2. CASE CreateDone(e)
    <2>1. after = <<e.result>> \o cs /\ Brought(e) = {e.result.id} /\ e.result \in CardSet
        BY <1>2, EventFacts DEF Applied, ListDone, CreateDone, Brought
    <2>2. e.result.id \notin Ids(cs)
        BY <1>2 DEF SoundAnswer
    <2> HIDE DEF after
    <2>3. Ids(after) = Ids(cs) \cup {e.result.id} /\ UniqueIds(after)
        BY <2>1, <2>2, OnTop
    <2> QED
        BY <2>1, <2>3 DEF after
<1>3. CASE e.kind = "done" /\ e.call.op = "update"
    <2>1. after = WithCard(cs, e.result) /\ Brought(e) = {} /\ e.result \in CardSet
        BY <1>3, EventFacts DEF Applied, ListDone, CreateDone, Brought
    <2> HIDE DEF after
    <2>2. Ids(after) = Ids(cs) /\ UniqueIds(after)
        BY <2>1, WithCardFacts
    <2> QED
        BY <2>1, <2>2 DEF after
<1>4. CASE DeleteDone(e)
    <2>1. after = Dropped(cs, e.result) /\ Brought(e) = {} /\ e.result \notin ids
        BY <1>4 DEF Applied, ListDone, CreateDone, DeleteDone, Brought, SoundAnswer
    <2> HIDE DEF after
    <2>2. Ids(after) = Ids(cs) \ {e.result} /\ UniqueIds(after)
        BY <2>1, DroppedFacts
    <2> QED
        BY <2>1, <2>2 DEF after
<1>5. CASE e.kind # "done" \/ e.call.op \notin {"list", "create", "update", "delete"}
    <2>1. after = cs /\ Brought(e) = {}
        BY <1>5 DEF Applied, ListDone, CreateDone, Brought
    <2> QED
        BY <2>1
<1> QED
    BY <1>1, <1>2, <1>3, <1>4, <1>5 DEF ListDone, CreateDone, DeleteDone

LEMMA FreshHeard ==
    ASSUME Typed, Fresh, DragKept, Hears
    PROVE  Fresh' /\ UniqueIds(entries')
<1> DEFINE e == Head(evals)
<1>1. /\ evals # <<>> /\ evals' = Tail(evals) /\ entries' = Applied(e, entries)
      /\ UNCHANGED <<stored, given, calls>>
    BY DEF Hears
<1>2. /\ evals \in Seq(Event) /\ entries \in Seq(CardSet) /\ UniqueIds(entries) /\ given \in Nat
      /\ Held \subseteq 1..given /\ SoundAnswers(evals, Held, Ids(stored), given)
      /\ Ids(stored) \cap Held \subseteq Ids(entries) /\ OrdersKnow
    BY DEF Typed, PageTypes, ListTypes, Fresh
<1>3. e \in Event /\ e = evals[1] /\ 1 \in 1..Len(evals)
    BY <1>1, <1>2, TailOf
<1>4. SoundAnswer(e, Held, Ids(stored), given)
    <2>1. Before(evals, Held, 1) = Held
        BY DEF Before
    <2> QED
        BY <1>2, <1>3, <2>1 DEF SoundAnswers
<1>5. Ids(entries) \subseteq Held
    BY DEF Held
<1> HIDE DEF e
<1>6. /\ UniqueIds(entries') /\ Ids(entries') \subseteq Ids(entries) \cup Brought(e)
      /\ Ids(stored) \cap (Held \cup Brought(e)) \subseteq Ids(entries')
    BY <1>1, <1>2, <1>3, <1>4, <1>5, AppliedFresh
<1>7. Held' \subseteq Held \cup Brought(e)
    BY <1>1, <1>6, HeldAfter DEF Held
<1>8. Held' \subseteq 1..given
    BY <1>2, <1>4, <1>7 DEF SoundAnswer
<1>9. SoundAnswers(evals', Held', Ids(stored), given)
    BY <1>1, <1>2, <1>7, SoundTail DEF e
<1>10. OrdersKnow'
    BY <1>1, <1>2 DEF OrdersKnow
<1> QED
    BY <1>1, <1>6, <1>7, <1>8, <1>9, <1>10 DEF Fresh

\* Go runs a call: what the list has afterwards, and the answer.
LEMMA FreshServed ==
    ASSUME Typed, Fresh, calls # <<>>, calls' = Tail(calls), UNCHANGED <<entries, drag>>,
           given' \in Nat, given <= given',
           \A x \in Ids(stored') : x \in Ids(stored) \/ x \notin 1..given,
           \A x \in Ids(stored) : x \in Ids(stored') \/ x \in Held,
           \/ evals' = evals
           \/ \E e : /\ evals' = Append(evals, e)
                     /\ \A before : before \subseteq 1..given
                                        => SoundAnswer(e, before, Ids(stored'), given')
    PROVE  Fresh'
<1>1. /\ evals \in Seq(Event) /\ given \in Nat /\ calls \in Seq(SomeCall)
      /\ Held \subseteq 1..given /\ SoundAnswers(evals, Held, Ids(stored), given)
      /\ Ids(stored) \cap Held \subseteq Ids(entries) /\ OrdersKnow
    BY DEF Typed, PageTypes, ListTypes, Fresh
<1>2. NamedBy(calls') \subseteq NamedBy(calls)
    BY <1>1, NamedTail
<1>3. Held' \subseteq Held
    <2>1. Held' = Ids(entries) \cup SetOf(drag.order) \cup NamedBy(calls')
        BY DEF Held, SetOf, Ids, NamedBy, Named
    <2> QED
        BY <1>2, <2>1 DEF Held
<1>4. Held' \subseteq 1..given'
    <2>1. 1..given \subseteq 1..given'
        BY <1>1
    <2> QED
        BY <1>1, <1>3, <2>1
<1>5. SoundAnswers(evals, Held', Ids(stored'), given')
    BY <1>1, <1>3, SoundAll
<1>6. SoundAnswers(evals', Held', Ids(stored'), given')
    <2>1. CASE evals' = evals
        BY <1>5, <2>1
    <2>2. ASSUME NEW e, evals' = Append(evals, e),
                 \A before : before \subseteq 1..given => SoundAnswer(e, before, Ids(stored'), given')
          PROVE  SoundAnswers(evals', Held', Ids(stored'), given')
        <3>1. Before(evals, Held', Len(evals) + 1) \subseteq 1..given
            <4>1. Before(evals, Held, Len(evals) + 1) \subseteq 1..given
                <5>1. Len(evals) + 1 \in 1..(Len(evals) + 1)
                    BY <1>1
                <5> QED
                    BY <1>1, <5>1, BeforeBounded
            <4> QED
                BY <1>3, <4>1 DEF Before
        <3> QED
            BY <1>1, <1>5, <2>2, <3>1, SoundAppended
    <2> QED
        BY <2>1, <2>2
<1>7. Ids(stored') \cap Held' \subseteq Ids(entries')
    <2>1. Ids(stored') \cap Held \subseteq Ids(stored)
        BY <1>1
    <2>2. Ids(entries') = Ids(entries)
        BY DEF Ids
    <2> QED
        BY <1>1, <1>3, <2>1, <2>2
<1>8. OrdersKnow'
    <2>1. /\ Len(calls) \in Nat \ {0} /\ Len(calls') = Len(calls) - 1
          /\ \A i \in 1..(Len(calls) - 1) : calls'[i] = calls[i + 1]
          /\ DOMAIN calls = 1..Len(calls)
        BY <1>1, TailOf
    <2>2. ASSUME NEW i \in 1..Len(calls'), NEW j \in 1..Len(calls'), j < i,
                 calls'[i].op = "reorder", calls'[j].op = "delete"
          PROVE  calls'[j].id \in SetOf(calls'[i].ids) \/ calls'[j].id \notin Ids(stored')
        <3>1. /\ i + 1 \in 1..Len(calls) /\ j + 1 \in 1..Len(calls) /\ j + 1 < i + 1
              /\ calls'[i] = calls[i + 1] /\ calls'[j] = calls[j + 1]
            BY <2>1, <2>2
        <3>2. calls'[j].id \in SetOf(calls'[i].ids) \/ calls'[j].id \notin Ids(stored)
            BY <1>1, <2>2, <3>1 DEF OrdersKnow
        <3>3. calls[j + 1].id \in NamedBy(calls)
            <4>1. calls[j + 1].id \in Named(calls[j + 1])
                BY <2>2, <3>1 DEF Named
            <4> QED
                BY <2>1, <3>1, <4>1 DEF NamedBy
        <3>4. calls'[j].id \in 1..given
            BY <1>1, <3>1, <3>3 DEF Held
        <3> QED
            BY <3>2, <3>4
    <2> QED
        BY <2>2 DEF OrdersKnow
<1> QED
    BY <1>4, <1>6, <1>7, <1>8 DEF Fresh

\* What Go's step shows for: the call it ran and what became of the list.
ListServed(call) ==
    /\ call.op = "list" /\ UNCHANGED <<stored, given>>
    /\ evals' = Append(evals, Done(call, Shown(stored)))

CreateServed(call) ==
    /\ call.op = "create" /\ given' = given + 1
    /\ Ids(stored') = Ids(stored) \cup {given + 1}
    /\ \E card \in CardSet :
          /\ card.id = given + 1
          /\ Shown(stored') = <<card>> \o Shown(stored)
          /\ evals' = Append(evals, Done(call, card))

UpdateServed(call) ==
    /\ call.op = "update" /\ given' = given /\ Ids(stored') = Ids(stored)
    /\ \E card \in CardSet :
          /\ Shown(stored') = WithCard(Shown(stored), card)
          /\ evals' = Append(evals, Done(call, card))

DeleteServed(call) ==
    /\ call.op = "delete" /\ call.id \in Ids(stored) /\ given' = given
    /\ Ids(stored') = Ids(stored) \ {call.id}
    /\ Shown(stored') = Dropped(Shown(stored), call.id)
    /\ evals' = Append(evals, Done(call, call.id))

ReorderServed(call) ==
    /\ call.op = "reorder" /\ given' = given /\ Ids(stored') = Ids(stored)
    /\ call.ids \in Seq(Nat) /\ SetOf(call.ids) = Ids(stored)
    /\ Len(call.ids) = Len(Shown(stored)) /\ Len(Shown(stored')) = Len(Shown(stored))
    /\ \A p \in 1..Len(Shown(stored)) :
          /\ Shown(stored')[p].id = call.ids[p]
          /\ \E q \in 1..Len(Shown(stored)) : Shown(stored)[p] = Shown(stored')[q]
    /\ evals' = Append(evals, Done(call, call.ids))

CopyServed(call) == call.op = "copy" /\ UNCHANGED <<stored, given, evals>>

CallFailed(call) ==
    call.op # "list" /\ UNCHANGED <<stored, given>> /\ evals' = Append(evals, Failed(call))

LEMMA ServeFacts ==
    ASSUME Typed, Serves
    PROVE  /\ calls # <<>> /\ calls' = Tail(calls) /\ UNCHANGED <<entries, overlapped, drag>>
           /\ Head(calls) \in SomeCall
           /\ \/ ListServed(Head(calls)) \/ CreateServed(Head(calls)) \/ UpdateServed(Head(calls))
              \/ DeleteServed(Head(calls)) \/ ReorderServed(Head(calls)) \/ CopyServed(Head(calls))
              \/ CallFailed(Head(calls))
<1>1. /\ WellNumbered(stored) /\ Below(stored, given) /\ given \in Nat
    BY DEF Typed, PageTypes, ListTypes
<1> DEFINE c == Head(calls)
<1>2. calls # <<>> /\ calls' = Tail(calls) /\ UNCHANGED <<entries, overlapped, drag>>
    BY ServeTypes DEF Serves, ServeList, ServeCreate, ServeUpdate, ServeDelete, ServeReorder, ServeCopy,
           Serving, Fails
<1>3. c \in SomeCall
    BY <1>2, CallInFront
<1> HIDE DEF c
<1>4. CASE ServeList
    <2>1. c.op = "list"
        BY <1>4 DEF ServeList, Serving, c
    <2>2. ListServed(c)
        BY <1>4, <2>1 DEF ServeList, Replying, ListServed, Shown, c
    <2> QED
        BY <1>2, <1>3, <2>2 DEF c
<1>5. CASE ServeCreate
    <2> DEFINE card == Card(given + 1, c.text)
    <2>1. c.op = "create" /\ c.text \in Labels
        BY <1>3, <1>5, CallFacts DEF ServeCreate, c
    <2>2. /\ given' = given + 1 /\ stored' = Created(stored, given + 1, c.text)
          /\ evals' = Append(evals, Done(c, card))
        BY <1>5 DEF ServeCreate, Replying, c
    <2>3. card \in CardSet /\ card.id = given + 1
        BY <1>1, <2>1, MadeCard DEF Card
    <2>4. Shown(stored') = <<card>> \o Shown(stored) /\ Ids(stored') = Ids(stored) \cup {given + 1}
        BY <1>1, <2>1, <2>2, ShownCreated
    <2> HIDE DEF card
    <2>5. CreateServed(c)
        BY <2>1, <2>2, <2>3, <2>4 DEF CreateServed
    <2> QED
        BY <1>2, <1>3, <2>5 DEF c
<1>6. CASE ServeUpdate
    <2> DEFINE card == Card(c.id, c.text)
    <2>1. c.op = "update" /\ c.text \in Labels /\ c.id \in Nat /\ c.id \in Ids(stored)
        BY <1>3, <1>6, CallFacts DEF ServeUpdate, Known, c
    <2>2. /\ given' = given /\ stored' = Updated(stored, c.id, c.text)
          /\ evals' = Append(evals, Done(c, card))
        BY <1>6 DEF ServeUpdate, Replying, c
    <2>3. card \in CardSet
        BY <2>1, MadeCard
    <2>4. Shown(stored') = WithCard(Shown(stored), card) /\ Ids(stored') = Ids(stored)
        BY <1>1, <2>1, <2>2, ShownUpdated
    <2> HIDE DEF card
    <2>5. UpdateServed(c)
        BY <2>1, <2>2, <2>3, <2>4 DEF UpdateServed
    <2> QED
        BY <1>2, <1>3, <2>5 DEF c
<1>7. CASE ServeDelete
    <2>1. c.op = "delete" /\ c.id \in Ids(stored)
        BY <1>7 DEF ServeDelete, Known, c
    <2>2. given' = given /\ stored' = Deleted(stored, c.id) /\ evals' = Append(evals, Done(c, c.id))
        BY <1>7 DEF ServeDelete, Replying, c
    <2>3. Shown(stored') = Dropped(Shown(stored), c.id) /\ Ids(stored') = Ids(stored) \ {c.id}
        BY <1>1, <2>1, <2>2, ShownDeleted
    <2>4. DeleteServed(c)
        BY <2>1, <2>2, <2>3 DEF DeleteServed
    <2> QED
        BY <1>2, <1>3, <2>4 DEF c
<1>8. CASE ServeReorder
    <2>1. c.op = "reorder" /\ c.ids \in Seq(Nat) /\ IsReordering(stored, c.ids)
        BY <1>3, <1>8, CallFacts DEF ServeReorder, c
    <2>2. given' = given /\ stored' = Reordered(stored, c.ids) /\ evals' = Append(evals, Done(c, c.ids))
        BY <1>8 DEF ServeReorder, Replying, c
    <2>3. SetOf(c.ids) = Ids(stored) /\ Len(c.ids) = Len(stored) /\ Len(Shown(stored)) = Len(stored)
        BY <1>1, <2>1, ReorderingIds, ShownRows
    <2>4. /\ Len(Shown(stored')) = Len(stored)
          /\ \A p \in 1..Len(stored) : Shown(stored')[p].id = c.ids[p]
          /\ \A q \in 1..Len(stored) : \E p \in 1..Len(stored) : Shown(stored)[q] = Shown(stored')[p]
          /\ Ids(stored') = Ids(stored)
        <3> DEFINE ids == c.ids
        <3>1. ids \in Seq(Nat) /\ IsReordering(stored, ids) /\ stored' = Reordered(stored, ids)
            BY <2>1, <2>2
        <3> HIDE DEF ids
        <3>2. LET after == Shown(Reordered(stored, ids))
              IN  /\ after \in Seq(CardSet) /\ Len(after) = Len(stored)
                  /\ \A p \in 1..Len(stored) :
                        after[p].id = ids[p] /\ \E q \in 1..Len(stored) : after[p] = Shown(stored)[q]
                  /\ \A q \in 1..Len(stored) : \E p \in 1..Len(stored) : Shown(stored)[q] = after[p]
                  /\ Ids(Reordered(stored, ids)) = Ids(stored)
            BY <1>1, <3>1, ShownReordered
        <3> QED
            BY <3>1, <3>2 DEF ids
    <2>5. ReorderServed(c)
        BY <2>1, <2>2, <2>3, <2>4 DEF ReorderServed
    <2> QED
        BY <1>2, <1>3, <2>5 DEF c
<1>9. CASE ServeCopy
    <2>1. CopyServed(c)
        BY <1>9 DEF ServeCopy, CopyServed, c
    <2> QED
        BY <1>2, <1>3, <2>1 DEF c
<1>10. CASE Fails
    <2>1. CallFailed(c)
        BY <1>10 DEF Fails, CallFailed, c
    <2> QED
        BY <1>2, <1>3, <2>1 DEF c
<1> QED
    BY <1>4, <1>5, <1>6, <1>7, <1>8, <1>9, <1>10 DEF Serves

LEMMA FreshServing ==
    ASSUME Typed, Fresh, Serves
    PROVE  Fresh' /\ UniqueIds(entries')
<1>1. /\ given \in Nat /\ Ids(stored) \subseteq 1..given /\ WellNumbered(stored)
      /\ UniqueIds(entries) /\ calls \in Seq(SomeCall) /\ Held \subseteq 1..given
    BY StoredIds DEF Typed, PageTypes, ListTypes, Fresh
<1> DEFINE c == Head(calls)
<1>2. calls # <<>> /\ calls' = Tail(calls) /\ UNCHANGED <<entries, drag>> /\ c \in SomeCall
    BY ServeFacts
<1> HIDE DEF c
<1>3. \/ ListServed(c) \/ CreateServed(c) \/ UpdateServed(c) \/ DeleteServed(c)
      \/ ReorderServed(c) \/ CopyServed(c) \/ CallFailed(c)
    BY ServeFacts DEF c
<1>4. given <= given /\ given <= given + 1 /\ given + 1 \in Nat /\ given + 1 \notin 1..given
      /\ given + 1 \in 1..(given + 1) /\ 1..given \subseteq 1..(given + 1)
    BY <1>1
<1>5. UniqueIds(entries')
    BY <1>1, <1>2
<1>6. CASE ListServed(c)
    <2> DEFINE e == Done(c, Shown(stored))
    <2>1. Ids(Shown(stored)) = Ids(stored) /\ UniqueIds(Shown(stored))
        BY <1>1, ShownRows
    <2>2. /\ ListDone(e) /\ ~CreateDone(e) /\ ~DeleteDone(e) /\ Brought(e) = Ids(stored)
          /\ e.result = Shown(stored)
        BY <1>6, <2>1 DEF ListServed, Done, ListDone, CreateDone, DeleteDone, Brought
    <2>3. evals' = Append(evals, e) /\ UNCHANGED <<stored, given>>
        BY <1>6 DEF ListServed
    <2> HIDE DEF e
    <2>4. \A before : SoundAnswer(e, before, Ids(stored), given)
        BY <1>1, <2>1, <2>2 DEF SoundAnswer
    <2> QED
        BY <1>1, <1>2, <1>4, <1>5, <2>3, <2>4, FreshServed
<1>7. CASE CreateServed(c)
    <2>1. PICK card \in CardSet : card.id = given + 1 /\ evals' = Append(evals, Done(c, card))
        BY <1>7 DEF CreateServed
    <2> DEFINE e == Done(c, card)
    <2>2. given' = given + 1 /\ Ids(stored') = Ids(stored) \cup {given + 1}
        BY <1>7 DEF CreateServed
    <2>3. /\ ~ListDone(e) /\ CreateDone(e) /\ ~DeleteDone(e) /\ Brought(e) = {given + 1}
          /\ e.result.id = given + 1
        BY <1>7, <2>1 DEF CreateServed, Done, ListDone, CreateDone, DeleteDone, Brought
    <2>4. evals' = Append(evals, e)
        BY <2>1
    <2> HIDE DEF e
    <2>5. \A before : before \subseteq 1..given => SoundAnswer(e, before, Ids(stored'), given')
        BY <1>4, <2>2, <2>3 DEF SoundAnswer
    <2>6. /\ \A x \in Ids(stored') : x \in Ids(stored) \/ x \notin 1..given
          /\ \A x \in Ids(stored) : x \in Ids(stored')
          /\ given' \in Nat /\ given <= given'
        BY <1>4, <2>2
    <2> QED
        BY <1>1, <1>2, <1>5, <2>4, <2>5, <2>6, FreshServed
<1>8. CASE UpdateServed(c)
    <2>1. PICK card \in CardSet : evals' = Append(evals, Done(c, card))
        BY <1>8 DEF UpdateServed
    <2> DEFINE e == Done(c, card)
    <2>2. given' = given /\ Ids(stored') = Ids(stored)
        BY <1>8 DEF UpdateServed
    <2>3. ~ListDone(e) /\ ~CreateDone(e) /\ ~DeleteDone(e) /\ Brought(e) = {}
        BY <1>8 DEF UpdateServed, Done, ListDone, CreateDone, DeleteDone, Brought
    <2>4. evals' = Append(evals, e)
        BY <2>1
    <2> HIDE DEF e
    <2>5. \A before : SoundAnswer(e, before, Ids(stored'), given')
        BY <2>3 DEF SoundAnswer
    <2> QED
        BY <1>1, <1>2, <1>4, <1>5, <2>2, <2>4, <2>5, FreshServed
<1>9. CASE DeleteServed(c)
    <2> DEFINE e == Done(c, c.id)
    <2>1. /\ given' = given /\ Ids(stored') = Ids(stored) \ {c.id} /\ evals' = Append(evals, e)
          /\ c.op = "delete" /\ c.id \in Ids(stored)
        BY <1>9 DEF DeleteServed
    <2>2. ~ListDone(e) /\ ~CreateDone(e) /\ Brought(e) = {} /\ e.result = c.id
        BY <2>1 DEF Done, ListDone, CreateDone, Brought
    <2> HIDE DEF e
    <2>3. \A before : SoundAnswer(e, before, Ids(stored'), given')
        BY <1>1, <2>1, <2>2 DEF SoundAnswer
    <2>4. c.id \in Held
        <3>1. Named(c) \subseteq NamedBy(calls)
            BY <1>1, <1>2, NamedTail DEF c
        <3> QED
            BY <2>1, <3>1 DEF Named, Held
    <2> QED
        BY <1>1, <1>2, <1>4, <1>5, <2>1, <2>3, <2>4, FreshServed
<1>10. CASE ReorderServed(c)
    <2> DEFINE e == Done(c, c.ids)
    <2>1. given' = given /\ Ids(stored') = Ids(stored) /\ evals' = Append(evals, e) /\ c.op = "reorder"
        BY <1>10 DEF ReorderServed
    <2>2. ~ListDone(e) /\ ~CreateDone(e) /\ ~DeleteDone(e) /\ Brought(e) = {}
        BY <2>1 DEF Done, ListDone, CreateDone, DeleteDone, Brought
    <2> HIDE DEF e
    <2>3. \A before : SoundAnswer(e, before, Ids(stored'), given')
        BY <2>2 DEF SoundAnswer
    <2> QED
        BY <1>1, <1>2, <1>4, <1>5, <2>1, <2>3, FreshServed
<1>11. CASE CopyServed(c)
    BY <1>1, <1>2, <1>4, <1>5, <1>11, FreshServed DEF CopyServed
<1>12. CASE CallFailed(c)
    <2> DEFINE e == Failed(c)
    <2>1. ~ListDone(e) /\ ~CreateDone(e) /\ ~DeleteDone(e) /\ Brought(e) = {}
        BY DEF Failed, ListDone, CreateDone, DeleteDone, Brought
    <2>2. evals' = Append(evals, e) /\ UNCHANGED <<stored, given>>
        BY <1>12 DEF CallFailed
    <2> HIDE DEF e
    <2>3. \A before : SoundAnswer(e, before, Ids(stored), given)
        BY <2>1 DEF SoundAnswer
    <2> QED
        BY <1>1, <1>2, <1>4, <1>5, <2>2, <2>3, FreshServed
<1> QED
    BY <1>3, <1>6, <1>7, <1>8, <1>9, <1>10, <1>11, <1>12

\* The page's types and its ids, together.
LEMMA PageTypesStep ==
    ASSUME Typed, Fresh, Menus, [PageNext]_pageVars
    PROVE  Typed' /\ Fresh' /\ Menus' /\ DragKept /\ Steps
<1>1. DragKept /\ Steps
    BY PageSteps
<1>2. ListTypes' /\ evals' \in Seq(Event)
    BY <1>1, ListTypesStep
<1>3. Menus' /\ MenuTypes'
    BY MenuSteps
<1>4. Fresh' /\ UniqueIds(entries')
    BY <1>1, FreshIdle, FreshHeard, FreshPost, FreshRefresh, FreshRearranged, FreshServing DEF Steps
<1>5. DragTypes' /\ Distinct(drag'.order)
    BY <1>1 DEF DragKept
<1> QED
    BY <1>1, <1>2, <1>3, <1>4, <1>5 DEF Typed, PageTypes, UniqueIds, Distinct

-----------------------------------------------------------------------------
\* A reordering that a listing on its way does not know of

ListsAhead(i) ==
    \/ \E j \in 1..(i - 1) : calls[j].op = "list"
    \/ \E k \in 1..Len(evals) : ListDone(evals[k])

\* Unless a reordering was shown while a refresh was under way, a listing that
\* goes before a reordering is not the last one.
RefreshFollows ==
    ~overlapped => \A i \in 1..Len(calls) :
        calls[i].op = "reorder" /\ ListsAhead(i) => \E j \in (i + 1)..Len(calls) : calls[j].op = "list"

LEMMA NotRefreshing ==
    ASSUME Typed, ~Refreshing
    PROVE  /\ \A i \in 1..Len(calls) : calls[i].op # "list"
           /\ \A k \in 1..Len(evals) : ~ListDone(evals[k])
<1>1. DOMAIN calls = 1..Len(calls) /\ DOMAIN evals = 1..Len(evals)
    BY DEF Typed, PageTypes, ListTypes
<1> QED
    BY <1>1 DEF Refreshing, Answers, ListDone

\* Events that go before or that are no answers bring no listing.
LEMMA NoListMore ==
    ASSUME Typed, Extends(evals, evals') \/ (evals # <<>> /\ evals' = Tail(evals)),
           NEW k \in 1..Len(evals'), ListDone(evals'[k])
    PROVE  \E m \in 1..Len(evals) : ListDone(evals[m])
<1>1. evals \in Seq(Event)
    BY DEF Typed, PageTypes
<1>2. CASE Extends(evals, evals')
    <2>1. k \in 1..Len(evals) \/ k \in (Len(evals) + 1)..Len(evals')
        BY <1>1, <1>2 DEF Extends
    <2>2. k \notin (Len(evals) + 1)..Len(evals')
        BY <1>2, SilentSound DEF Extends
    <2> QED
        BY <1>2, <2>1, <2>2 DEF Extends
<1>3. CASE evals # <<>> /\ evals' = Tail(evals)
    <2>1. k + 1 \in 1..Len(evals) /\ evals'[k] = evals[k + 1]
        BY <1>1, <1>3, TailOf
    <2> QED
        BY <2>1
<1> QED
    BY <1>2, <1>3

LEMMA RefreshFollowsStep ==
    ASSUME Typed, RefreshFollows, Steps
    PROVE  RefreshFollows'
<1>0. evals \in Seq(Event) /\ calls \in Seq(SomeCall) /\ Len(calls) \in Nat /\ Len(evals) \in Nat
    BY DEF Typed, PageTypes, ListTypes
\* Nothing new ahead of the reorderings, and what follows them stays.
<1>1. ASSUME overlapped' = overlapped, calls' = calls,
             Extends(evals, evals') \/ (evals # <<>> /\ evals' = Tail(evals))
      PROVE  RefreshFollows'
    <2>1. \A i \in 1..Len(calls) : ListsAhead(i)' => ListsAhead(i)
        BY <1>1, NoListMore DEF ListsAhead
    <2> QED
        BY <1>1, <2>1 DEF RefreshFollows
<1>2. ASSUME NEW call \in SomeCall, calls' = Append(calls, call),
             Extends(evals, evals') \/ (evals # <<>> /\ evals' = Tail(evals)),
             \/ call.op = "list"
             \/ call.op # "reorder" /\ overlapped' = overlapped
             \/ overlapped' = (overlapped \/ Refreshing)
      PROVE  RefreshFollows'
    <2>1. /\ Len(calls') = Len(calls) + 1 /\ calls'[Len(calls) + 1] = call
          /\ \A i \in 1..Len(calls) : calls'[i] = calls[i]
        BY <1>0, <1>2, OneMore
    <2> SUFFICES ASSUME ~overlapped', NEW i \in 1..Len(calls'), calls'[i].op = "reorder", ListsAhead(i)'
                 PROVE  \E j \in (i + 1)..Len(calls') : calls'[j].op = "list"
        BY DEF RefreshFollows
    <2>2. CASE call.op = "list"
        <3>1. i # Len(calls) + 1
            BY <2>1, <2>2
        <3>2. Len(calls) + 1 \in (i + 1)..Len(calls')
            BY <1>0, <2>1, <3>1
        <3> QED
            BY <2>1, <2>2, <3>2
    <2>3. \A j \in 1..(i - 1) : j \in 1..Len(calls) /\ calls'[j] = calls[j]
        BY <1>0, <2>1
    <2>4. ListsAhead(i)
        <3>1. CASE \E j \in 1..(i - 1) : calls'[j].op = "list"
            BY <2>3, <3>1 DEF ListsAhead
        <3>2. CASE \E k \in 1..Len(evals') : ListDone(evals'[k])
            BY <1>2, <3>2, NoListMore DEF ListsAhead
        <3> QED
            BY <3>1, <3>2 DEF ListsAhead
    <2>5. CASE call.op # "reorder" /\ overlapped' = overlapped
        <3>1. i \in 1..Len(calls) /\ calls'[i] = calls[i]
            BY <1>0, <2>1, <2>5
        <3>2. PICK j \in (i + 1)..Len(calls) : calls[j].op = "list"
            BY <2>4, <2>5, <3>1 DEF RefreshFollows
        <3>3. j \in (i + 1)..Len(calls') /\ calls'[j] = calls[j]
            <4>1. j \in 1..Len(calls)
                BY <1>0, <3>1
            <4> QED
                BY <1>0, <2>1, <4>1
        <3> QED
            BY <3>2, <3>3
    <2>6. CASE overlapped' = (overlapped \/ Refreshing)
        <3>1. ~Refreshing
            BY <2>6
        <3>2. /\ \A j \in 1..Len(calls) : calls[j].op # "list"
              /\ \A k \in 1..Len(evals) : ~ListDone(evals[k])
            BY <3>1, NotRefreshing
        <3> QED
            BY <2>3, <2>4, <3>2 DEF ListsAhead
    <2> QED
        BY <1>2, <2>2, <2>5, <2>6
<1>3. CASE Idles
    BY <1>1, <1>3 DEF Idles
<1>4. CASE Hears
    BY <1>1, <1>4 DEF Hears
<1>5. Extends(evals, evals)
    BY <1>0, ExtendsFacts
<1>6. CASE Posts
    BY <1>2, <1>5, <1>6 DEF Posts
<1>7. CASE Refreshes
    <2>1. [op |-> "list"] \in SomeCall
        BY MadeRight
    <2> QED
        BY <1>2, <1>5, <1>7, <2>1 DEF Refreshes, Refresh, Posting
<1>8. CASE Rearranges
    <2>1. PICK ids \in Seq(Nat) : ShowsOrder(ids)
        BY <1>8 DEF Rearranges
    <2>2. [op |-> "reorder", ids |-> ids] \in SomeCall
        BY MadeRight
    <2> QED
        BY <1>2, <1>5, <2>1, <2>2 DEF ShowsOrder, Listens
<1>9. CASE Serves
    <2>1. calls # <<>> /\ calls' = Tail(calls) /\ overlapped' = overlapped
        BY <1>9, ServeFacts
    <2>2. /\ Len(calls') = Len(calls) - 1 /\ Head(calls) = calls[1] /\ Len(calls) \in Nat \ {0}
          /\ \A i \in 1..(Len(calls) - 1) : calls'[i] = calls[i + 1]
        BY <1>0, <2>1, TailOf
    <2> SUFFICES ASSUME ~overlapped', NEW i \in 1..Len(calls'), calls'[i].op = "reorder", ListsAhead(i)'
                 PROVE  \E j \in (i + 1)..Len(calls') : calls'[j].op = "list"
        BY DEF RefreshFollows
    <2>3. i + 1 \in 1..Len(calls) /\ calls'[i] = calls[i + 1]
        BY <2>2
    <2>4. ListsAhead(i + 1)
        <3>1. CASE \E j \in 1..(i - 1) : calls'[j].op = "list"
            <4>1. PICK j \in 1..(i - 1) : calls'[j].op = "list"
                BY <3>1
            <4>2. j + 1 \in 1..(i + 1 - 1) /\ calls'[j] = calls[j + 1]
                BY <2>2
            <4> QED
                BY <4>1, <4>2 DEF ListsAhead
        <3>2. CASE Head(calls).op = "list"
            <4>1. 1 \in 1..(i + 1 - 1)
                BY <2>2
            <4> QED
                BY <2>2, <3>2, <4>1 DEF ListsAhead
        <3>3. ASSUME NEW k \in 1..Len(evals'), ListDone(evals'[k]), Head(calls).op # "list"
              PROVE  \E m \in 1..Len(evals) : ListDone(evals[m])
            <4>1. CASE evals' = evals
                BY <3>3, <4>1
            <4>2. ASSUME NEW e, evals' = Append(evals, e), ~ListDone(e)
                  PROVE  \E m \in 1..Len(evals) : ListDone(evals[m])
                <5>1. /\ evals'[Len(evals) + 1] = e /\ Len(evals') = Len(evals) + 1
                      /\ \A m \in 1..Len(evals) : evals'[m] = evals[m]
                    BY <1>0, <4>2
                <5>2. k \in 1..Len(evals)
                    BY <1>0, <3>3, <4>2, <5>1
                <5> QED
                    BY <3>3, <5>1, <5>2
            <4>3. \A r : ~ListDone(Done(Head(calls), r))
                BY <3>3 DEF ListDone, Done
            <4>4. ~ListDone(Failed(Head(calls)))
                BY DEF ListDone, Failed
            <4>5. \/ evals' = evals
                  \/ \E r : evals' = Append(evals, Done(Head(calls), r))
                  \/ evals' = Append(evals, Failed(Head(calls)))
                BY <1>9, ServeFacts DEF ListServed, CreateServed, UpdateServed, DeleteServed,
                                        ReorderServed, CopyServed, CallFailed
            <4> QED
                BY <4>1, <4>2, <4>3, <4>4, <4>5
        <3> QED
            BY <3>1, <3>2, <3>3 DEF ListsAhead
    <2>5. PICK j \in (i + 1 + 1)..Len(calls) : calls[j].op = "list"
        BY <2>1, <2>3, <2>4 DEF RefreshFollows
    <2>6. j - 1 \in (i + 1)..Len(calls') /\ calls'[j - 1] = calls[j]
        <3>1. j - 1 \in 1..(Len(calls) - 1) /\ j - 1 + 1 = j /\ j - 1 >= i + 1
            BY <2>2
        <3> QED
            BY <2>2, <3>1
    <2> QED
        BY <2>5, <2>6
<1> QED
    BY <1>3, <1>4, <1>6, <1>7, <1>8, <1>9 DEF Steps

-----------------------------------------------------------------------------
\* What the page will show once it has heard what is on its way

\* The lists V[from], ..., V[Len(evs)], each of them what the page makes of
\* the one before it; the first is cs, the page's own, or a listing's.
Chain(evs, cs, v, from, V) ==
    /\ IF from = 0 THEN V[0] = cs ELSE ListDone(evs[from]) /\ V[from] = evs[from].result
    /\ \A k \in from..Len(evs) : V[k] \in Seq(CardSet) /\ UniqueIds(V[k])
    /\ \A k \in (from + 1)..Len(evs) : V[k] = Applied(evs[k], V[k - 1])
    /\ V[Len(evs)] = v

\* The events lead the page from cs to v.
Leads(evs, cs, v) == \E from \in 0..Len(evs) : \E V : Chain(evs, cs, v, from, V)

LEMMA LeadsTypes ==
    ASSUME NEW evs \in Seq(Event), NEW cs, NEW v, Leads(evs, cs, v)
    PROVE  v \in Seq(CardSet) /\ UniqueIds(v)
<1>1. PICK from \in 0..Len(evs) : \E V : Chain(evs, cs, v, from, V)
    BY DEF Leads
<1>2. PICK V : Chain(evs, cs, v, from, V)
    BY <1>1
<1>3. Len(evs) \in from..Len(evs)
    OBVIOUS
<1> QED
    BY <1>2, <1>3 DEF Chain

\* One more list at the end of a chain.
LEMMA ChainGrows ==
    ASSUME NEW n \in Nat, NEW m \in Nat, n <= m, NEW from \in 0..n, NEW V, NEW w
    PROVE  LET W == [k \in 0..m |-> IF k <= n THEN V[k] ELSE w]
           IN  /\ \A k \in from..n : k \in 0..m /\ W[k] = V[k]
               /\ \A k \in (n + 1)..m : W[k] = w
               /\ \A k \in from..m : k \in from..n \/ k \in (n + 1)..m
               /\ \A k \in (from + 1)..m :
                     \/ k \in (from + 1)..n /\ k - 1 \in from..n
                     \/ k = n + 1 /\ k - 1 = n
                     \/ k \in (n + 2)..m /\ k - 1 \in (n + 1)..m
    OBVIOUS

LEMMA LeadsExtended ==
    ASSUME NEW evs \in Seq(Event), NEW t, Extends(evs, t), NEW cs, NEW v, Leads(evs, cs, v)
    PROVE  Leads(t, cs, v)
<1>1. PICK from \in 0..Len(evs) : \E V : Chain(evs, cs, v, from, V)
    BY DEF Leads
<1>2. PICK V : Chain(evs, cs, v, from, V)
    BY <1>1
<1> DEFINE n == Len(evs)
           m == Len(t)
           W == [k \in 0..m |-> IF k <= n THEN V[k] ELSE v]
<1>3. /\ n \in Nat /\ m \in Nat /\ n <= m /\ from \in 0..n
      /\ \A k \in 1..n : t[k] = evs[k]
      /\ \A k \in (n + 1)..m : Silent(t[k])
    BY DEF Extends
<1>4. /\ \A k \in from..n : k \in 0..m /\ W[k] = V[k]
      /\ \A k \in (n + 1)..m : W[k] = v
      /\ \A k \in from..m : k \in from..n \/ k \in (n + 1)..m
      /\ \A k \in (from + 1)..m :
            \/ k \in (from + 1)..n /\ k - 1 \in from..n
            \/ k = n + 1 /\ k - 1 = n
            \/ k \in (n + 2)..m /\ k - 1 \in (n + 1)..m
    BY <1>3, ChainGrows
<1>5. /\ from \in from..n /\ n \in from..n /\ from \in 0..m /\ (from # 0 => from \in 1..n)
      /\ (m = n \/ m \in (n + 1)..m) /\ \A k \in (from + 1)..n : k \in 1..n
      /\ \A k \in (n + 2)..m : k \in (n + 1)..m
      /\ (n + 1) \in (from + 1)..m => (n + 1) \in (n + 1)..m
    BY <1>3
<1>6. /\ IF from = 0 THEN V[0] = cs ELSE ListDone(evs[from]) /\ V[from] = evs[from].result
      /\ \A k \in from..n : V[k] \in Seq(CardSet) /\ UniqueIds(V[k])
      /\ \A k \in (from + 1)..n : V[k] = Applied(evs[k], V[k - 1])
      /\ V[n] = v
    BY <1>2 DEF Chain
<1> HIDE DEF W, n, m
<1>7. /\ IF from = 0 THEN W[0] = cs ELSE ListDone(t[from]) /\ W[from] = t[from].result
    BY <1>3, <1>4, <1>5, <1>6
<1>8. \A k \in from..m : W[k] \in Seq(CardSet) /\ UniqueIds(W[k])
    BY <1>4, <1>5, <1>6
<1>9. \A k \in (from + 1)..m : W[k] = Applied(t[k], W[k - 1])
    <2> SUFFICES ASSUME NEW k \in (from + 1)..m
                 PROVE  W[k] = Applied(t[k], W[k - 1])
        OBVIOUS
    <2>1. CASE k \in (from + 1)..n /\ k - 1 \in from..n
        <3>1. k \in from..n /\ k \in 1..n
            BY <2>1, <1>3, <1>5
        <3> QED
            BY <2>1, <3>1, <1>3, <1>4, <1>6
    <2>2. CASE k = n + 1 /\ k - 1 = n
        <3>1. W[k] = v /\ W[k - 1] = v /\ Silent(t[k])
            BY <2>2, <1>3, <1>4, <1>5, <1>6
        <3> QED
            BY <3>1 DEF Silent, Applied
    <2>3. CASE k \in (n + 2)..m /\ k - 1 \in (n + 1)..m
        <3>1. W[k] = v /\ W[k - 1] = v /\ Silent(t[k])
            BY <2>3, <1>3, <1>4, <1>5
        <3> QED
            BY <3>1 DEF Silent, Applied
    <2> QED
        BY <2>1, <2>2, <2>3, <1>4
<1>10. W[m] = v
    BY <1>4, <1>5, <1>6
<1>11. Chain(t, cs, v, from, W)
    BY <1>7, <1>8, <1>9, <1>10 DEF Chain, m
<1> QED
    BY <1>5, <1>11 DEF Leads, m

LEMMA LeadsAppended ==
    ASSUME NEW evs \in Seq(Event), NEW e \in Event, NEW cs, NEW v, Leads(evs, cs, v),
           UniqueIds(Applied(e, v))
    PROVE  Leads(Append(evs, e), cs, Applied(e, v))
<1>1. PICK from \in 0..Len(evs) : \E V : Chain(evs, cs, v, from, V)
    BY DEF Leads
<1>2. PICK V : Chain(evs, cs, v, from, V)
    BY <1>1
<1> DEFINE n == Len(evs)
           m == n + 1
           t == Append(evs, e)
           w == Applied(e, v)
           W == [k \in 0..m |-> IF k <= n THEN V[k] ELSE w]
<1>3. /\ n \in Nat /\ m \in Nat /\ n <= m /\ from \in 0..n /\ Len(t) = m
      /\ t[n + 1] = e /\ \A k \in 1..n : t[k] = evs[k]
    BY OneMore
<1>4. /\ \A k \in from..n : k \in 0..m /\ W[k] = V[k]
      /\ \A k \in (n + 1)..m : W[k] = w
      /\ \A k \in from..m : k \in from..n \/ k \in (n + 1)..m
      /\ \A k \in (from + 1)..m :
            \/ k \in (from + 1)..n /\ k - 1 \in from..n
            \/ k = n + 1 /\ k - 1 = n
            \/ k \in (n + 2)..m /\ k - 1 \in (n + 1)..m
    BY <1>3, ChainGrows
<1>5. /\ from \in from..n /\ n \in from..n /\ from \in 0..m /\ (from # 0 => from \in 1..n)
      /\ m = n + 1 /\ n + 1 \in (n + 1)..m /\ \A k \in (from + 1)..n : k \in 1..n
      /\ \A k \in (n + 2)..m : FALSE
    BY <1>3
<1>6. /\ IF from = 0 THEN V[0] = cs ELSE ListDone(evs[from]) /\ V[from] = evs[from].result
      /\ \A k \in from..n : V[k] \in Seq(CardSet) /\ UniqueIds(V[k])
      /\ \A k \in (from + 1)..n : V[k] = Applied(evs[k], V[k - 1])
      /\ V[n] = v
    BY <1>2 DEF Chain
<1>0. w \in Seq(CardSet) /\ UniqueIds(w)
    BY LeadsTypes, AppliedTypes
<1> HIDE DEF W, n, m, t, w
<1>7. /\ IF from = 0 THEN W[0] = cs ELSE ListDone(t[from]) /\ W[from] = t[from].result
    BY <1>3, <1>4, <1>5, <1>6
<1>8. \A k \in from..m : W[k] \in Seq(CardSet) /\ UniqueIds(W[k])
    BY <1>0, <1>4, <1>5, <1>6
<1>9. \A k \in (from + 1)..m : W[k] = Applied(t[k], W[k - 1])
    <2> SUFFICES ASSUME NEW k \in (from + 1)..m
                 PROVE  W[k] = Applied(t[k], W[k - 1])
        OBVIOUS
    <2>1. CASE k \in (from + 1)..n /\ k - 1 \in from..n
        <3>1. k \in from..n /\ k \in 1..n
            BY <2>1, <1>3, <1>5
        <3> QED
            BY <2>1, <3>1, <1>3, <1>4, <1>6
    <2>2. CASE k = n + 1 /\ k - 1 = n
        <3>1. W[k] = w /\ W[k - 1] = v /\ t[k] = e
            BY <2>2, <1>3, <1>4, <1>5, <1>6
        <3> QED
            BY <3>1 DEF w
    <2> QED
        BY <2>1, <2>2, <1>4, <1>5
<1>10. W[m] = w
    BY <1>4, <1>5, <1>6
<1>11. Chain(t, cs, w, from, W)
    BY <1>3, <1>7, <1>8, <1>9, <1>10 DEF Chain
<1>12. Leads(t, cs, w)
    BY <1>3, <1>5, <1>11 DEF Leads
<1> QED
    BY <1>12 DEF t, w

\* A listing starts afresh.
LEMMA LeadsListed ==
    ASSUME NEW evs \in Seq(Event), NEW e \in Event, ListDone(e), UniqueIds(e.result), NEW cs
    PROVE  Leads(Append(evs, e), cs, e.result)
<1> DEFINE m == Len(evs) + 1
           t == Append(evs, e)
           W == [k \in m..m |-> e.result]
<1>1. m \in Nat /\ m # 0 /\ Len(t) = m /\ t[m] = e /\ m \in 0..m /\ m \in m..m
    BY OneMore
<1>2. e.result \in Seq(CardSet)
    BY EventFacts DEF ListDone
<1>3. \A k \in m..m : W[k] = e.result
    OBVIOUS
<1>4. \A k \in (m + 1)..m : FALSE
    BY <1>1
<1> HIDE DEF m, t, W
<1>5. Chain(t, cs, e.result, m, W)
    BY <1>1, <1>2, <1>3, <1>4 DEF Chain
<1>6. Leads(t, cs, e.result)
    BY <1>1, <1>5 DEF Leads
<1> QED
    BY <1>6 DEF t

\* The page has heard the first of them.
LEMMA LeadsTail ==
    ASSUME NEW evs \in Seq(Event), evs # <<>>, NEW cs, NEW v, Leads(evs, cs, v)
    PROVE  Leads(Tail(evs), Applied(Head(evs), cs), v)
<1>1. PICK from \in 0..Len(evs) : \E V : Chain(evs, cs, v, from, V)
    BY DEF Leads
<1>2. PICK V : Chain(evs, cs, v, from, V)
    BY <1>1
<1> DEFINE n == Len(evs)
           m == n - 1
           t == Tail(evs)
           c == Applied(Head(evs), cs)
           first == IF from = 0 THEN 0 ELSE from - 1
           W == [k \in 0..m |-> V[k + 1]]
<1>3. /\ n \in Nat \ {0} /\ Len(t) = m /\ Head(evs) = evs[1]
      /\ \A k \in 1..m : t[k] = evs[k + 1]
    BY TailOf
<1>4. /\ m \in Nat /\ first \in 0..m /\ 1 \in 1..n
      /\ from = 0 => first = 0 /\ 0 \in from..n /\ 1 \in from..n /\ 1 \in (from + 1)..n
      /\ from = 1 => first = 0
      /\ from # 0 /\ from # 1 => first = from - 1 /\ first \in 1..m /\ first # 0
      /\ \A k \in first..m : k + 1 \in from..n /\ k \in 0..m
      /\ \A k \in (first + 1)..m :
            k + 1 \in (from + 1)..n /\ k - 1 \in 0..m /\ k \in 1..m /\ k \in 0..m
      /\ 0 \in 0..m /\ m \in 0..m
    BY <1>3
<1>5. /\ \A k \in 0..m : W[k] = V[k + 1]
      /\ \A k \in (first + 1)..m : (k - 1) + 1 = k /\ (k + 1) - 1 = k
      /\ 0 + 1 = 1 /\ m + 1 = n /\ (from # 0 => (from - 1) + 1 = from) /\ 1 - 1 = 0
    BY <1>3, <1>4
<1>6. /\ IF from = 0 THEN V[0] = cs ELSE ListDone(evs[from]) /\ V[from] = evs[from].result
      /\ \A k \in from..n : V[k] \in Seq(CardSet) /\ UniqueIds(V[k])
      /\ \A k \in (from + 1)..n : V[k] = Applied(evs[k], V[k - 1])
      /\ V[n] = v
    BY <1>2 DEF Chain
<1> HIDE DEF W, n, m, t, first
<1>7. IF first = 0 THEN W[0] = c ELSE ListDone(t[first]) /\ W[first] = t[first].result
    <2>1. CASE from = 0
        <3>1. W[0] = V[1] /\ V[1] = Applied(evs[1], V[1 - 1]) /\ V[0] = cs
            BY <2>1, <1>4, <1>5, <1>6
        <3> QED
            BY <2>1, <3>1, <1>3, <1>4, <1>5
    <2>2. CASE from = 1
        <3>1. W[0] = V[1] /\ ListDone(evs[1]) /\ V[1] = evs[1].result
            BY <2>2, <1>4, <1>5, <1>6
        <3>2. c = evs[1].result
            BY <3>1, <1>3 DEF ListDone, Applied
        <3> QED
            BY <2>2, <3>1, <3>2, <1>4
    <2>3. CASE from # 0 /\ from # 1
        <3>1. t[first] = evs[from] /\ W[first] = V[from]
            BY <2>3, <1>3, <1>4, <1>5
        <3> QED
            BY <2>3, <3>1, <1>4, <1>6
    <2> QED
        BY <2>1, <2>2, <2>3
<1>8. \A k \in first..m : W[k] \in Seq(CardSet) /\ UniqueIds(W[k])
    BY <1>4, <1>5, <1>6
<1>9. \A k \in (first + 1)..m : W[k] = Applied(t[k], W[k - 1])
    <2> SUFFICES ASSUME NEW k \in (first + 1)..m
                 PROVE  W[k] = Applied(t[k], W[k - 1])
        OBVIOUS
    <2>1. k + 1 \in (from + 1)..n /\ k - 1 \in 0..m /\ k \in 1..m /\ k \in 0..m
        BY <1>4
    <2>2. V[k + 1] = Applied(evs[k + 1], V[(k + 1) - 1])
        BY <2>1, <1>6
    <2>3. W[k] = V[k + 1] /\ W[k - 1] = V[(k - 1) + 1] /\ (k - 1) + 1 = k /\ (k + 1) - 1 = k
        BY <2>1, <1>5
    <2>4. t[k] = evs[k + 1]
        BY <2>1, <1>3
    <2> QED
        BY <2>2, <2>3, <2>4
<1>10. W[m] = v
    BY <1>4, <1>5, <1>6
<1>11. Chain(t, c, v, first, W)
    BY <1>3, <1>7, <1>8, <1>9, <1>10 DEF Chain
<1>12. Leads(t, c, v)
    BY <1>3, <1>4, <1>11 DEF Leads
<1> QED
    BY <1>12 DEF t

\* With nothing to hear the page shows what it shows.
LEMMA LeadsSilent ==
    ASSUME NEW evs \in Seq(Event), \A k \in 1..Len(evs) : Silent(evs[k]),
           NEW cs, NEW v, Leads(evs, cs, v)
    PROVE  v = cs
<1>1. PICK from \in 0..Len(evs) : \E V : Chain(evs, cs, v, from, V)
    BY DEF Leads
<1>2. PICK V : Chain(evs, cs, v, from, V)
    BY <1>1
<1> DEFINE n == Len(evs)
<1>3. n \in Nat
    OBVIOUS
<1>4. /\ IF from = 0 THEN V[0] = cs ELSE ListDone(evs[from]) /\ V[from] = evs[from].result
      /\ \A k \in (from + 1)..n : V[k] = Applied(evs[k], V[k - 1])
      /\ V[n] = v
    BY <1>2 DEF Chain
<1>5. from = 0
    <2>1. from # 0 => from \in 1..n
        BY <1>3
    <2> QED
        BY <2>1, <1>4 DEF Silent, ListDone
<1>6. \A k \in 1..n : k \in (from + 1)..n
    BY <1>3, <1>5
<1>7. \A k \in 1..n : V[k] = V[k - 1]
    BY <1>4, <1>6 DEF Applied, Silent
<1>8. V[0] = cs
    BY <1>4, <1>5
<1> DEFINE S == {k \in 1..n : V[k] # cs}
<1> HIDE DEF n
<1>9. S = {}
    <2> SUFFICES ASSUME S # {} PROVE FALSE
        OBVIOUS
    <2>1. PICK k \in S : \A j \in S : k <= j
        BY <1>3, First
    <2>2. k \in 1..n /\ V[k] # cs
        BY <2>1
    <2>3. k - 1 = 0 \/ (k - 1 \in 1..n /\ ~(k <= k - 1))
        BY <2>2, <1>3
    <2>4. k - 1 \notin S
        BY <2>1, <2>3, <1>3
    <2>5. V[k - 1] = cs
        BY <2>3, <2>4, <1>8
    <2> QED
        BY <2>2, <2>5, <1>7
<1>10. n = 0 \/ n \in 1..n
    BY <1>3
<1> QED
    BY <1>4, <1>8, <1>9, <1>10

\* A reordering of the page's list is one of every list that follows, when
\* what comes is about no card of the order but to give it a new text.
LEMMA AppliedInOrder ==
    ASSUME NEW e \in Event, NEW cs \in Seq(CardSet), UniqueIds(cs), NEW ids \in Seq(Nat),
           Distinct(ids), ~ListDone(e), ~CreateDone(e),
           DeleteDone(e) => e.result \notin SetOf(ids)
    PROVE  Applied(e, InOrder(cs, ids)) = InOrder(Applied(e, cs), ids)
<1> DEFINE c == InOrder(cs, ids)
<1>1. c \in Seq(CardSet) /\ Ids(c) = Ids(cs) \cap SetOf(ids)
    BY InOrderFacts
<1>2. CASE e.kind = "done" /\ e.call.op = "update"
    <2>1. e.result \in CardSet
        BY <1>2, EventFacts
    <2>2. InOrder(WithCard(cs, e.result), ids) = WithCard(InOrder(cs, ids), e.result)
        BY <2>1, InOrderWithCard
    <2> QED
        BY <2>2, <1>2 DEF Applied
<1>3. CASE e.kind = "done" /\ e.call.op = "delete"
    <2>1. e.result \notin SetOf(ids)
        BY <1>3 DEF DeleteDone
    <2>2. InOrder(Dropped(cs, e.result), ids) = InOrder(cs, ids)
        BY <2>1, InOrderDropped
    <2>3. e.result \notin Ids(c)
        BY <1>1, <2>1
    <2> HIDE DEF c
    <2>4. Dropped(c, e.result) = c
        BY <1>1, <2>3, DroppedNone
    <2> QED
        BY <2>2, <2>4, <1>3 DEF Applied, c
<1>4. CASE e.kind # "done" \/ e.call.op \notin {"update", "delete"}
    BY <1>4 DEF Applied, ListDone, CreateDone
<1> QED
    BY <1>2, <1>3, <1>4

LEMMA LeadsInOrder ==
    ASSUME NEW evs \in Seq(Event), NEW cs, NEW v, Leads(evs, cs, v),
           NEW ids \in Seq(Nat), Distinct(ids),
           \A k \in 1..Len(evs) : /\ ~ListDone(evs[k]) /\ ~CreateDone(evs[k])
                                  /\ DeleteDone(evs[k]) => evs[k].result \notin SetOf(ids)
    PROVE  Leads(evs, InOrder(cs, ids), InOrder(v, ids))
<1>1. PICK from \in 0..Len(evs) : \E V : Chain(evs, cs, v, from, V)
    BY DEF Leads
<1>2. PICK V : Chain(evs, cs, v, from, V)
    BY <1>1
<1> DEFINE n == Len(evs)
           W == [k \in 0..n |-> InOrder(V[k], ids)]
<1>3. n \in Nat
    OBVIOUS
<1>4. /\ IF from = 0 THEN V[0] = cs ELSE ListDone(evs[from]) /\ V[from] = evs[from].result
      /\ \A k \in from..n : V[k] \in Seq(CardSet) /\ UniqueIds(V[k])
      /\ \A k \in (from + 1)..n : V[k] = Applied(evs[k], V[k - 1])
      /\ V[n] = v
    BY <1>2 DEF Chain
<1>5. from = 0
    <2>1. from # 0 => from \in 1..n
        BY <1>3
    <2> QED
        BY <2>1, <1>4
<1>6. /\ \A k \in 0..n : k \in from..n /\ W[k] = InOrder(V[k], ids)
      /\ \A k \in 1..n : k \in (from + 1)..n /\ k \in 0..n /\ k - 1 \in 0..n
      /\ 0 \in 0..n /\ n \in 0..n
      /\ \A k \in (0 + 1)..n : k \in 1..n
    BY <1>3, <1>5
<1>7. \A k \in 1..n : evs[k] \in Event
    OBVIOUS
<1>8. \A k \in 1..n : /\ ~ListDone(evs[k]) /\ ~CreateDone(evs[k])
                      /\ DeleteDone(evs[k]) => evs[k].result \notin SetOf(ids)
    OBVIOUS
<1> HIDE DEF n, W
<1>9. \A k \in 0..n : W[k] \in Seq(CardSet) /\ UniqueIds(W[k])
    <2> SUFFICES ASSUME NEW k \in 0..n
                 PROVE  W[k] \in Seq(CardSet) /\ UniqueIds(W[k])
        OBVIOUS
    <2>1. V[k] \in Seq(CardSet) /\ W[k] = InOrder(V[k], ids)
        BY <1>4, <1>6
    <2>2. InOrder(V[k], ids) \in Seq(CardSet) /\ UniqueIds(InOrder(V[k], ids))
        BY <2>1, InOrderFacts
    <2> QED
        BY <2>1, <2>2
<1>10. \A k \in 1..n : W[k] = Applied(evs[k], W[k - 1])
    <2> SUFFICES ASSUME NEW k \in 1..n
                 PROVE  W[k] = Applied(evs[k], W[k - 1])
        OBVIOUS
    <2>1. /\ V[k - 1] \in Seq(CardSet) /\ UniqueIds(V[k - 1])
          /\ V[k] = Applied(evs[k], V[k - 1])
          /\ W[k] = InOrder(V[k], ids) /\ W[k - 1] = InOrder(V[k - 1], ids)
        BY <1>4, <1>6
    <2>2. Applied(evs[k], InOrder(V[k - 1], ids)) = InOrder(Applied(evs[k], V[k - 1]), ids)
        BY <2>1, <1>7, <1>8, AppliedInOrder
    <2> QED
        BY <2>1, <2>2
<1>11. Chain(evs, InOrder(cs, ids), InOrder(v, ids), 0, W)
    BY <1>4, <1>5, <1>6, <1>9, <1>10 DEF Chain, n
<1> QED
    BY <1>6, <1>11 DEF Leads, n

NoReorder(cs) == \A i \in 1..Len(cs) : cs[i].op # "reorder"

LastReorder(cs, i) ==
    i \in 1..Len(cs) /\ cs[i].op = "reorder" /\ \A j \in (i + 1)..Len(cs) : cs[j].op # "reorder"

\* The cards of a listing in the order that is asked for.
Arranged(v, ids, l) ==
    /\ Len(v) = Len(ids)
    /\ \A p \in 1..Len(v) : v[p].id = ids[p] /\ \E q \in 1..Len(l) : v[p] = l[q]

\* What the page will show is the service's list, or what that will be once
\* Go has come to the last reordering.
Meets(v, cs, l) ==
    \/ NoReorder(cs) /\ v = l
    \/ \E i \in 1..Len(cs) : LastReorder(cs, i) /\ Arranged(v, cs[i].ids, l)

\* No refresh is needed or on its way, and every reordering on its way will be
\* taken if its save succeeds.
Awaits ==
    /\ ~overlapped
    /\ \A k \in 1..Len(evals) : ~FailedReorder(evals[k])
    /\ \A i \in 1..Len(calls) :
          /\ calls[i].op # "list"
          /\ calls[i].op = "reorder" => SetOf(calls[i].ids) = Ids(stored)

Converges == Awaits => \E v : Leads(evals, entries, v) /\ Meets(v, calls, Shown(stored))

LEMMA LastAppended ==
    ASSUME NEW cs \in Seq(SomeCall), NEW call \in SomeCall
    PROVE  /\ call.op # "reorder" /\ NoReorder(cs) => NoReorder(Append(cs, call))
           /\ \A i \in 1..Len(cs) :
                 call.op # "reorder" /\ LastReorder(cs, i)
                     => /\ LastReorder(Append(cs, call), i) /\ i \in 1..Len(Append(cs, call))
                        /\ Append(cs, call)[i] = cs[i]
           /\ call.op = "reorder" =>
                 /\ LastReorder(Append(cs, call), Len(cs) + 1)
                 /\ Len(cs) + 1 \in 1..Len(Append(cs, call))
                 /\ Append(cs, call)[Len(cs) + 1] = call
<1> DEFINE t == Append(cs, call)
           n == Len(cs)
<1>1. n \in Nat /\ Len(t) = n + 1 /\ t[n + 1] = call /\ \A k \in 1..n : t[k] = cs[k]
    BY OneMore
<1> HIDE DEF t, n
<1>2. /\ \A k \in 1..(n + 1) : k \in 1..n \/ k = n + 1
      /\ \A i \in 1..n : i \in 1..(n + 1) /\ \A j \in (i + 1)..(n + 1) : j \in (i + 1)..n \/ j = n + 1
      /\ \A i \in 1..n : \A j \in (i + 1)..n : j \in 1..n
      /\ n + 1 \in 1..(n + 1) /\ \A j \in (n + 1 + 1)..(n + 1) : FALSE
    BY <1>1
<1>3. call.op # "reorder" /\ NoReorder(cs) => NoReorder(t)
    BY <1>1, <1>2 DEF NoReorder, n
<1>4. ASSUME NEW i \in 1..n, call.op # "reorder", LastReorder(cs, i)
      PROVE  LastReorder(t, i) /\ i \in 1..Len(t) /\ t[i] = cs[i]
    <2>1. cs[i].op = "reorder" /\ \A j \in (i + 1)..n : cs[j].op # "reorder"
        BY <1>4 DEF LastReorder, n
    <2>2. \A j \in (i + 1)..(n + 1) : t[j].op # "reorder"
        BY <2>1, <1>1, <1>2, <1>4
    <2> QED
        BY <2>1, <2>2, <1>1, <1>2 DEF LastReorder
<1>5. ASSUME call.op = "reorder"
      PROVE  LastReorder(t, n + 1) /\ n + 1 \in 1..Len(t) /\ t[n + 1] = call
    BY <1>5, <1>1, <1>2 DEF LastReorder
<1> QED
    BY <1>3, <1>4, <1>5 DEF t, n

LEMMA LastTail ==
    ASSUME NEW cs \in Seq(SomeCall), cs # <<>>
    PROVE  /\ NoReorder(cs) => NoReorder(Tail(cs)) /\ Head(cs).op # "reorder"
           /\ \A i \in 1..Len(cs) :
                 LastReorder(cs, i) =>
                     \/ i = 1 /\ cs[i] = Head(cs) /\ NoReorder(Tail(cs))
                     \/ /\ i - 1 \in 1..Len(Tail(cs)) /\ LastReorder(Tail(cs), i - 1)
                        /\ Tail(cs)[i - 1] = cs[i]
<1> DEFINE t == Tail(cs)
           n == Len(cs)
           m == n - 1
<1>1. n \in Nat \ {0} /\ Len(t) = m /\ Head(cs) = cs[1] /\ \A k \in 1..m : t[k] = cs[k + 1]
    BY TailOf
<1> HIDE DEF t, n
<1>2. /\ \A k \in 1..m : k + 1 \in 1..n /\ k + 1 \in (1 + 1)..n
      /\ 1 \in 1..n
      /\ \A i \in 1..n : i = 1 \/ (i - 1 \in 1..m /\ (i - 1) + 1 = i)
      /\ \A i \in 1..n : \A j \in ((i - 1) + 1)..m : i = 1 \/ (j \in 1..m /\ j + 1 \in (i + 1)..n)
    BY <1>1
<1>3. NoReorder(cs) => NoReorder(t) /\ Head(cs).op # "reorder"
    BY <1>1, <1>2 DEF NoReorder, n
<1>4. ASSUME NEW i \in 1..n, LastReorder(cs, i)
      PROVE  \/ i = 1 /\ cs[i] = Head(cs) /\ NoReorder(t)
             \/ i - 1 \in 1..Len(t) /\ LastReorder(t, i - 1) /\ t[i - 1] = cs[i]
    <2>1. cs[i].op = "reorder" /\ \A j \in (i + 1)..n : cs[j].op # "reorder"
        BY <1>4 DEF LastReorder, n
    <2>2. CASE i = 1
        BY <2>1, <2>2, <1>1, <1>2 DEF NoReorder
    <2>3. CASE i # 1
        <3>1. i - 1 \in 1..m /\ t[i - 1] = cs[i]
            BY <2>3, <1>1, <1>2
        <3>2. \A j \in ((i - 1) + 1)..m : t[j].op # "reorder"
            BY SMTT(60), <2>1, <2>3, <1>1, <1>2
        <3> QED
            BY <3>1, <3>2, <2>1, <1>1 DEF LastReorder
    <2> QED
        BY <2>2, <2>3
<1> QED
    BY <1>3, <1>4 DEF t, n

\* A call that is no reordering leaves it to what it was.
LEMMA MeetsMore ==
    ASSUME NEW cs \in Seq(SomeCall), NEW call \in SomeCall, call.op # "reorder",
           NEW v, NEW l, Meets(v, cs, l)
    PROVE  Meets(v, Append(cs, call), l)
    BY LastAppended DEF Meets

\* Nor does one that Go has run.
LEMMA MeetsTail ==
    ASSUME NEW cs \in Seq(SomeCall), cs # <<>>, Head(cs).op # "reorder",
           NEW v, NEW l, Meets(v, cs, l),
           NEW w, NEW m, v = l => w = m, \A ids : Arranged(v, ids, l) => Arranged(w, ids, m)
    PROVE  Meets(w, Tail(cs), m)
<1>1. CASE NoReorder(cs) /\ v = l
    <2>1. NoReorder(Tail(cs)) /\ w = m
        BY <1>1, LastTail
    <2> QED
        BY <2>1 DEF Meets
<1>2. CASE \E i \in 1..Len(cs) : LastReorder(cs, i) /\ Arranged(v, cs[i].ids, l)
    <2>1. PICK i \in 1..Len(cs) : LastReorder(cs, i) /\ Arranged(v, cs[i].ids, l)
        BY <1>2
    <2>2. cs[i].op = "reorder" /\ Arranged(w, cs[i].ids, m)
        BY <2>1 DEF LastReorder
    <2>3. /\ i - 1 \in 1..Len(Tail(cs)) /\ LastReorder(Tail(cs), i - 1)
          /\ Tail(cs)[i - 1] = cs[i]
        BY <2>1, <2>2, LastTail
    <2> QED
        BY <2>2, <2>3 DEF Meets
<1> QED
    BY <1>1, <1>2 DEF Meets

\* A list in a new order is that order of what it was made of.
LEMMA ArrangedInOrder ==
    ASSUME NEW v \in Seq(CardSet), NEW ids \in Seq(Nat), NEW l, SetOf(ids) \subseteq Ids(v),
           \A p \in 1..Len(v) : \E q \in 1..Len(l) : v[p] = l[q]
    PROVE  Arranged(InOrder(v, ids), ids, l)
<1>1. /\ Len(InOrder(v, ids)) = Len(ids)
      /\ \A p \in 1..Len(ids) : /\ At(v, ids[p]) \in 1..Len(v)
                                /\ InOrder(v, ids)[p] = v[At(v, ids[p])]
                                /\ InOrder(v, ids)[p].id = ids[p]
    BY InOrderOfAll
<1> QED
    BY <1>1 DEF Arranged

\* What the list of the service and the list of the page have in common.
LEMMA MeetsIds ==
    ASSUME NEW v \in Seq(CardSet), NEW cs \in Seq(SomeCall), NEW l \in Seq(CardSet), Meets(v, cs, l),
           \A i \in 1..Len(cs) : cs[i].op = "reorder" => SetOf(cs[i].ids) = Ids(l)
    PROVE  Ids(v) = Ids(l) /\ \A p \in 1..Len(v) : \E q \in 1..Len(l) : v[p] = l[q]
<1>1. CASE v = l
    BY <1>1
<1>2. CASE \E i \in 1..Len(cs) : LastReorder(cs, i) /\ Arranged(v, cs[i].ids, l)
    <2>1. PICK i \in 1..Len(cs) : LastReorder(cs, i) /\ Arranged(v, cs[i].ids, l)
        BY <1>2
    <2> DEFINE ids == cs[i].ids
    <2>2. SetOf(ids) = Ids(l) /\ ids \in Seq(Nat)
        BY <2>1, CallFacts DEF LastReorder
    <2>3. DOMAIN v = 1..Len(v) /\ DOMAIN ids = 1..Len(ids)
        BY <2>2
    <2> HIDE DEF ids
    <2>4. /\ Len(v) = Len(ids)
          /\ \A p \in 1..Len(v) : v[p].id = ids[p] /\ \E q \in 1..Len(l) : v[p] = l[q]
        BY <2>1 DEF Arranged, ids
    <2>5. Ids(v) = SetOf(ids)
        BY <2>3, <2>4 DEF Ids, SetOf
    <2> QED
        BY <2>2, <2>4, <2>5
<1> QED
    BY <1>1, <1>2 DEF Meets

\* Two lists in the same order of the same cards are the same.
LEMMA ArrangedSame ==
    ASSUME NEW v \in Seq(CardSet), NEW l \in Seq(CardSet), UniqueIds(l),
           NEW ids \in Seq(Nat), Len(ids) = Len(l), \A p \in 1..Len(l) : l[p].id = ids[p],
           Arranged(v, ids, l)
    PROVE  v = l
<1>1. Len(v) = Len(l)
    BY DEF Arranged
<1>2. ASSUME NEW p \in 1..Len(l) PROVE v[p] = l[p]
    <2>1. v[p].id = ids[p]
        BY <1>1 DEF Arranged
    <2>2. PICK q \in 1..Len(l) : v[p] = l[q]
        BY <1>1 DEF Arranged
    <2>3. l[q].id = l[p].id
        BY <2>1, <2>2
    <2>4. p \in DOMAIN l /\ q \in DOMAIN l
        OBVIOUS
    <2>5. q = p
        BY <2>3, <2>4 DEF UniqueIds
    <2> QED
        BY <2>2, <2>5
<1> QED
    BY <1>1, <1>2, SameSeq

LEMMA TypedFacts ==
    ASSUME Typed
    PROVE  /\ evals \in Seq(Event) /\ calls \in Seq(SomeCall) /\ entries \in Seq(CardSet)
           /\ UniqueIds(entries) /\ Len(calls) \in Nat /\ Len(evals) \in Nat
           /\ Shown(stored) \in Seq(CardSet) /\ UniqueIds(Shown(stored))
           /\ Ids(Shown(stored)) = Ids(stored)
<1>1. WellNumbered(stored)
    BY DEF Typed, PageTypes, ListTypes
<1>2. /\ evals \in Seq(Event) /\ calls \in Seq(SomeCall) /\ entries \in Seq(CardSet)
      /\ UniqueIds(entries)
    BY DEF Typed, PageTypes, ListTypes
<1> QED
    BY <1>1, <1>2, ShownRows

LEMMA ConvergesIdle ==
    ASSUME Typed, Converges, Idles
    PROVE  Converges'
<1>1. evals \in Seq(Event) /\ Extends(evals, evals')
    BY TypedFacts DEF Idles
<1>2. Awaits' => Awaits
    <2>1. \A k \in 1..Len(evals) : evals'[k] = evals[k] /\ k \in 1..Len(evals')
        BY <1>1 DEF Extends
    <2> QED
        BY <2>1 DEF Awaits, Idles
<1>3. \A v : Leads(evals, entries, v) => Leads(evals', entries, v)
    BY <1>1, LeadsExtended
<1> QED
    BY <1>2, <1>3 DEF Converges, Idles, Shown

LEMMA ConvergesHeard ==
    ASSUME Typed, Converges, Hears
    PROVE  Converges'
<1>1. evals \in Seq(Event) /\ evals # <<>> /\ evals' = Tail(evals)
    BY TypedFacts DEF Hears
<1>2. Awaits' => Awaits
    <2>1. \A k \in 1..Len(evals) : k = 1 \/ k - 1 \in 1..Len(evals')
        BY <1>1
    <2>2. \A k \in 1..(Len(evals) - 1) : evals'[k] = evals[k + 1]
        BY <1>1, TailOf
    <2>3. Head(evals) = evals[1]
        BY <1>1, TailOf
    <2>4. ASSUME \A k \in 1..Len(evals') : ~FailedReorder(evals'[k]), NEW k \in 1..Len(evals)
          PROVE  ~FailedReorder(evals[k])
        <3>1. CASE k = 1
            BY <3>1, <2>3 DEF Hears
        <3>2. CASE k # 1
            <4>1. k - 1 \in 1..Len(evals') /\ k - 1 \in 1..(Len(evals) - 1) /\ (k - 1) + 1 = k
                BY <3>2, <2>1
            <4> QED
                BY <4>1, <2>2, <2>4
        <3> QED
            BY <3>1, <3>2
    <2> QED
        BY <2>4 DEF Awaits, Hears
<1>3. \A v : Leads(evals, entries, v) => Leads(evals', entries', v)
    BY <1>1, LeadsTail DEF Hears
<1> QED
    BY <1>2, <1>3 DEF Converges, Hears, Shown

LEMMA ConvergesPosted ==
    ASSUME Typed, Converges, Posts
    PROVE  Converges'
<1>1. PICK call \in SomeCall :
          /\ call.op \notin {"list", "reorder"}
          /\ calls' = Append(calls, call)
          /\ UNCHANGED <<stored, given, evals, entries, overlapped>>
    BY DEF Posts
<1>2. calls \in Seq(SomeCall)
    BY TypedFacts
<1>3. Awaits' => Awaits
    <2>1. \A i \in 1..Len(calls) : calls'[i] = calls[i] /\ i \in 1..Len(calls')
        BY <1>1, <1>2, OneMore
    <2> QED
        BY <2>1, <1>1 DEF Awaits
<1>4. \A v, l : Meets(v, calls, l) => Meets(v, calls', l)
    BY <1>1, <1>2, MeetsMore
<1> QED
    BY <1>1, <1>3, <1>4 DEF Converges, Shown

LEMMA ConvergesRefreshed ==
    ASSUME Typed, Refreshes
    PROVE  Converges'
<1>1. calls \in Seq(SomeCall) /\ [op |-> "list"] \in SomeCall
    BY TypedFacts, MadeRight
<1>2. calls' = Append(calls, [op |-> "list"])
    BY DEF Refreshes, Refresh, Posting
<1>3. Len(calls) + 1 \in 1..Len(calls') /\ calls'[Len(calls) + 1] = [op |-> "list"]
    BY <1>1, <1>2, OneMore
<1>4. ~Awaits'
    BY <1>3 DEF Awaits
<1> QED
    BY <1>4 DEF Converges

\* A reordering of what the page shows now becomes one of what it will show.
LEMMA ConvergesRearranged ==
    ASSUME Typed, Fresh, Converges, Rearranges
    PROVE  Converges'
<1> SUFFICES ASSUME Awaits'
             PROVE  \E v : Leads(evals', entries', v) /\ Meets(v, calls', Shown(stored'))
    BY DEF Converges, Shown
<1>1. PICK ids \in Seq(Nat) : ShowsOrder(ids)
    BY DEF Rearranges
<1> DEFINE call == [op |-> "reorder", ids |-> ids]
<1>2. call \in SomeCall /\ call.op = "reorder" /\ call.ids = ids
    BY MadeRight
<1>3. /\ Distinct(ids) /\ SetOf(ids) \subseteq Ids(entries) \cup SetOf(drag.order)
      /\ Listens /\ entries' = InOrder(entries, ids) /\ calls' = Append(calls, call)
      /\ overlapped' = (overlapped \/ Refreshing) /\ UNCHANGED <<stored, given>>
    BY <1>1 DEF ShowsOrder
<1> HIDE DEF call
<1>4. /\ evals \in Seq(Event) /\ calls \in Seq(SomeCall) /\ entries \in Seq(CardSet)
      /\ Shown(stored) \in Seq(CardSet) /\ Ids(Shown(stored)) = Ids(stored)
    BY TypedFacts
<1>5. /\ \A i \in 1..Len(calls) : calls'[i] = calls[i] /\ i \in 1..Len(calls')
      /\ Len(calls) + 1 \in 1..Len(calls') /\ calls'[Len(calls) + 1] = call
    BY <1>2, <1>3, <1>4, OneMore
<1>6. SetOf(ids) = Ids(stored)
    BY <1>2, <1>3, <1>5 DEF Awaits
<1>7. ~overlapped /\ ~Refreshing
    BY <1>3 DEF Awaits
<1>8. \A k \in 1..Len(evals) : ~ListDone(evals[k])
    BY <1>7, NotRefreshing
<1>9. SetOf(ids) \subseteq Held /\ SoundAnswers(evals, Held, Ids(stored), given)
    BY <1>3 DEF Held, Fresh
<1>10. ASSUME NEW k \in 1..Len(evals)
       PROVE  ~CreateDone(evals[k]) /\ (DeleteDone(evals[k]) => evals[k].result \notin SetOf(ids))
    <2>1. SoundAnswer(evals[k], Before(evals, Held, k), Ids(stored), given)
        BY <1>9 DEF SoundAnswers
    <2>2. SetOf(ids) \subseteq Before(evals, Held, k)
        BY <1>9 DEF Before
    <2> QED
        BY <2>1, <2>2, <1>6 DEF SoundAnswer
<1>11. Listens /\ (\A k \in 1..Len(evals') : ~FailedReorder(evals'[k]))
           => \A k \in 1..Len(evals) : ~FailedReorder(evals[k])
    <2>1. CASE evals' = evals
        BY <2>1
    <2>2. CASE evals # <<>> /\ Silent(Head(evals)) /\ evals' = Tail(evals)
        <3>1. /\ Head(evals) = evals[1] /\ Len(evals') = Len(evals) - 1
              /\ \A k \in 1..(Len(evals) - 1) : evals'[k] = evals[k + 1]
            BY <2>2, <1>4, TailOf
        <3>2. \A k \in 1..Len(evals) :
                  k = 1 \/ (k - 1 \in 1..Len(evals') /\ k - 1 \in 1..(Len(evals) - 1) /\ (k - 1) + 1 = k)
            BY <3>1, <1>4
        <3> QED
            BY <2>2, <3>1, <3>2 DEF Silent, FailedReorder
    <2> QED
        BY <2>1, <2>2 DEF Listens
<1>12. Awaits
    BY <1>3, <1>5, <1>7, <1>11 DEF Awaits
<1>13. PICK v : Leads(evals, entries, v) /\ Meets(v, calls, Shown(stored))
    BY <1>12 DEF Converges
<1>14. v \in Seq(CardSet)
    BY <1>4, <1>13, LeadsTypes
<1>15. Leads(evals, entries', InOrder(v, ids))
    BY <1>3, <1>4, <1>8, <1>10, <1>13, LeadsInOrder
<1>16. Leads(evals', entries', InOrder(v, ids))
    <2>1. CASE evals' = evals
        BY <2>1, <1>15
    <2>2. CASE evals # <<>> /\ Silent(Head(evals)) /\ evals' = Tail(evals)
        <3>1. Applied(Head(evals), entries') = entries'
            BY <2>2 DEF Silent, Applied
        <3>2. Leads(Tail(evals), Applied(Head(evals), entries'), InOrder(v, ids))
            BY <2>2, <1>4, <1>15, LeadsTail
        <3> QED
            BY <2>2, <3>1, <3>2
    <2> QED
        BY <2>1, <2>2, <1>3 DEF Listens
<1>17. \A i \in 1..Len(calls) : calls[i].op = "reorder" => SetOf(calls[i].ids) = Ids(Shown(stored))
    BY <1>4, <1>12 DEF Awaits
<1>18. /\ Ids(v) = Ids(Shown(stored))
       /\ \A p \in 1..Len(v) : \E q \in 1..Len(Shown(stored)) : v[p] = Shown(stored)[q]
    BY <1>4, <1>13, <1>14, <1>17, MeetsIds
<1>19. Arranged(InOrder(v, ids), ids, Shown(stored))
    BY <1>4, <1>6, <1>14, <1>18, ArrangedInOrder
<1>20. LastReorder(calls', Len(calls) + 1)
    BY <1>2, <1>3, <1>4, LastAppended
<1>21. Meets(InOrder(v, ids), calls', Shown(stored))
    BY <1>2, <1>5, <1>19, <1>20 DEF Meets
<1>22. Shown(stored') = Shown(stored)
    BY <1>3
<1> QED
    BY <1>16, <1>21, <1>22

\* Go has run the first call.
LEMMA ConvergesServed ==
    ASSUME Typed, Fresh, RefreshFollows, Converges, Serves, ListTypes'
    PROVE  Converges'
<1> SUFFICES ASSUME Awaits'
             PROVE  \E w : Leads(evals', entries, w) /\ Meets(w, calls', Shown(stored'))
    <2>1. entries' = entries
        BY ServeFacts
    <2> QED
        BY <2>1 DEF Converges, Shown
<1> DEFINE c == Head(calls)
           l == Shown(stored)
           after == Shown(stored')
<1>1. /\ evals \in Seq(Event) /\ calls \in Seq(SomeCall) /\ entries \in Seq(CardSet)
      /\ UniqueIds(entries) /\ Len(calls) \in Nat /\ Len(evals) \in Nat
      /\ l \in Seq(CardSet) /\ UniqueIds(l) /\ Ids(l) = Ids(stored)
    BY TypedFacts
<1>2. /\ calls # <<>> /\ calls' = Tail(calls) /\ UNCHANGED <<entries, overlapped, drag>>
      /\ c \in SomeCall
      /\ \/ ListServed(c) \/ CreateServed(c) \/ UpdateServed(c) \/ DeleteServed(c)
         \/ ReorderServed(c) \/ CopyServed(c) \/ CallFailed(c)
    BY ServeFacts
<1>3. after \in Seq(CardSet) /\ UniqueIds(after)
    BY ShownRows DEF ListTypes
<1> HIDE DEF c, l, after
<1>4. /\ c = calls[1] /\ Len(calls') = Len(calls) - 1
      /\ \A i \in 1..(Len(calls) - 1) : calls'[i] = calls[i + 1]
    BY <1>1, <1>2, TailOf DEF c
<1>5. /\ \A i \in 1..Len(calls) :
            i = 1 \/ (i - 1 \in 1..Len(calls') /\ i - 1 \in 1..(Len(calls) - 1) /\ (i - 1) + 1 = i)
      /\ 1 \in 1..Len(calls)
      /\ \A i \in 1..Len(calls') : i \in 1..(Len(calls) - 1) /\ i + 1 \in 1..Len(calls) /\ 1 < i + 1
    BY <1>1, <1>2, <1>4
<1>6. \A i \in 1..Len(calls) :
          \/ i = 1 /\ calls[i] = c
          \/ i - 1 \in 1..Len(calls') /\ calls'[i - 1] = calls[i]
    BY <1>4, <1>5
<1>7. /\ ~overlapped /\ \A k \in 1..Len(evals') : ~FailedReorder(evals'[k])
      /\ \A i \in 1..Len(calls') :
            /\ calls'[i].op # "list"
            /\ calls'[i].op = "reorder" => SetOf(calls'[i].ids) = Ids(stored')
    BY <1>2 DEF Awaits
\* Before the step everything was as it should be, too.
<1>8. ASSUME NEW e \in Event, evals' = Append(evals, e) \/ evals' = evals,
             c.op # "list", c.op = "reorder" => SetOf(c.ids) = Ids(stored),
             NoReorder(calls') \/ Ids(stored') = Ids(stored)
      PROVE  \E v \in Seq(CardSet) : Leads(evals, entries, v) /\ Meets(v, calls, l)
    <2>1. \A k \in 1..Len(evals) : evals'[k] = evals[k] /\ k \in 1..Len(evals')
        <3>1. CASE evals' = evals
            BY <3>1
        <3>2. CASE evals' = Append(evals, e)
            BY <3>2, <1>1, <1>8, OneMore
        <3> QED
            BY <3>1, <3>2, <1>8
    <2>2. \A k \in 1..Len(evals) : ~FailedReorder(evals[k])
        BY <2>1, <1>7
    <2>3. ASSUME NEW i \in 1..Len(calls)
          PROVE  calls[i].op # "list" /\ (calls[i].op = "reorder" => SetOf(calls[i].ids) = Ids(stored))
        <3>1. CASE i = 1 /\ calls[i] = c
            BY <3>1, <1>8
        <3>2. CASE i - 1 \in 1..Len(calls') /\ calls'[i - 1] = calls[i]
            BY <3>2, <1>7, <1>8 DEF NoReorder
        <3> QED
            BY <3>1, <3>2, <1>6
    <2>4. Awaits
        BY <2>2, <2>3, <1>7 DEF Awaits
    <2> QED
        BY <2>4, <1>1, LeadsTypes DEF Converges, l
\* A listing is the list.
<1>9. CASE ListServed(c)
    <2> DEFINE e == Done(c, l)
    <2>1. e \in Event /\ evals' = Append(evals, e) /\ ListDone(e) /\ e.result = l /\ stored' = stored
        BY <1>1, <1>2, <1>9, DoneTypes DEF ListServed, Done, ListDone, l
    <2> HIDE DEF e
    <2>2. Leads(evals', entries, l)
        BY <2>1, <1>1, LeadsListed
    <2>3. NoReorder(calls')
        <3> SUFFICES ASSUME NEW i \in 1..Len(calls'), calls'[i].op = "reorder"
                     PROVE  FALSE
            BY DEF NoReorder
        <3>1. i + 1 \in 1..Len(calls) /\ calls[i + 1].op = "reorder"
            BY <1>4, <1>5
        <3>2. 1 \in 1..((i + 1) - 1) /\ calls[1].op = "list"
            BY <1>4, <1>9 DEF ListServed
        <3>3. PICK j \in (i + 1 + 1)..Len(calls) : calls[j].op = "list"
            BY <3>1, <3>2, <1>7 DEF RefreshFollows, ListsAhead
        <3>4. j \in 1..Len(calls) /\ j # 1
            BY <3>1, <1>1
        <3>5. j - 1 \in 1..Len(calls') /\ calls'[j - 1] = calls[j]
            BY <3>4, <1>6
        <3> QED
            BY <3>3, <3>5, <1>7
    <2>4. after = l
        BY <2>1 DEF after, l
    <2> QED
        BY <2>2, <2>3, <2>4 DEF Meets, after
\* A new entry has an id that no order has.
<1>10. CASE CreateServed(c)
    <2>1. PICK card \in CardSet : /\ card.id = given + 1
                                  /\ after = <<card>> \o l
                                  /\ evals' = Append(evals, Done(c, card))
        BY <1>10 DEF CreateServed, after, l
    <2> DEFINE e == Done(c, card)
    <2>2. e \in Event /\ e.kind = "done" /\ e.call.op = "create" /\ e.result = card
        BY <1>1, <1>2, <1>10, DoneTypes DEF CreateServed, Done
    <2> HIDE DEF e
    <2>3. NoReorder(calls')
        <3> SUFFICES ASSUME NEW i \in 1..Len(calls'), calls'[i].op = "reorder"
                     PROVE  FALSE
            BY DEF NoReorder
        <3>1. given + 1 \in SetOf(calls'[i].ids)
            BY <1>7, <1>10 DEF CreateServed
        <3>2. i + 1 \in 1..Len(calls) /\ calls[i + 1] = calls'[i]
            BY <1>4, <1>5
        <3>3. SetOf(calls'[i].ids) \subseteq Held
            BY <3>2, <1>1 DEF Held, NamedBy, Named
        <3>4. given + 1 \notin 1..given
            BY DEF Typed, PageTypes, ListTypes
        <3> QED
            BY <3>1, <3>3, <3>4 DEF Fresh
    <2>4. PICK v \in Seq(CardSet) : Leads(evals, entries, v) /\ Meets(v, calls, l)
        BY <1>1, <1>8, <1>10, <2>1, <2>2, <2>3 DEF CreateServed, e
    <2>5. v = l
        <3>1. c.op # "reorder"
            BY <1>10 DEF CreateServed
        <3>2. ~\E i \in 1..Len(calls) : LastReorder(calls, i)
            BY <2>3, <3>1, <1>6 DEF LastReorder, NoReorder
        <3> QED
            BY <2>4, <3>2 DEF Meets
    <2>6. Applied(e, v) = after
        BY <2>1, <2>2, <2>5 DEF Applied
    <2>7. Leads(evals', entries, after)
        BY <2>1, <2>2, <2>4, <2>6, <1>1, <1>3, LeadsAppended DEF e
    <2> QED
        BY <2>3, <2>7 DEF Meets, after
<1>11. CASE UpdateServed(c)
    <2>1. PICK card \in CardSet : /\ after = WithCard(l, card)
                                  /\ evals' = Append(evals, Done(c, card))
        BY <1>11 DEF UpdateServed, after, l
    <2> DEFINE e == Done(c, card)
    <2>2. e \in Event /\ e.kind = "done" /\ e.call.op = "update" /\ e.result = card
        BY <1>1, <1>2, <1>11, DoneTypes DEF UpdateServed, Done
    <2> HIDE DEF e
    <2>3. PICK v \in Seq(CardSet) : Leads(evals, entries, v) /\ Meets(v, calls, l)
        BY <1>1, <1>8, <1>11, <2>1, <2>2 DEF UpdateServed, e
    <2> DEFINE w == WithCard(v, card)
    <2>4. UniqueIds(v)
        BY <2>3, <1>1, LeadsTypes
    <2>5. /\ w \in Seq(CardSet) /\ Len(w) = Len(v) /\ UniqueIds(w)
          /\ \A p \in 1..Len(v) : /\ w[p] = IF v[p].id = card.id THEN card ELSE v[p]
                                  /\ w[p].id = v[p].id
        BY <2>4, WithCardFacts
    <2>6. /\ Len(WithCard(l, card)) = Len(l)
          /\ \A p \in 1..Len(l) : WithCard(l, card)[p] = IF l[p].id = card.id THEN card ELSE l[p]
        BY <1>1, WithCardFacts
    <2>7. Applied(e, v) = w
        BY <2>2 DEF Applied
    <2> HIDE DEF w
    <2>8. Leads(evals', entries, w)
        BY <2>1, <2>2, <2>3, <2>5, <2>7, <1>1, LeadsAppended DEF e
    <2>9. v = l => w = after
        BY <2>1 DEF w
    <2>10. \A ids : Arranged(v, ids, l) => Arranged(w, ids, after)
        BY <2>1, <2>5, <2>6 DEF Arranged
    <2>11. c.op # "reorder"
        BY <1>11 DEF UpdateServed
    <2>12. Meets(w, calls', after)
        BY <2>3, <2>9, <2>10, <2>11, <1>1, <1>2, MeetsTail DEF c
    <2> QED
        BY <2>8, <2>12 DEF after
\* An entry that an order on its way has cannot be deleted before.
<1>12. CASE DeleteServed(c)
    <2>1. /\ c.id \in Ids(stored) /\ Ids(stored') = Ids(stored) \ {c.id}
          /\ after = Dropped(l, c.id) /\ evals' = Append(evals, Done(c, c.id)) /\ c.op = "delete"
        BY <1>12 DEF DeleteServed, after, l
    <2> DEFINE e == Done(c, c.id)
    <2>2. c.id \in Nat
        BY <2>1, <1>2, CallFacts
    <2>3. e \in Event /\ e.kind = "done" /\ e.call.op = "delete" /\ e.result = c.id
        BY <1>1, <1>2, <2>1, <2>2, DoneTypes DEF Done
    <2> HIDE DEF e
    <2>4. NoReorder(calls')
        <3> SUFFICES ASSUME NEW i \in 1..Len(calls'), calls'[i].op = "reorder"
                     PROVE  FALSE
            BY DEF NoReorder
        <3>1. c.id \notin SetOf(calls'[i].ids)
            BY <1>7, <2>1
        <3>2. /\ i + 1 \in 1..Len(calls) /\ calls[i + 1] = calls'[i] /\ 1 \in 1..Len(calls) /\ 1 < i + 1
              /\ calls[1] = c
            BY <1>4, <1>5
        <3>3. OrdersKnow
            BY DEF Fresh
        <3> QED
            BY <3>1, <3>2, <3>3, <2>1 DEF OrdersKnow
    <2>5. PICK v \in Seq(CardSet) : Leads(evals, entries, v) /\ Meets(v, calls, l)
        BY <1>1, <1>8, <2>1, <2>3, <2>4 DEF e
    <2>6. v = l
        <3>1. ~\E i \in 1..Len(calls) : LastReorder(calls, i)
            BY <2>1, <2>4, <1>6 DEF LastReorder, NoReorder
        <3> QED
            BY <2>5, <3>1 DEF Meets
    <2>7. Applied(e, v) = after
        BY <2>1, <2>3, <2>6 DEF Applied
    <2>8. Leads(evals', entries, after)
        BY <2>1, <2>3, <2>5, <2>7, <1>1, <1>3, LeadsAppended DEF e
    <2> QED
        BY <2>4, <2>8 DEF Meets, after
\* The last reordering is what the page shows already.
<1>13. CASE ReorderServed(c)
    <2>1. /\ c.op = "reorder" /\ Ids(stored') = Ids(stored) /\ c.ids \in Seq(Nat)
          /\ SetOf(c.ids) = Ids(stored) /\ Len(c.ids) = Len(l) /\ Len(after) = Len(l)
          /\ \A p \in 1..Len(l) : /\ after[p].id = c.ids[p]
                                  /\ \E q \in 1..Len(l) : l[p] = after[q]
          /\ evals' = Append(evals, Done(c, c.ids))
        BY <1>13 DEF ReorderServed, after, l
    <2> DEFINE e == Done(c, c.ids)
    <2>2. e \in Event /\ e.kind = "done" /\ e.call.op = "reorder"
        BY <1>1, <1>2, <2>1, DoneTypes DEF Done
    <2> HIDE DEF e
    <2>3. PICK v \in Seq(CardSet) : Leads(evals, entries, v) /\ Meets(v, calls, l)
        BY <1>1, <1>8, <2>1, <2>2 DEF e
    <2>4. UniqueIds(v)
        BY <2>3, <1>1, LeadsTypes
    <2>5. Applied(e, v) = v
        BY <2>2 DEF Applied
    <2>6. Leads(evals', entries, v)
        BY <2>1, <2>2, <2>3, <2>4, <2>5, <1>1, LeadsAppended DEF e
    <2>7. \A ids : Arranged(v, ids, l) => Arranged(v, ids, after)
        BY <2>1 DEF Arranged
    <2>8. ~NoReorder(calls)
        BY <2>1, <1>4, <1>5 DEF NoReorder
    <2>9. PICK i \in 1..Len(calls) : LastReorder(calls, i) /\ Arranged(v, calls[i].ids, l)
        BY <2>3, <2>8 DEF Meets
    <2>10. CASE i = 1 /\ calls[i] = c /\ NoReorder(calls')
        <3>1. Arranged(v, c.ids, after)
            BY <2>7, <2>9, <2>10
        <3>2. v = after
            BY <3>1, <2>1, <1>3, ArrangedSame
        <3> QED
            BY <3>2, <2>6, <2>10 DEF Meets, after
    <2>11. CASE /\ i - 1 \in 1..Len(calls') /\ LastReorder(calls', i - 1)
                /\ calls'[i - 1] = calls[i]
        <3>1. Meets(v, calls', after)
            BY <2>7, <2>9, <2>11 DEF Meets
        <3> QED
            BY <3>1, <2>6 DEF after
    <2> QED
        BY <2>9, <2>10, <2>11, <1>1, <1>2, LastTail DEF c
<1>14. CASE CopyServed(c)
    <2>1. c.op = "copy" /\ evals' = evals /\ stored' = stored
        BY <1>14 DEF CopyServed
    <2>2. Told("slides") \in Event
        BY MadeRight
    <2>3. PICK v \in Seq(CardSet) : Leads(evals, entries, v) /\ Meets(v, calls, l)
        BY <1>1, <1>8, <2>1, <2>2
    <2>4. Meets(v, calls', l)
        BY <2>1, <2>3, <1>1, <1>2, MeetsTail DEF c
    <2> QED
        BY <2>1, <2>3, <2>4 DEF l
<1>15. CASE CallFailed(c)
    <2> DEFINE e == Failed(c)
    <2>1. e \in Event /\ e.kind = "failed" /\ e.call = c
        BY <1>2, MadeRight DEF Failed
    <2> HIDE DEF e
    <2>2. c.op # "list" /\ stored' = stored /\ evals' = Append(evals, e)
        BY <1>15 DEF CallFailed, e
    <2>3. Len(evals) + 1 \in 1..Len(evals') /\ evals'[Len(evals) + 1] = e
        BY <2>1, <2>2, <1>1, OneMore
    <2>4. c.op # "reorder"
        BY <2>1, <2>3, <1>7 DEF FailedReorder
    <2>5. PICK v \in Seq(CardSet) : Leads(evals, entries, v) /\ Meets(v, calls, l)
        BY <1>1, <1>8, <2>1, <2>2, <2>4
    <2>6. UniqueIds(v)
        BY <2>5, <1>1, LeadsTypes
    <2>7. Applied(e, v) = v
        BY <2>1 DEF Applied
    <2>8. Leads(evals', entries, v)
        BY <2>1, <2>2, <2>5, <2>6, <2>7, <1>1, LeadsAppended
    <2>9. Meets(v, calls', l)
        BY <2>4, <2>5, <1>1, <1>2, MeetsTail DEF c
    <2> QED
        BY <2>2, <2>8, <2>9 DEF l
<1> QED
    BY <1>2, <1>9, <1>10, <1>11, <1>12, <1>13, <1>14, <1>15

-----------------------------------------------------------------------------
\* What holds of the page at all times

PageInv == Typed /\ Fresh /\ Menus /\ PressKnown /\ RefreshFollows /\ Converges

LEMMA PageInitInv == PageInit => PageInv
<1> SUFFICES ASSUME PageInit PROVE PageInv
    OBVIOUS
<1> DEFINE call == [op |-> "list"]
<1>1. /\ given = 2 /\ calls = <<call>> /\ evals = <<>> /\ entries = <<>>
      /\ drag = NoDrag /\ swallow = FALSE /\ button = "up" /\ window = "on"
      /\ waiting = 0 /\ asked = <<>> /\ opens = <<>> /\ popup = NoPopup
      /\ settled = [t \in Tokens |-> Unsettled] /\ chosen = [t \in Tokens |-> NoPick]
    BY DEF PageInit, MenuInit, NoMenu
<1>2. call \in SomeCall
    BY MadeRight
<1>3. calls \in Seq(SomeCall) /\ Len(calls) = 1 /\ DOMAIN calls = 1..1 /\ calls[1] = call
    BY <1>1, <1>2
<1>4. evals \in Seq(Event) /\ Len(evals) = 0 /\ DOMAIN evals = {} /\ 1..Len(evals) = {}
    BY <1>1
<1>5. entries \in Seq(CardSet) /\ Len(entries) = 0 /\ DOMAIN entries = {}
    BY <1>1
<1>6. call.op = "list"
    OBVIOUS
<1> HIDE DEF call
<1>7. WellNumbered(stored) /\ Below(stored, 2)
    BY FirstList DEF PageInit
<1>8. drag.at = "none" /\ drag.id = 0 /\ drag.order = <<>>
    BY <1>1 DEF NoDrag
<1>9. drag.order \in Seq(Nat) /\ DOMAIN drag.order = {}
    BY <1>8
<1>10. Typed
    <2>1. MenuTypes
        <3>1. /\ popup \in [token : Nat, hovered : 0..4] /\ NoPick \in Picks
            BY <1>1 DEF NoPopup, NoMenu, Picks
        <3> QED
            BY <1>1, <3>1 DEF MenuTypes
    <2>2. ListTypes
        BY <1>1, <1>3, <1>5, <1>7 DEF ListTypes
    <2>3. DragTypes
        BY <1>8, <1>9 DEF DragTypes
    <2> QED
        BY <2>1, <2>2, <2>3, <1>4, <1>5, <1>9 DEF Typed, PageTypes, UniqueIds, Distinct
<1>11. Fresh
    <2>1. Named(call) = {}
        BY <1>6 DEF Named
    <2>2. NamedBy(calls) = {}
        BY <2>1, <1>3 DEF NamedBy
    <2>3. Held = {}
        BY <2>2, <1>5, <1>9 DEF Held, Ids, SetOf
    <2>4. OrdersKnow
        BY <1>3, <1>6 DEF OrdersKnow
    <2>5. SoundAnswers(evals, Held, Ids(stored), given)
        BY <1>4 DEF SoundAnswers
    <2> QED
        BY <2>3, <2>4, <2>5 DEF Fresh
<1>12. Menus
    <2>1. Replies = {}
        BY <1>4 DEF Replies, SetOf
    <2>2. Last = 0 /\ Len(opens) = 0 /\ Opened = 0 /\ 1..Last = {} /\ 1..Len(opens) = {}
        BY <1>1 DEF Last, Opened
    <2>3. popup.token = 0 /\ popup.hovered = 0
        BY <1>1 DEF NoPopup, NoMenu
    <2>4. MenuOrder
        BY <2>2, <2>3, <1>1, MenuAssumption DEF MenuOrder
    <2>5. MenuComes /\ RepliesMatch
        BY <2>1, <1>1 DEF MenuComes, RepliesMatch
    <2>6. PicksMatch
        BY <2>2, <2>3, <1>1 DEF PicksMatch
    <2>7. SettledOnce
        BY <2>2, <1>1 DEF SettledOnce
    <2>8. PickIsItsOwn
        BY <2>2 DEF PickIsItsOwn
    <2> QED
        BY <2>4, <2>5, <2>6, <2>7, <2>8 DEF Menus, MenuInv
<1>13. PressKnown
    <2>1. drag.at = "none"
        BY <1>1 DEF NoDrag
    <2> QED
        BY <1>1, <2>1 DEF PressKnown
<1>14. RefreshFollows
    BY <1>3, <1>6 DEF RefreshFollows
<1>15. Converges
    BY <1>3, <1>6 DEF Converges, Awaits
<1> QED
    BY <1>10, <1>11, <1>12, <1>13, <1>14, <1>15 DEF PageInv

LEMMA PageInvStep == PageInv /\ [PageNext]_pageVars => PageInv'
<1> SUFFICES ASSUME PageInv, [PageNext]_pageVars PROVE PageInv'
    OBVIOUS
<1>1. Typed /\ Fresh /\ Menus /\ PressKnown /\ RefreshFollows /\ Converges
    BY DEF PageInv
<1>2. Typed' /\ Fresh' /\ Menus' /\ Steps
    BY <1>1, PageTypesStep
<1>3. PressKnown'
    BY <1>1, PressStep
<1>4. RefreshFollows'
    BY <1>1, <1>2, RefreshFollowsStep
<1>5. ListTypes'
    BY <1>1, <1>2, ListTypesStep
<1>6. Converges'
    BY <1>1, <1>2, <1>5, ConvergesIdle, ConvergesHeard, ConvergesPosted, ConvergesRefreshed,
       ConvergesRearranged, ConvergesServed DEF Steps
<1> QED
    BY <1>2, <1>3, <1>4, <1>6 DEF PageInv

\* The inductive invariant of the page: each part leans on those before it.
THEOREM MirrorInvariant == PageSpec => []PageInv
    BY PageInitInv, PageInvStep, PTL DEF PageSpec

LEMMA MenuIsAwaitedInv == PageInv => MenuIsAwaited
<1> SUFFICES ASSUME PageInv, opens = <<>>, \A i \in DOMAIN evals : evals[i].kind # "menu"
             PROVE  waiting = popup.token
    BY DEF MenuIsAwaited
<1>1. MenuOrder /\ MenuComes
    BY DEF PageInv, Menus, MenuInv
<1>2. Replies = {}
    BY DEF Replies, SetOf
<1>3. Last \in Nat
    BY DEF PageInv, Typed, PageTypes, MenuTypes, Last
<1>4. Opened = Last
    BY <1>3 DEF Opened
<1>5. CASE waiting = 0
    BY <1>1, <1>5 DEF MenuOrder, NoPopup, NoMenu
<1>6. CASE waiting # 0
    <2>1. waiting = Last
        BY <1>1, <1>6 DEF MenuOrder
    <2>2. popup.token = Last
        BY <1>1, <1>2, <1>6 DEF MenuComes
    <2> QED
        BY <2>1, <2>2
<1> QED
    BY <1>5, <1>6

LEMMA MirrorAgreesInv == PageInv => MirrorAgrees
<1> SUFFICES ASSUME PageInv, Quiet, ~overlapped
             PROVE  entries = Shown(stored)
    BY DEF MirrorAgrees, Shown
<1>1. /\ evals \in Seq(Event) /\ Converges
    BY TypedFacts DEF PageInv
<1>2. calls = <<>> /\ Answers = {}
    BY DEF Quiet
<1>3. Len(calls) = 0 /\ 1..Len(calls) = {} /\ DOMAIN evals = 1..Len(evals)
    BY <1>1, <1>2
<1>4. \A k \in 1..Len(evals) : Silent(evals[k])
    BY <1>2, <1>3 DEF Answers, Silent
<1>5. Awaits
    BY <1>3, <1>4 DEF Awaits, Silent, FailedReorder
<1>6. PICK v : Leads(evals, entries, v) /\ Meets(v, calls, Shown(stored))
    BY <1>1, <1>5 DEF Converges
<1>7. v = entries
    BY <1>1, <1>4, <1>6, LeadsSilent
<1>8. v = Shown(stored)
    BY <1>3, <1>6 DEF Meets
<1> QED
    BY <1>7, <1>8

\* "falls back to a fresh refresh() so the UI cannot diverge from disk"
\* (entries.ts:160): once every call is answered, the page shows the list of
\* the service, unless a reordering was shown while a refresh was under way.
THEOREM MirrorAgreesHolds == PageSpec => []MirrorAgrees
    BY MirrorInvariant, MirrorAgreesInv, PTL

\* The page waits for a menu if and only if that menu is on the screen, once
\* no request and no answer is on its way.
THEOREM MenuIsAwaitedHolds == PageSpec => []MenuIsAwaited
    BY MirrorInvariant, MenuIsAwaitedInv, PTL

\* A promise resolves to what the user picked in its own menu, or to nothing.
THEOREM PickIsItsOwnHolds == PageSpec => []PickIsItsOwn
<1>1. PageInv => PickIsItsOwn
    BY DEF PageInv, Menus
<1> QED
    BY <1>1, MirrorInvariant, PTL

\* The click that ends a press does not copy if the press has moved a card, nor,
\* unless the page was not following it any more, if it was cut short; and only
\* what happened to this press swallows it.
THEOREM ClickMeansPressHolds == PageSpec => ClickMeansPress
<1>1. PageInv /\ [PageNext]_pageVars
          => [ClickTaken =>
                 /\ calls' # calls =>
                       /\ "moved" \notin gesture
                       /\ "cut" \in gesture => gesture \cap {"searched", "escaped"} # {}
                 /\ swallow => gesture \cap {"dragged", "cut"} # {}]_pageVars
    BY PressStep DEF PageInv
<1> QED
    BY <1>1, MirrorInvariant, PTL DEF PageSpec, ClickMeansPress

=============================================================================
