---------------------------- MODULE Entries ----------------------------
(***************************************************************************)
(* What the operations of internal/service make of the list of entries.    *)
(*                                                                         *)
(* A list is a sequence in the order data.json holds it; each entry has an *)
(* id, the place in the displayed list it asks for (order) and its text.   *)
(* The text stands for the label and the value together, trimmed and       *)
(* validated; the two timestamps are left out.                             *)
(***************************************************************************)
EXTENDS Integers, Sequences, FiniteSets

CONSTANTS
    Labels,  \* label and value of an entry, as validated
    MaxIds   \* bound: ids ever given

Entry(id, text, order) == [id |-> id, text |-> text, order |-> order]

Ids(es) == {es[i].id : i \in DOMAIN es}

Texts(es) == {es[i].text : i \in DOMAIN es}

\* findLocked
At(es, id) == CHOOSE i \in DOMAIN es : es[i].id = id

\* The n-th smallest of a set of places.
Nth(places, n) == CHOOSE k \in places : Cardinality({j \in places : j <= k}) = n

\* What a filter leaves of a list: the elements at these places, in their
\* order.  SelectSeq says the same by recursion, which no proof can open.
Picked(s, places) == [n \in 1..Cardinality(places) |-> s[Nth(places, n)]]

-----------------------------------------------------------------------------
\* The displayed order

\* sort.SliceStable by order: an entry goes after those with a smaller order
\* and after those before it in the list with the same.
Place(es, i) ==
    Cardinality({j \in DOMAIN es : \/ es[j].order < es[i].order
                                   \/ es[j].order = es[i].order /\ j <= i})

Listed(es) == [p \in DOMAIN es |-> es[CHOOSE i \in DOMAIN es : Place(es, i) = p]]

\* A list whose orders are 0, 1, ... Len(es) - 1, each of them once.
Packed(es) == \A p \in 1..Len(es) : \E i \in DOMAIN es : es[i].order = p - 1

-----------------------------------------------------------------------------
\* The operations

\* Mutant: the new entry goes to the bottom.
CreatedLast(es, id, text) == Append(es, Entry(id, text, Len(es)))

\* The new entry goes to the top; the others move down.
Created(es, id, text) ==
    Append([i \in DOMAIN es |-> [es[i] EXCEPT !.order = @ + 1]], Entry(id, text, 0))

Updated(es, id, text) == [es EXCEPT ![At(es, id)].text = text]

Without(es, k) == SubSeq(es, 1, k - 1) \o SubSeq(es, k + 1, Len(es))

\* Mutant: a deletion leaves its place empty.
DeletedWithGap(es, id) == Without(es, At(es, id))

\* What is left is sorted and numbered afresh.
Deleted(es, id) ==
    LET rest == Listed(Without(es, At(es, id)))
    IN  [i \in DOMAIN rest |-> [rest[i] EXCEPT !.order = i - 1]]

\* A reordering is as long as the list, repeats no id and leaves none out.
IsReordering(es, ids) ==
    /\ Len(ids) = Len(es)
    /\ \A p, q \in DOMAIN ids : p # q => ids[p] # ids[q]
    /\ Ids(es) \subseteq {ids[p] : p \in DOMAIN ids}

Reordered(es, ids) ==
    [i \in DOMAIN es |->
        [es[i] EXCEPT !.order = (CHOOSE p \in DOMAIN ids : ids[p] = es[i].id) - 1]]

\* Mutant: what the file itself repeats is added again.
IsNewToList(es, file, k) == file[k] \notin Texts(es)

\* The places of a backup file's texts that are neither in the list nor
\* earlier in the file.
IsNew(es, file, k) ==
    /\ file[k] \notin Texts(es)
    /\ \A j \in 1..(k - 1) : file[j] # file[k]

MaxOrder(es) ==
    IF es = <<>> THEN -1
    ELSE CHOOSE m \in {es[i].order : i \in DOMAIN es} : \A i \in DOMAIN es : es[i].order <= m

\* The new ones go to the bottom, in the file's order, under ids that start
\* at firstId.
Imported(es, file, firstId) ==
    LET new == Picked(file, {k \in DOMAIN file : IsNew(es, file, k)})
    IN  es \o [n \in DOMAIN new |-> Entry(firstId + n - 1, new[n], MaxOrder(es) + n)]

\* The texts an export writes: the list as it is held.
Exported(es) == [i \in DOMAIN es |-> es[i].text]

=============================================================================
