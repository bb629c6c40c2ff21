--------------------------- MODULE EntryPage ---------------------------
(***************************************************************************)
(* The page's copy of the list of entries (entries.ts), and the gestures   *)
(* that change it: the forms, the drag and the keys of EntryList.svelte,   *)
(* the context menu (EntryMenu).  The service owns the list (Entries says  *)
(* what its operations make of it); the page repeats each change on its    *)
(* own copy when the answer comes, except a reordering, which it shows at  *)
(* once.                                                                   *)
(*                                                                         *)
(* Calls run on Go's UI thread in the order of the page's calls, and the   *)
(* page takes what Go tells it in order, too.                              *)
(*                                                                         *)
(* Simplifications:                                                        *)
(*   - the search box keeps the entries with one text;                     *)
(*   - of the orders an entry carries the page reads none: its copy is the *)
(*     entries in sequence;                                                *)
(*   - a form is its call: at most MaxUnderway calls are not answered yet, *)
(*     more than one when the tray's Settings took a form away;            *)
(*   - the window slides away and back (WindowCycle has the rest);         *)
(*   - no key but Escape is pressed while the mouse button is down;        *)
(*   - errors, hints, badges, focus and scrolling are left out, and the    *)
(*     import, which ends in the same refresh as the start.                *)
(***************************************************************************)
EXTENDS Entries, EntryMenu

CONSTANTS
    MaxUnderway,  \* bound: calls not answered yet
    MaxActs,      \* bound: presses, forms, keys, searches, hides
    MaxFaults     \* bound: saves and popups that fail

ASSUME PageAssumption ==
    /\ MaxIds \in Nat \ {0, 1} /\ MaxUnderway \in Nat \ {0}
    /\ MaxActs \in Nat /\ MaxFaults \in Nat /\ "" \notin Labels

VARIABLES
    stored,   \* the service's list
    given,    \* ids given
    calls,    \* the page's calls on their way to Go
    window    \* where the native window is

VARIABLES
    entries,  \* state.entries
    loading,  \* state.loading
    query,    \* state.query: "" or the text it keeps
    sliding,  \* interactionDisabled
    drag,     \* pendingDrag, draggingId, dragOrder
    swallow,  \* suppressNextClick
    button    \* the mouse: "up", "down", "clicks" (a click is due), "lost"

\* History and bounds.
VARIABLES
    gesture,     \* what has happened since the button went down: a set of
                 \* "searched", "dragged", "moved", "escaped", "cut"
    overlapped,  \* a reordering was shown while a refresh was under way
    acts,
    faults

go == <<stored, given, window>>
list == <<entries, loading, calls, overlapped>>
mouse == <<drag, swallow, button, gesture>>
bounds == <<acts, faults>>
pageVars == <<menuVars, evals, go, list, query, sliding, mouse, bounds>>

-----------------------------------------------------------------------------
Card(id, text) == [id |-> id, text |-> text]

\* A listing as the page holds it.
Cards(es) == [p \in DOMAIN es |-> Card(es[p].id, es[p].text)]

CardIds(cs) == [p \in DOMAIN cs |-> cs[p].id]

\* The cards of a listing that are in the sequence of ids, in its order.
InOrder(cs, ids) ==
    LET known == Picked(ids, {p \in DOMAIN ids : ids[p] \in Ids(cs)})
    IN  [p \in DOMAIN known |-> cs[At(cs, known[p])]]

NoDrag == [at |-> "none", id |-> 0, order |-> <<>>]

\* filterEntries
Filtered == Picked(entries, {p \in DOMAIN entries : query = "" \/ entries[p].text = query})

CanDrag == query = ""

\* The cards on the page: none while the list is loading.
Rendered ==
    IF loading THEN <<>>
    ELSE IF drag.at = "dragging" THEN drag.order
    ELSE CardIds(Filtered)

Hidden == window \in {"leaves", "off"}

\* Moves id to place k of a sequence of ids.
MovedTo(ids, id, k) ==
    LET rest == Picked(ids, {p \in DOMAIN ids : ids[p] # id})
    IN  SubSeq(rest, 1, k - 1) \o <<id>> \o SubSeq(rest, k, Len(rest))

Swapped(ids, i, j) == [ids EXCEPT ![i] = ids[j], ![j] = ids[i]]

Acting == acts < MaxActs /\ acts' = acts + 1

-----------------------------------------------------------------------------
\* Calls and answers

Told(kind) == [kind |-> kind]
Done(call, result) == [kind |-> "done", call |-> call, result |-> result]
Failed(call) == [kind |-> "failed", call |-> call]

Answers == {i \in DOMAIN evals : evals[i].kind \in {"done", "failed"}}

Refreshing ==
    \/ \E i \in DOMAIN calls : calls[i].op = "list"
    \/ \E i \in Answers : evals[i].call.op = "list"

Room == Len(calls) + Cardinality(Answers) < MaxUnderway

Posting(call) == calls' = Append(calls, call)

\* refresh
Refresh ==
    /\ loading' = TRUE
    /\ Posting([op |-> "list"])
    /\ overlapped' = FALSE
    /\ UNCHANGED entries

\* reorderEntries: shown at once, unless the ids are not those of the list.
ReorderEntries(ids) ==
    LET next == InOrder(entries, ids)
    IN  IF Len(next) # Len(entries)
        THEN Refresh
        ELSE /\ entries' = next
             /\ Posting([op |-> "reorder", ids |-> ids])
             /\ overlapped' = (overlapped \/ Refreshing)
             /\ UNCHANGED loading

PageInit ==
    /\ \E t, u \in Labels : stored = <<Entry(1, t, 1), Entry(2, u, 0)>>
    /\ given = 2
    /\ calls = <<[op |-> "list"]>> /\ evals = <<>>
    /\ entries = <<>> /\ loading = TRUE
    /\ query = "" /\ sliding = FALSE /\ window = "on"
    /\ drag = NoDrag /\ swallow = FALSE /\ button = "up" /\ gesture = {}
    /\ overlapped = FALSE /\ acts = 0 /\ faults = 0
    /\ MenuInit

-----------------------------------------------------------------------------
\* Go runs the next call.  A change is refused for its arguments or because
\* the save fails; the list is then what it was.

Serving(call) == calls # <<>> /\ Head(calls) = call /\ calls' = Tail(calls)

GoUnchanged == UNCHANGED <<menuVars, window, entries, loading, query, sliding, mouse, overlapped>>

Replying(answer) == evals' = Append(evals, answer)

ServeList ==
    /\ Serving([op |-> "list"])
    /\ Replying(Done(Head(calls), Cards(Listed(stored))))
    /\ UNCHANGED <<stored, given, bounds>> /\ GoUnchanged

ServeCreate ==
    /\ calls # <<>> /\ Head(calls).op = "create" /\ Serving(Head(calls))
    /\ given' = given + 1
    /\ stored' = Created(stored, given + 1, Head(calls).text)
    /\ Replying(Done(Head(calls), Card(given + 1, Head(calls).text)))
    /\ UNCHANGED bounds /\ GoUnchanged

Known(call) == call.id \in Ids(stored)

ServeUpdate ==
    /\ calls # <<>> /\ Head(calls).op = "update" /\ Serving(Head(calls))
    /\ Known(Head(calls))
    /\ stored' = Updated(stored, Head(calls).id, Head(calls).text)
    /\ Replying(Done(Head(calls), Card(Head(calls).id, Head(calls).text)))
    /\ UNCHANGED <<given, bounds>> /\ GoUnchanged

ServeDelete ==
    /\ calls # <<>> /\ Head(calls).op = "delete" /\ Serving(Head(calls))
    /\ Known(Head(calls))
    /\ stored' = Deleted(stored, Head(calls).id)
    /\ Replying(Done(Head(calls), Head(calls).id))
    /\ UNCHANGED <<given, bounds>> /\ GoUnchanged

ServeReorder ==
    /\ calls # <<>> /\ Head(calls).op = "reorder" /\ Serving(Head(calls))
    /\ IsReordering(stored, Head(calls).ids)
    /\ stored' = Reordered(stored, Head(calls).ids)
    /\ Replying(Done(Head(calls), Head(calls).ids))
    /\ UNCHANGED <<given, bounds>> /\ GoUnchanged

\* Whether it succeeds the card says, not the list.
ServeCopy ==
    /\ calls # <<>> /\ Head(calls).op = "copy" /\ Serving(Head(calls))
    /\ UNCHANGED <<stored, given, evals, bounds>> /\ GoUnchanged

Refused(call) ==
    \/ call.op \in {"update", "delete"} /\ ~Known(call)
    \/ call.op = "reorder" /\ ~IsReordering(stored, call.ids)

Refuse ==
    /\ calls # <<>> /\ Refused(Head(calls)) /\ Serving(Head(calls))
    /\ Replying(Failed(Head(calls)))
    /\ UNCHANGED <<stored, given, bounds>> /\ GoUnchanged

SavingFails ==
    /\ faults < MaxFaults /\ faults' = faults + 1
    /\ calls # <<>> /\ Head(calls).op \in {"create", "update", "delete", "reorder"}
    /\ Serving(Head(calls))
    /\ Replying(Failed(Head(calls)))
    /\ UNCHANGED <<stored, given, acts>> /\ GoUnchanged

-----------------------------------------------------------------------------
\* The page takes what Go tells it

PageUnchanged == UNCHANGED <<menuVars, go, query, sliding, mouse, bounds>>

Hearing(kind) ==
    /\ evals # <<>> /\ Head(evals).kind = kind
    /\ evals' = Tail(evals)

Answered(op) == Hearing("done") /\ Head(evals).call.op = op

TakeList ==
    /\ Answered("list")
    /\ entries' = Head(evals).result
    /\ loading' = FALSE
    /\ UNCHANGED <<calls, overlapped>> /\ PageUnchanged

\* createEntry
TakeCreated ==
    /\ Answered("create")
    /\ entries' = <<Head(evals).result>> \o entries
    /\ UNCHANGED <<loading, calls, overlapped>> /\ PageUnchanged

\* updateEntry
TakeUpdated ==
    /\ Answered("update")
    /\ LET updated == Head(evals).result
       IN  entries' = [p \in DOMAIN entries |->
                          IF entries[p].id = updated.id THEN updated ELSE entries[p]]
    /\ UNCHANGED <<loading, calls, overlapped>> /\ PageUnchanged

\* deleteEntry
TakeDeleted ==
    /\ Answered("delete")
    /\ entries' = Picked(entries, {p \in DOMAIN entries : entries[p].id # Head(evals).result})
    /\ UNCHANGED <<loading, calls, overlapped>> /\ PageUnchanged

TakeReordered ==
    /\ Answered("reorder")
    /\ UNCHANGED list /\ PageUnchanged

\* A form stays open with its error.
TakeFailure ==
    /\ Hearing("failed") /\ Head(evals).call.op # "reorder"
    /\ UNCHANGED list /\ PageUnchanged

\* Mutant: a reordering that failed is shown until the next refresh.
KeepReordering ==
    /\ Hearing("failed") /\ Head(evals).call.op = "reorder"
    /\ UNCHANGED list /\ PageUnchanged

\* "falls back to a fresh refresh() so the UI cannot diverge from disk"
TakeFailedReorder ==
    /\ Hearing("failed") /\ Head(evals).call.op = "reorder"
    /\ Refresh /\ PageUnchanged

\* Moves the card of the menu or of the key by one place: onKeyboardMove.
MoveBy(id, dir) ==
    LET from == At(entries, id)
    IN  IF /\ CanDrag /\ ~sliding
           /\ id \in Ids(entries)
           /\ from + dir \in DOMAIN entries
        THEN ReorderEntries(Swapped(CardIds(entries), from, from + dir))
        ELSE UNCHANGED list

\* The promise of showEntryMenu is resolved; EntryCard goes on with the pick.
TakeMenuReply ==
    /\ Settling
    /\ LET reply == Head(evals)
       IN  CASE Expected(reply) /\ reply.pick = "up" -> MoveBy(asked[reply.token].id, -1)
             [] Expected(reply) /\ reply.pick = "down" -> MoveBy(asked[reply.token].id, 1)
             [] OTHER -> UNCHANGED list
    /\ UNCHANGED <<go, query, sliding, mouse, bounds>>

\* What happens to a press is history, whatever the page makes of it.
Happened(what) == gesture' = IF button = "down" THEN gesture \cup {what} ELSE gesture

\* abortGesture
Aborted ==
    /\ drag' = NoDrag
    /\ swallow' = (swallow \/ drag.at # "none")
    /\ Happened("cut")
    /\ UNCHANGED button

\* The window starts to move.
TakeSlide ==
    /\ Hearing("slides")
    /\ sliding' = TRUE
    /\ Aborted
    /\ UNCHANGED <<menuVars, go, list, query, bounds>>

\* The window has come to rest, on screen or (resetAfterHide) off it.
TakeRest ==
    /\ Hearing("rests") \/ Hearing("parked")
    /\ sliding' = FALSE
    /\ query' = IF Head(evals).kind = "parked" THEN "" ELSE query
    /\ UNCHANGED <<menuVars, go, list, mouse, bounds>>

-----------------------------------------------------------------------------
\* The native window

WindowUnchanged == UNCHANGED <<stored, given, list, query, sliding, mouse, faults>>

\* moveOffScreen closes the popup first.
Hide ==
    /\ Acting
    /\ window \in {"on", "comes"} /\ window' = "leaves"
    /\ popup' = NoPopup
    /\ evals' = evals \o Reported(NoPick) \o <<Told("slides")>>
    /\ UNCHANGED <<waiting, asked, opens, settled, chosen>> /\ WindowUnchanged

Show ==
    /\ window = "off" /\ window' = "comes"
    /\ evals' = Append(evals, Told("slides"))
    /\ UNCHANGED <<menuVars, acts>> /\ WindowUnchanged

SlideEnds ==
    /\ \/ window = "leaves" /\ window' = "off" /\ Replying(Told("parked"))
       \/ window = "comes" /\ window' = "on" /\ Replying(Told("rests"))
    /\ UNCHANGED <<menuVars, acts>> /\ WindowUnchanged

OpenMenu ==
    /\ \/ Opening(Hidden, TRUE) /\ UNCHANGED faults
       \/ ~Hidden /\ faults < MaxFaults /\ faults' = faults + 1 /\ Opening(FALSE, FALSE)
    /\ UNCHANGED <<go, list, query, sliding, mouse, acts>>

-----------------------------------------------------------------------------
\* The user

UsePopup ==
    /\ Pointing \/ Walking \/ Clicking \/ Entering \/ Dismissing
    /\ UNCHANGED <<go, list, query, sliding, mouse, bounds>>

\* The user is at a window that is on screen.
AtPage == window # "off" /\ popup = NoPopup

\* A right click or the menu key on a card.  A press clears the suppression.
AskMenu ==
    /\ Acting /\ AtPage /\ ~sliding /\ button = "up"
    /\ \E p \in DOMAIN Rendered, keyboard \in BOOLEAN :
           /\ Asking(Request(Rendered[p],
                  {"edit"} \cup (IF CanDrag /\ p > 1 THEN {"up"} ELSE {})
                           \cup (IF CanDrag /\ p < Len(Rendered) THEN {"down"} ELSE {}),
                  keyboard))
           /\ swallow' = (swallow /\ keyboard)
    /\ UNCHANGED <<go, list, query, sliding, drag, button, gesture, faults>>

\* A form is saved, or a deletion confirmed.
UseForm ==
    /\ Acting /\ AtPage /\ ~sliding /\ Room
    /\ \/ \E text \in Labels :
              /\ given + Cardinality({i \in DOMAIN calls : calls[i].op = "create"}) < MaxIds
              /\ Posting([op |-> "create", text |-> text])
       \/ \E id \in Ids(entries), text \in Labels :
              Posting([op |-> "update", id |-> id, text |-> text])
       \/ \E id \in Ids(entries) : Posting([op |-> "delete", id |-> id])
    /\ UNCHANGED <<menuVars, evals, go, entries, loading, query, sliding, mouse, overlapped, faults>>

\* Ctrl and an arrow on a card.
MoveByKey ==
    /\ Acting /\ AtPage /\ Room /\ button = "up"
    /\ \E p \in DOMAIN Rendered, dir \in {1, -1} : MoveBy(Rendered[p], dir)
    /\ UNCHANGED <<menuVars, evals, go, query, sliding, mouse, faults>>

\* Enter on a card: a click that no press began.
ClickByKey ==
    /\ Acting /\ AtPage /\ Room /\ button = "up" /\ Rendered # <<>>
    /\ swallow' = FALSE
    /\ IF swallow THEN UNCHANGED calls ELSE Posting([op |-> "copy"])
    /\ UNCHANGED <<menuVars, evals, go, entries, loading, overlapped, query, sliding,
                   drag, button, gesture, faults>>

Search ==
    /\ Acting /\ AtPage
    /\ query' \in {""} \cup Labels /\ query' # query
    /\ UNCHANGED <<menuVars, evals, go, list, sliding, mouse, faults>>

-----------------------------------------------------------------------------
\* The mouse

MouseUnchanged == UNCHANGED <<menuVars, evals, go, query, sliding>>

\* Mutant: the suppression outlives its gesture.
PressKeeping(id) ==
    /\ drag' = IF CanDrag THEN [NoDrag EXCEPT !.at = "pressed", !.id = id] ELSE drag
    /\ UNCHANGED swallow

\* onPointerDownCapture, onCardPointerDown
PressOn(id) ==
    /\ drag' = IF CanDrag THEN [NoDrag EXCEPT !.at = "pressed", !.id = id] ELSE drag
    /\ swallow' = FALSE

Press ==
    /\ Acting /\ AtPage /\ ~sliding /\ button = "up"
    /\ \E p \in DOMAIN Rendered : PressOn(Rendered[p])
    /\ button' = "down" /\ gesture' = IF CanDrag THEN {} ELSE {"searched"}
    /\ MouseUnchanged /\ UNCHANGED <<list, faults>>

\* onWindowPointerMove with the button down.  What is dragged is the list of
\* this moment; with no cards on the page the card goes to the top.
Drag ==
    /\ button = "down" /\ ~sliding /\ drag.at # "none"
    /\ LET order == IF drag.at = "pressed" THEN CardIds(Filtered) ELSE drag.order
       IN  \E k \in IF loading THEN {1} ELSE DOMAIN order :
               drag' = [at |-> "dragging", id |-> drag.id,
                        order |-> IF drag.id \in {order[p] : p \in DOMAIN order}
                                  THEN MovedTo(order, drag.id, k) ELSE order]
    /\ drag' # drag
    /\ Happened("dragged")
    /\ MouseUnchanged /\ UNCHANGED <<list, swallow, button, bounds>>

\* A drag that changed the order reorders the list, and its click is no click.
Drop ==
    IF drag.at = "dragging" /\ drag.order # CardIds(Filtered)
    THEN swallow' = TRUE /\ ReorderEntries(drag.order)
    ELSE UNCHANGED <<swallow, list>>

\* onWindowPointerUp; a click follows if press and release have a place in common.
Release ==
    /\ button = "down" /\ button' \in {"up", "clicks"}
    /\ IF sliding THEN UNCHANGED <<drag, swallow, list>>
       ELSE drag' = NoDrag /\ Drop
    /\ gesture' = IF button' = "up" THEN {}
                  ELSE IF calls' # calls THEN gesture \cup {"moved"} ELSE gesture
    /\ MouseUnchanged /\ UNCHANGED bounds

\* onClickCapture; the click may hit a card or what surrounds the cards.
Click ==
    /\ button = "clicks" /\ button' = "up" /\ gesture' = {}
    /\ swallow' = FALSE
    /\ \/ ~swallow /\ ~sliding /\ Posting([op |-> "copy"])
       \/ UNCHANGED calls
    /\ MouseUnchanged
    /\ UNCHANGED <<entries, loading, overlapped, drag, bounds>>

\* The button goes up where the page does not see it; the page hears of it
\* from the next move.
ReleaseUnseen ==
    /\ button = "down" /\ button' = "lost" /\ gesture' = {}
    /\ MouseUnchanged /\ UNCHANGED <<list, drag, swallow, bounds>>

MoveWithoutButton ==
    /\ button = "lost" /\ button' = "up"
    /\ IF sliding THEN UNCHANGED <<drag, swallow>>
       ELSE /\ drag' = NoDrag
            /\ swallow' = (swallow \/ drag.at = "dragging")
    /\ MouseUnchanged /\ UNCHANGED <<list, gesture, bounds>>

PointerCancel ==
    /\ button = "down" /\ button' = "up" /\ gesture' = {}
    /\ drag' = NoDrag
    /\ MouseUnchanged /\ UNCHANGED <<list, swallow, bounds>>

Escape ==
    /\ drag.at = "dragging" /\ drag' = NoDrag
    /\ Happened("escaped")
    /\ MouseUnchanged /\ UNCHANGED <<list, swallow, button, bounds>>

Blur ==
    /\ Aborted
    /\ MouseUnchanged /\ UNCHANGED <<list, bounds>>

-----------------------------------------------------------------------------
PageNext ==
    \/ ServeList \/ ServeCreate \/ ServeUpdate \/ ServeDelete \/ ServeReorder
    \/ ServeCopy \/ Refuse \/ SavingFails
    \/ TakeList \/ TakeCreated \/ TakeUpdated \/ TakeDeleted \/ TakeReordered
    \/ TakeFailure \/ TakeFailedReorder \/ TakeMenuReply \/ TakeSlide \/ TakeRest
    \/ Hide \/ Show \/ SlideEnds \/ OpenMenu \/ UsePopup
    \/ AskMenu \/ UseForm \/ MoveByKey \/ ClickByKey \/ Search
    \/ Press \/ Drag \/ Release \/ Click \/ ReleaseUnseen \/ MoveWithoutButton
    \/ PointerCancel \/ Escape \/ Blur

PageSpec == PageInit /\ [][PageNext]_pageVars

-----------------------------------------------------------------------------
\* Properties

Quiet == calls = <<>> /\ Answers = {}

\* "falls back to a fresh refresh() so the UI cannot diverge from disk"
\* (entries.ts:160): once every call is answered, the page shows the
\* service's list, whatever was reordered, dropped, changed and refused in
\* between.  The exception is a reordering shown while a refresh was under
\* way: the refresh brings the list of before it back.
MirrorAgrees == Quiet /\ ~overlapped => entries = Cards(Listed(stored))

\* "onClose runs exactly once per Show" (popupmenu_windows.go:142): when
\* nothing is on its way, the page waits for a menu if and only if that very
\* menu is on the screen.
MenuIsAwaited ==
    opens = <<>> /\ (\A i \in DOMAIN evals : evals[i].kind # "menu")
        => waiting = popup.token

\* "Go's late answer for it cannot be taken for the new menu's"
\* (entryMenu.ts:9): a promise resolves to what the user picked in its own
\* menu, an item that could be picked there, or to nothing; and to nothing
\* only if nothing was picked or a newer menu was asked for.
PickIsItsOwn ==
    \A t \in 1..Last :
        /\ settled[t] \notin {NoPick, Unsettled}
               => settled[t] = chosen[t] /\ chosen[t] \in asked[t].enabled
        /\ settled[t] = NoPick => chosen[t] = NoPick \/ t < Last
        /\ settled[t] = Unsettled <=> t = waiting

\* The click a press ends with is due.
ClickTaken == button = "clicks" /\ button' = "up"

\* The click that ends a press does not copy if the press has moved a card, nor
\* if it was cut short by a slide of the window or a blur (comment of
\* abortGesture), unless the page was not following it any more, for the
\* search or after Escape; and "the suppression is good for this gesture only"
\* (EntryList.svelte:98): only what happened to this very press swallows it.
ClickMeansPress ==
    [][ClickTaken =>
           /\ calls' # calls =>
                 /\ "moved" \notin gesture
                 /\ "cut" \in gesture => gesture \cap {"searched", "escaped"} # {}
           /\ swallow => gesture \cap {"dragged", "cut"} # {}]_pageVars

\* "a drag never accidentally copies the dragged entry" (EntryList.svelte:264).
DragNeverCopies ==
    [][ClickTaken /\ calls' # calls => "dragged" \notin gesture]_pageVars

\* "The click such a gesture may still produce must not copy the card it lands
\* on" (EntryList.svelte:94): a press the window slid away under, or that the
\* page lost its focus in.
InterruptedNeverCopies ==
    [][ClickTaken /\ calls' # calls => "cut" \notin gesture]_pageVars

=============================================================================
