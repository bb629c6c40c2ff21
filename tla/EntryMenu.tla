--------------------------- MODULE EntryMenu ---------------------------
(***************************************************************************)
(* The context menu of an entry: the page's promise for the pick           *)
(* (entryMenu.ts, EntryCard.svelte), the native popup that Go opens for it *)
(* (entrymenu_windows.go, internal/popupmenu), and the answer on its way   *)
(* back.                                                                   *)
(*                                                                         *)
(* The steps here are for a module that says what the page makes of a      *)
(* pick; EntryPage is one.                                                 *)
(*                                                                         *)
(* Simplifications:                                                        *)
(*   - copy, edit and delete are one item: what follows is the user's next *)
(*     act;                                                                *)
(*   - the binding that checks a request and dispatches it to the message  *)
(*     loop is one step with the request, which the page never gets wrong; *)
(*   - the popup's place, size and painting are left out;                  *)
(*   - the document is not reloaded.                                       *)
(***************************************************************************)
EXTENDS Integers, Sequences, FiniteSets

CONSTANT MaxMenus  \* bound: menus asked for

ASSUME MenuAssumption == MaxMenus \in Nat

VARIABLES
    waiting,  \* the token of the promise the page has pending, or NoMenu
    asked,    \* what the page asked for, by token
    opens,    \* tokens of the requests dispatched to Go's message loop
    popup,    \* the popup on screen: its token and its highlighted item
    evals,    \* what Go has told the page and the page has not taken yet
    settled,  \* what each promise was resolved to
    chosen    \* history: what the user picked in each popup

menuVars == <<waiting, asked, opens, popup, settled, chosen>>

-----------------------------------------------------------------------------
NoMenu == 0
Tokens == 1..MaxMenus

\* The last token given out.
Last == Len(asked)

\* The rows of a card's menu; "-" is the separator.
Rows == <<"edit", "-", "up", "down">>

NoPick == ""
Unsettled == "pending"

NoPopup == [token |-> NoMenu, hovered |-> 0]

Request(id, enabled, keyboard) == [id |-> id, enabled |-> enabled, keyboard |-> keyboard]

\* What __entryMenuClosed is called with.
Reply(token, pick) == [kind |-> "menu", token |-> token, pick |-> pick]

MenuInit ==
    /\ waiting = NoMenu
    /\ asked = <<>>
    /\ opens = <<>>
    /\ popup = NoPopup
    /\ settled = [t \in Tokens |-> Unsettled]
    /\ chosen = [t \in Tokens |-> NoPick]

-----------------------------------------------------------------------------
\* Rows

\* Neither a separator nor disabled.
Pickable(token) == {i \in DOMAIN Rows : Rows[i] \in asked[token].enabled}

\* nextEnabled: the first pickable row after "from" in direction dir, around
\* the ends; 0 is no row, and from there the way down starts at the top, the
\* way up at the bottom.
NextEnabled(pickable, from, dir) ==
    LET n == Len(Rows)
        start == IF from = 0 /\ dir = -1 THEN n + 1 ELSE from
        at(step) == ((start - 1 + dir * step) % n) + 1
        hits == {step \in 1..n : at(step) \in pickable}
    IN  IF hits = {} THEN 0
        ELSE at(CHOOSE step \in hits : \A other \in hits : step <= other)

-----------------------------------------------------------------------------
\* The page

\* settle
Resolved(token, pick) == [settled EXCEPT ![token] = pick]

\* A menu that a newer one replaces resolves to no pick at once.
Replaced == IF waiting = NoMenu THEN settled ELSE Resolved(waiting, NoPick)

\* showEntryMenu
Asking(request) ==
    /\ Last < MaxMenus
    /\ asked' = Append(asked, request)
    /\ waiting' = Last + 1
    /\ settled' = Replaced
    /\ opens' = Append(opens, Last + 1)
    /\ UNCHANGED <<popup, evals, chosen>>

\* Mutant: the page takes any answer for the one it waits for.
ExpectedAny(reply) == waiting # NoMenu

\* Only the answer for the promise that is pending counts.
Expected(reply) == waiting # NoMenu /\ reply.token = waiting

\* __entryMenuClosed.  Whose promise is resolved goes on with the pick.
Settling ==
    /\ evals # <<>> /\ Head(evals).kind = "menu"
    /\ evals' = Tail(evals)
    /\ LET reply == Head(evals)
       IN  IF Expected(reply)
           THEN /\ waiting' = NoMenu
                /\ settled' = Resolved(waiting, reply.pick)
           ELSE UNCHANGED <<waiting, settled>>
    /\ UNCHANGED <<asked, opens, popup, chosen>>

-----------------------------------------------------------------------------
\* Go, on the UI thread

\* finish: the popup is gone before its outcome is reported, so that the
\* messages its destruction sends find no menu to close again.
Reported(pick) == IF popup = NoPopup THEN <<>> ELSE <<Reply(popup.token, pick)>>

\* Mutant: a window that cannot be created reports nothing.
CannotCreateSilently(token) == popup' = NoPopup /\ evals' = evals \o Reported(NoPick)

\* CreateWindowEx fails; Show has closed the popup that was open by then.
CannotCreate(token) ==
    /\ popup' = NoPopup
    /\ evals' = evals \o Reported(NoPick) \o <<Reply(token, NoPick)>>

\* Show: the popup replaces the one that is open.  From the keyboard its
\* first row is highlighted.
Shows(token) ==
    /\ popup' = [token |-> token,
                 hovered |-> IF asked[token].keyboard
                             THEN NextEnabled(Pickable(token), 0, 1) ELSE 0]
    /\ evals' = evals \o Reported(NoPick)

\* The window was put away between the click and the dispatch.
Refuses(token) ==
    /\ UNCHANGED popup
    /\ evals' = Append(evals, Reply(token, NoPick))

\* openEntryMenu; "works" is whether Windows creates the popup.
Opening(hidden, works) ==
    /\ opens # <<>>
    /\ opens' = Tail(opens)
    /\ IF hidden THEN Refuses(Head(opens))
       ELSE IF works THEN Shows(Head(opens))
       ELSE CannotCreate(Head(opens))
    /\ UNCHANGED <<waiting, asked, settled, chosen>>

\* Escape, Alt, a click elsewhere, a loss of the focus: Close.
Dismissing ==
    /\ popup # NoPopup
    /\ popup' = NoPopup
    /\ evals' = evals \o Reported(NoPick)
    /\ UNCHANGED <<waiting, asked, opens, settled, chosen>>

Finishing(row) ==
    /\ popup' = NoPopup
    /\ evals' = evals \o Reported(Rows[row])
    /\ chosen' = [chosen EXCEPT ![popup.token] = Rows[row]]
    /\ UNCHANGED <<waiting, asked, opens, settled>>

Highlighting(row) ==
    /\ row # popup.hovered
    /\ popup' = [popup EXCEPT !.hovered = row]
    /\ UNCHANGED <<waiting, asked, opens, evals, settled, chosen>>

\* The pointer over a row: itemAt, mouse leave.
Pointing ==
    /\ popup # NoPopup
    /\ \E row \in {0} \cup Pickable(popup.token) : Highlighting(row)

\* The arrow keys, Home and End.
Walking ==
    /\ popup # NoPopup
    /\ \E from \in {0, popup.hovered}, dir \in {1, -1} :
           Highlighting(NextEnabled(Pickable(popup.token), from, dir))

\* A click on a row, wherever the highlight is.
Clicking ==
    /\ popup # NoPopup
    /\ \E row \in Pickable(popup.token) : Finishing(row)

\* Enter or Space.
Entering ==
    /\ popup # NoPopup /\ popup.hovered # 0
    /\ Finishing(popup.hovered)

=============================================================================
