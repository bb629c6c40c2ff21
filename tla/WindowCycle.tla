-------------------------- MODULE WindowCycle --------------------------
(***************************************************************************)
(* The show/hide cycle of the Windows window (window_windows.go): parked   *)
(* -> visible -> hiding -> preparing -> parked.                            *)
(*                                                                         *)
(* Three kinds of process share it:                                        *)
(*   - the UI thread, on which every handler runs to its end;              *)
(*   - one goroutine per slide, which moves the window from outside the UI *)
(*     thread and checks before each step that nothing replaced it;        *)
(*   - the preparation timer, which posts to the UI thread.                *)
(* The page is any page here: it may post any height, and any answer to a  *)
(* preparation it was asked for, at any time or never.  PageCycle has the  *)
(* one of App.svelte.                                                      *)
(*                                                                         *)
(* Simplifications:                                                        *)
(*   - the window's size is the content height it was computed from: the   *)
(*     clamping and the DPI are left out (WM_DPICHANGED acts on a visible  *)
(*     window as a resize does);                                           *)
(*   - of a position only what matters: parked, in the corner computed for *)
(*     some size, or anywhere else;                                        *)
(*   - the user asks for shows and hides at any time: which click or key   *)
(*     means which is in WindowToggle.                                     *)
(***************************************************************************)
EXTENDS Naturals, Sequences

CONSTANTS
    Sizes,      \* content heights
    FirstSize,  \* initialWindowHeight
    Away,       \* the parking position
    Between,    \* a position on the way, or below the screen
    Steps,      \* steps of a slide
    MaxMoves,   \* bound: shows and hides the user asks for
    MaxQueued   \* bound: what waits in a queue when the page posts

ASSUME WindowAssumption ==
    /\ FirstSize \in Sizes
    /\ Away \notin Sizes /\ Between \notin Sizes \cup {Away}
    /\ Steps \in Nat /\ MaxMoves \in Nat /\ MaxQueued \in Nat \ {0}

VARIABLES
    phase,       \* windowPhase
    pending,     \* pendingRequest
    prepId,      \* preparationID
    timer,       \* the preparation whose timer runs, 0 for none
    generation,  \* windowGeneration
    cancelled,   \* cancelledSlide
    size,        \* the window's size
    place,       \* where the window is
    slides,      \* the goroutines in animateY
    inbox,       \* functions dispatched to the UI thread
    said         \* what the last step evaluated in the page

\* History: a rectangle could not be read since the last slide-in.
VARIABLE blind

cycle == <<phase, pending, prepId, timer, generation>>
window == <<size, place, slides>>
goVars == <<cycle, cancelled, window, inbox, said, blind>>

-----------------------------------------------------------------------------
\* Types

Requests == {"none", "show", "settings"}

Slide(g, hiding, to) ==
    [generation |-> g, hiding |-> hiding, to |-> to, step |-> 0, at |-> "wait"]

\* Posted to the UI thread.
Resize(h) == [post |-> "resize", height |-> h]
Prepared(id, h) == [post |-> "prepared", id |-> id, height |-> h]
Expired(id) == [post |-> "expired", id |-> id]
Ended(s) == [post |-> "ended", generation |-> s.generation, hiding |-> s.hiding]

\* Evaluated in the page.
Shown(v) == [call |-> "shown", view |-> v]
Prepare(id, settings) == [call |-> "prepare", id |-> id, settings |-> settings]
Transition(active, g) == [call |-> "transition", active |-> active, generation |-> g]
OpenSettings == [call |-> "openSettings"]

Slides ==
    [generation : Nat, hiding : BOOLEAN, to : Sizes \cup {Away}, step : 0..Steps,
     at : {"wait", "check", "move", "end"}]

Posts ==
    [post : {"resize"}, height : Sizes]
    \cup [post : {"prepared"}, id : Nat, height : Sizes]
    \cup [post : {"expired"}, id : Nat]
    \cup [post : {"ended"}, generation : Nat, hiding : BOOLEAN]

TypeOK ==
    /\ phase \in {"parked", "visible", "hiding", "preparing"}
    /\ pending \in Requests
    /\ prepId \in Nat /\ timer \in Nat /\ generation \in Nat /\ cancelled \in Nat
    /\ size \in Sizes
    /\ place \in Sizes \cup {Away, Between}
    /\ slides \subseteq Slides
    /\ inbox \in Seq(Posts)
    /\ blind \in BOOLEAN

Init ==
    /\ phase = "parked" /\ pending = "none" /\ prepId = 0 /\ timer = 0
    /\ generation = 0 /\ cancelled = 0
    /\ size = FirstSize /\ place = Away
    /\ slides = {} /\ inbox = <<>> /\ said = <<>>
    /\ blind = FALSE

-----------------------------------------------------------------------------
\* Helpers of the UI thread

\* max of two requests.
Stronger(r, q) == IF "settings" \in {r, q} THEN "settings" ELSE r

Says(calls) == said' = calls
Silent == Says(<<>>)

\* slideIn for a window whose content height is now h.  Where the work area
\* or the window's rectangle cannot be read nothing moves.
SlideIn(v, h) ==
    /\ phase' = "visible"
    /\ pending' = "none"
    /\ generation' = generation + 1
    /\ size' = h
    /\ \/ /\ place' = Between
          /\ slides' = slides \cup {Slide(generation + 1, FALSE, h)}
          /\ Says(<<Transition(TRUE, generation + 1), Shown(v)>>)
          /\ blind' = FALSE
       \/ /\ Says(<<Transition(FALSE, generation + 1), Shown(v)>>)
          /\ blind' = TRUE
          /\ UNCHANGED <<place, slides>>
    /\ UNCHANGED <<prepId, cancelled>>

\* Mutant: the page is waited for without a limit.
BeginUntimed(r) ==
    /\ phase' = "preparing"
    /\ pending' = r
    /\ prepId' = prepId + 1
    /\ timer' = 0

\* beginPreparation with the request r pending.
BeginPreparation(r) ==
    /\ phase' = "preparing"
    /\ pending' = r
    /\ prepId' = prepId + 1
    /\ timer' = prepId + 1

\* Mutant: the page prepares the list whatever is asked for.
PrepareListCall(r) == Prepare(prepId + 1, FALSE)

PrepareCall(r) == Prepare(prepId + 1, r = "settings")

\* finishPreparation for a window whose content height is now h: a show that
\* waited is carried out.
FinishPreparation(h) ==
    /\ timer' = 0
    /\ \/ /\ pending = "none"
          /\ phase' = "parked"
          /\ size' = h
          /\ Silent
          /\ UNCHANGED <<pending, prepId, generation, cancelled, place, slides, blind>>
       \/ /\ pending # "none"
          /\ SlideIn(IF pending = "settings" THEN "settings" ELSE "main", h)

-----------------------------------------------------------------------------
\* requestWindow, by the phase that finds it

MoreMoves == generation < MaxMoves

Show ==
    /\ phase \in {"visible", "parked"}
    /\ SlideIn(IF phase = "visible" THEN "null" ELSE "main", size)
    /\ UNCHANGED <<timer, inbox>>

ShowSettingsOfVisible ==
    /\ phase = "visible"
    /\ Says(<<OpenSettings>>)
    /\ UNCHANGED <<cycle, cancelled, window, inbox, blind>>

\* The page gets Settings ready first; asked again if it is at the list.
ShowSettings ==
    /\ \/ phase = "parked"
       \/ phase = "preparing" /\ pending # "settings"
    /\ BeginPreparation("settings")
    /\ Says(<<PrepareCall("settings")>>)
    /\ UNCHANGED <<generation, cancelled, window, inbox, blind>>

ShowLater(want) ==
    /\ \/ phase = "hiding"
       \/ phase = "preparing" /\ (want = "show" \/ pending = "settings")
    /\ pending' = Stronger(want, pending)
    /\ Silent
    /\ UNCHANGED <<phase, prepId, timer, generation, cancelled, window, inbox, blind>>

-----------------------------------------------------------------------------
\* moveOffScreen.  When a rectangle cannot be read the window is parked at
\* once and the page asked to prepare.

Hide ==
    /\ phase = "visible"
    /\ generation' = generation + 1
    /\ \/ /\ phase' = "hiding"
          /\ pending' = "none"
          /\ slides' = slides \cup {Slide(generation + 1, TRUE, Away)}
          /\ Says(<<Transition(TRUE, generation + 1)>>)
          /\ UNCHANGED <<prepId, timer, place, blind>>
       \/ /\ BeginPreparation("none")
          /\ place' = Away
          /\ Says(<<Transition(FALSE, generation + 1), PrepareCall("none")>>)
          /\ blind' = TRUE
          /\ UNCHANGED slides
    /\ UNCHANGED <<cancelled, size, inbox>>

-----------------------------------------------------------------------------
\* animateY

\* animMu: at most one slide is under way.
Moving == {s \in slides : s.at # "wait"}

Goes(s, s2) == slides' = (slides \ {s}) \cup {s2}

StartSlide(s) ==
    /\ s.at = "wait" /\ Moving = {}
    /\ Goes(s, [s EXCEPT !.at = "check"])
    /\ Silent
    /\ UNCHANGED <<cycle, cancelled, size, place, inbox, blind>>

\* Mutant: the last step is not made.
OverEarly(s) == (~s.hiding /\ cancelled = s.generation) \/ s.step + 1 = Steps

\* A resize has overtaken the slide, or it has made all its steps.
Over(s) == (~s.hiding /\ cancelled = s.generation) \/ s.step = Steps

\* A replaced slide reports nothing; one that is over goes to its end.
CheckSlide(s) ==
    /\ s.at = "check"
    /\ \/ /\ s.generation # generation
          /\ slides' = slides \ {s}
       \/ /\ s.generation = generation
          /\ Goes(s, [s EXCEPT !.at = IF Over(s) THEN "end" ELSE "move"])
    /\ Silent
    /\ UNCHANGED <<cycle, cancelled, size, place, inbox, blind>>

MoveWindow(s) ==
    /\ s.at = "move"
    /\ Goes(s, [s EXCEPT !.at = "check", !.step = @ + 1])
    /\ place' = IF s.step + 1 = Steps /\ ~s.hiding THEN s.to ELSE Between
    /\ Silent
    /\ UNCHANGED <<cycle, cancelled, size, inbox, blind>>

\* Mutant: a hide parks the window and reports nothing.
EndUnreported(s) ==
    /\ s.at = "end"
    /\ slides' = slides \ {s}
    /\ place' = IF s.hiding THEN Away ELSE place
    /\ inbox' = IF s.hiding THEN inbox ELSE Append(inbox, Ended(s))
    /\ Silent
    /\ UNCHANGED <<cycle, cancelled, size, blind>>

EndSlide(s) ==
    /\ s.at = "end"
    /\ slides' = slides \ {s}
    /\ place' = IF s.hiding THEN Away ELSE place
    /\ inbox' = Append(inbox, Ended(s))
    /\ Silent
    /\ UNCHANGED <<cycle, cancelled, size, blind>>

-----------------------------------------------------------------------------
\* What the UI thread does with the functions dispatched to it

Takes(post) == inbox # <<>> /\ Head(inbox).post = post /\ inbox' = Tail(inbox)

\* Mutant: the end of a replaced slide counts.
AnyGeneration(m) == TRUE

\* The slide has not been replaced since it posted its end.
Current(m) == m.generation = generation

\* The end of a slide: the page is told, and a hide goes on to prepare it.
SlideEnded ==
    LET m == Head(inbox)
        done == Transition(FALSE, generation)
    IN  /\ Takes("ended")
        /\ \/ /\ ~Current(m)
              /\ Silent
              /\ UNCHANGED cycle
           \/ /\ Current(m) /\ m.hiding /\ phase = "hiding"
              /\ BeginPreparation(pending)
              /\ Says(<<done, PrepareCall(pending)>>)
              /\ UNCHANGED generation
           \/ /\ Current(m) /\ ~(m.hiding /\ phase = "hiding")
              /\ Says(<<done>>)
              /\ UNCHANGED cycle
        /\ UNCHANGED <<cancelled, window, blind>>

\* Mutant: a hidden window is moved too.
ResizeMovesHidden(h) == size # h /\ phase # "preparing"

\* Only a visible window whose size changed is moved.
ResizeMoves(h) == size # h /\ phase = "visible"

\* resizeToContent
ResizeToContent ==
    LET h == Head(inbox).height
        moves == ResizeMoves(h)
    IN  /\ Takes("resize")
        /\ size' = IF phase = "preparing" THEN size ELSE h
        /\ place' = IF moves THEN h ELSE place
        /\ cancelled' = IF moves THEN generation ELSE cancelled
        /\ Silent
        /\ UNCHANGED <<cycle, slides, blind>>

\* Mutant: the answer to any request counts.
AnyRequest(m) == TRUE

\* No newer request has replaced the one this answers, or gives up.
Latest(m) == m.id = prepId

\* completeWindowPreparation
CompletePreparation ==
    LET m == Head(inbox)
    IN  /\ Takes("prepared")
        /\ \/ /\ Latest(m) /\ phase = "preparing"
              /\ FinishPreparation(m.height)
           \/ /\ Latest(m) /\ phase = "parked"
              /\ size' = m.height
              /\ Silent
              /\ UNCHANGED <<cycle, cancelled, place, slides, blind>>
           \/ /\ ~Latest(m) \/ phase \notin {"preparing", "parked"}
              /\ Silent
              /\ UNCHANGED <<cycle, cancelled, window, blind>>

\* The timer fires: its function is dispatched.
TimerFires ==
    /\ timer # 0
    /\ timer' = 0
    /\ inbox' = Append(inbox, Expired(timer))
    /\ Silent
    /\ UNCHANGED <<phase, pending, prepId, generation, cancelled, window, blind>>

\* expirePreparation: the window keeps the size it has.
ExpirePreparation ==
    LET current == Latest(Head(inbox)) /\ phase = "preparing"
    IN  /\ Takes("expired")
        /\ \/ current /\ FinishPreparation(size)
           \/ ~current /\ Silent /\ UNCHANGED <<cycle, cancelled, window, blind>>

-----------------------------------------------------------------------------
\* What any page may post

PagePosts ==
    /\ Len(inbox) < MaxQueued
    /\ \E h \in Sizes :
          \/ inbox' = Append(inbox, Resize(h))
          \/ \E id \in 1..prepId : inbox' = Append(inbox, Prepared(id, h))
    /\ Silent
    /\ UNCHANGED <<cycle, cancelled, window, blind>>

-----------------------------------------------------------------------------
UserAsks ==
    /\ MoreMoves
    /\ \/ Show \/ ShowSettingsOfVisible \/ ShowSettings \/ Hide
       \/ \E want \in {"show", "settings"} : ShowLater(want)

UIThread ==
    SlideEnded \/ ResizeToContent \/ CompletePreparation \/ ExpirePreparation

Animate ==
    \E s \in slides : StartSlide(s) \/ CheckSlide(s) \/ MoveWindow(s) \/ EndSlide(s)

GoStep == UserAsks \/ UIThread \/ Animate \/ TimerFires

Next == GoStep \/ PagePosts

\* The UI thread's loop, the slides and the timer go on.  Nothing says that a
\* preparation is answered.
Fairness == WF_goVars(UIThread) /\ WF_goVars(Animate) /\ WF_goVars(TimerFires)

Spec == Init /\ [][Next]_goVars /\ Fairness

-----------------------------------------------------------------------------
\* Properties

\* A window counted as hidden is off-screen: no slide still under way and no
\* resize brings it back into view (comment of resizeToContent).
ParkedIsAway == phase \in {"parked", "preparing"} /\ ~blind => place = Away

\* The slide-in of the last show has ended and no resize overtook it.
SlidIn ==
    /\ phase = "visible" /\ ~blind /\ cancelled # generation
    /\ \A s \in slides : s.generation # generation

\* A slide-in ends in the corner of the size the window then has, whatever
\* slides it replaced.
EndsInCorner == SlidIn => place = size

\* A visible window at rest is in the tray corner, also when it was resized
\* while it slid in (comments of resizeToContent and of cancelledSlide).
RestsInCorner == phase = "visible" /\ ~blind /\ slides = {} => place = size

\* A hide comes to its end, and a show that had to wait is carried out,
\* whether the page answers or not (comment of preparationTimeout).
HideEnds == phase = "hiding" ~> phase # "hiding"
PendingIsShown == pending # "none" ~> phase = "visible"

=============================================================================
