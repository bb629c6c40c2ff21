--------------------------- MODULE MacWindow ---------------------------
(***************************************************************************)
(* The window of macOS (window_darwin.go): the cycle of WindowCycle        *)
(* without the slides, all of it on the main thread, and the requests that *)
(* wait for the page at the start (main_darwin.go).  It has the variables  *)
(* of WindowCycle, so that the page of PageCycle works with either.        *)
(*                                                                         *)
(* Simplifications:                                                        *)
(*   - a window put away is ordered out: its place is Away, and on screen  *)
(*     it is Between, for AppKit keeps it under the menu bar;              *)
(*   - generation counts shows and hides, as a bound only;                 *)
(*   - whether the window has the keyboard, and how long ago it was shown, *)
(*     is left open: toggleWindow and onResignActive may do either.        *)
(***************************************************************************)
EXTENDS WindowCycle

VARIABLES
    uiReady,         \* the page has reported itself
    startupRequest   \* what waits for that

startup == <<uiReady, startupRequest>>

\* Started by hand, the window comes up as soon as the page is ready.
MacInit == uiReady = FALSE /\ startupRequest \in {"none", "show"}

Ready == [post |-> "ready"]

\* What a step of this window leaves alone.
NoSlides == UNCHANGED <<cancelled, slides, blind>>

WindowRests == NoSlides /\ UNCHANGED <<cycle, size, place>>

-----------------------------------------------------------------------------
\* requestWindow

BringUp(request) ==
    /\ phase' = "visible" /\ pending' = "none"
    /\ generation' = generation + 1
    /\ place' = Between
    /\ Says(<<Shown(IF request = "settings" THEN "settings" ELSE "main")>>)
    /\ UNCHANGED prepId

\* Asked for Settings, the page prepares that view first.
Prepares(request) ==
    /\ BeginPreparation(request)
    /\ Says(<<PrepareCall(request)>>)

RequestWindow(want) ==
    /\ \/ /\ phase = "visible" /\ want = "show"
          /\ generation' = generation + 1
          /\ Says(<<Shown("null")>>)
          /\ UNCHANGED <<phase, pending, prepId, timer, place>>
       \/ /\ phase = "visible" /\ want = "settings"
          /\ Says(<<OpenSettings>>)
          /\ UNCHANGED <<cycle, place>>
       \/ /\ phase = "parked" /\ want = "show"
          /\ BringUp(want)
          /\ UNCHANGED timer
       \/ /\ \/ phase = "parked"
             \/ phase = "preparing" /\ pending # "settings"
          /\ want = "settings"
          /\ Prepares(want)
          /\ UNCHANGED <<generation, place>>
       \/ /\ phase = "preparing" /\ (want = "show" \/ pending = "settings")
          /\ pending' = Stronger(want, pending)
          /\ Silent
          /\ UNCHANGED <<phase, prepId, timer, generation, place>>
    /\ NoSlides /\ UNCHANGED size

HideWindow ==
    /\ phase = "visible"
    /\ generation' = generation + 1
    /\ place' = Away
    /\ Prepares("none")
    /\ NoSlides /\ UNCHANGED size

-----------------------------------------------------------------------------
\* What the user does

\* The menu, a second launch, reopening the app.  Before the page is ready it
\* waits.
UserRequest(want) ==
    /\ MoreMoves
    /\ \/ /\ uiReady
          /\ RequestWindow(want)
          /\ UNCHANGED startup
       \/ /\ ~uiReady
          /\ startupRequest' = Stronger(want, startupRequest)
          /\ Silent /\ WindowRests
          /\ UNCHANGED uiReady
    /\ UNCHANGED inbox

\* A click on the icon, the hotkey.  A window that has not the keyboard is
\* only brought forward.
UserToggle ==
    \/ phase # "visible" /\ UserRequest("show")
    \/ MoreMoves /\ HideWindow /\ UNCHANGED <<inbox, startup>>

\* Auto-hide; the page's own hide does the same at any time.
ResignActive == MoreMoves /\ HideWindow /\ UNCHANGED <<inbox, startup>>

-----------------------------------------------------------------------------
\* What is posted to the main thread

FinishMac ==
    /\ timer' = 0
    /\ \/ /\ pending = "none" /\ phase' = "parked"
          /\ Silent
          /\ UNCHANGED <<pending, prepId, generation, place>>
       \/ pending # "none" /\ BringUp(pending)

\* completeWindowPreparation, with the height the page answers.
MacPrepared ==
    LET m == Head(inbox)
        current == Latest(m)
    IN  /\ Takes("prepared")
        /\ size' = IF current /\ phase # "visible" THEN m.height ELSE size
        /\ \/ current /\ phase = "preparing" /\ FinishMac
           \/ ~(current /\ phase = "preparing") /\ Silent /\ UNCHANGED <<cycle, place>>
        /\ NoSlides /\ UNCHANGED startup

\* expirePreparation
MacExpires ==
    LET current == Latest(Head(inbox)) /\ phase = "preparing"
    IN  /\ Takes("expired")
        /\ \/ current /\ FinishMac
           \/ ~current /\ Silent /\ UNCHANGED <<cycle, place>>
        /\ NoSlides /\ UNCHANGED <<size, startup>>

\* resizeToContent
MacResize ==
    /\ Takes("resize")
    /\ size' = IF phase = "preparing" THEN size ELSE Head(inbox).height
    /\ Silent
    /\ NoSlides /\ UNCHANGED <<cycle, place, startup>>

\* notifyReady; a page loaded again reports itself again.
NotifyReady ==
    /\ Takes("ready")
    /\ uiReady' = TRUE
    /\ startupRequest' = "none"
    /\ \/ startupRequest # "none" /\ RequestWindow(startupRequest)
       \/ startupRequest = "none" /\ Silent /\ WindowRests

-----------------------------------------------------------------------------
MacStep ==
    \/ \E want \in {"show", "settings"} : UserRequest(want)
    \/ UserToggle \/ ResignActive
    \/ MacPrepared \/ MacExpires \/ MacResize \/ NotifyReady
    \/ TimerFires /\ UNCHANGED startup

=============================================================================
