--------------------------- MODULE PageCycle ---------------------------
(***************************************************************************)
(* The page of App.svelte with either window, that of WindowCycle or that  *)
(* of MacWindow: it takes the calls Go evaluates in it in order, at its    *)
(* own pace, resets itself while the window is parked, and answers.        *)
(*                                                                         *)
(* Simplifications: the answer carries any height, and the heights posted  *)
(* in between are WindowCycle's business; a modal is open or not; of the   *)
(* keyboard and the pointer only whether the page takes them.  On Windows  *)
(* a page that reports itself ready tells the tray, which is Launch's      *)
(* business.                                                               *)
(***************************************************************************)
EXTENDS MacWindow

CONSTANT MaxLoads  \* bound: times the page is loaded

ASSUME LoadsAssumption == MaxLoads \in Nat

VARIABLES
    mac,        \* the window is that of macOS
    calls,      \* calls on their way to the page
    loaded,     \* the page has its handlers
    loads,      \* how often it was loaded
    reported,   \* it has called notifyReady since it was loaded
    visible,    \* windowVisible
    view,       \* appState.view
    modal,      \* appState.modal is set
    prep,       \* preparation
    answering,  \* onWindowHidden is at one of its awaits
    shield,     \* windowTransitioning
    shieldGen   \* windowTransitionGeneration

\* History: the page has been told of a hide since it was loaded.
VARIABLE informed

loading == <<loaded, loads, reported>>
shown == <<visible, view, modal>>
preparing == <<prep, answering>>
shielding == <<shield, shieldGen>>
pageVars == <<calls, loading, shown, preparing, shielding, informed>>
vars == <<mac, goVars, startup, pageVars>>

-----------------------------------------------------------------------------
Views == {"main", "settings"}

PageInit ==
    /\ Init
    /\ mac \in BOOLEAN /\ MacInit /\ (~mac => startupRequest = "none")
    /\ calls = <<>>
    /\ loaded = FALSE /\ loads = 0 /\ reported = FALSE
    /\ visible = TRUE /\ view = "main" /\ modal = FALSE
    /\ prep = 0 /\ answering = FALSE
    /\ shield = FALSE /\ shieldGen = 0
    /\ informed = FALSE

-----------------------------------------------------------------------------
\* A step of Go: what it evaluates is on its way to the page.

WindowStep ==
    /\ \/ ~mac /\ GoStep /\ UNCHANGED startup
       \/ mac /\ MacStep
    /\ said' = <<OpenSettings>> => Len(calls) < MaxQueued
    /\ calls' = calls \o said'
    /\ UNCHANGED <<mac, loading, shown, preparing, shielding, informed>>

\* A step of the page leaves Go's state alone; posts are what it dispatches.
PageStep(posts) ==
    /\ inbox' = inbox \o posts
    /\ Silent
    /\ UNCHANGED <<mac, cycle, cancelled, window, blind, startup>>

-----------------------------------------------------------------------------
\* Loading

Loads ==
    /\ ~loaded /\ loads < MaxLoads
    /\ loaded' = TRUE
    /\ loads' = loads + 1
    /\ PageStep(<<>>)
    /\ UNCHANGED <<reported, calls, shown, preparing, shielding, informed>>

\* Its data have come: the page reports itself.
Reports ==
    /\ mac /\ loaded /\ ~reported
    /\ reported' = TRUE
    /\ PageStep(<<Ready>>)
    /\ UNCHANGED <<loaded, loads, calls, shown, preparing, shielding, informed>>

\* A reload starts from the initial state; the handlers come with the load.
Unloads ==
    /\ loaded
    /\ loaded' = FALSE /\ reported' = FALSE
    /\ visible' = TRUE /\ view' = "main" /\ modal' = FALSE
    /\ prep' = 0 /\ answering' = FALSE
    /\ shield' = FALSE /\ shieldGen' = 0 /\ informed' = FALSE
    /\ PageStep(<<>>)
    /\ UNCHANGED <<calls, loads>>

-----------------------------------------------------------------------------
\* The calls

Called(call) ==
    /\ loaded
    /\ calls # <<>> /\ Head(calls).call = call /\ calls' = Tail(calls)
    /\ PageStep(<<>>)
    /\ UNCHANGED loading

\* Without handlers a call does nothing.
CallIsLost ==
    /\ ~loaded /\ calls # <<>>
    /\ calls' = Tail(calls)
    /\ PageStep(<<>>)
    /\ UNCHANGED <<loading, shown, preparing, shielding, informed>>

\* Mutant: a modal keeps the page from noticing the show.
OnShownModalFirst ==
    /\ Called("shown")
    /\ visible' = (visible \/ ~modal)
    /\ view' = IF modal \/ Head(calls).view = "null" THEN view ELSE Head(calls).view
    /\ UNCHANGED <<modal, preparing, shielding, informed>>

\* A modal is left alone, with the view behind it.
OnWindowShown ==
    /\ Called("shown")
    /\ visible' = TRUE
    /\ view' = IF modal \/ Head(calls).view = "null" THEN view ELSE Head(calls).view
    /\ UNCHANGED <<modal, preparing, shielding, informed>>

\* Up to the first await.  resetAfterHide keeps a modal and the view behind
\* it; openSettings does not.
OnWindowHidden ==
    LET m == Head(calls)
    IN  /\ Called("prepare")
        /\ prep' = m.id
        /\ visible' = FALSE
        /\ view' = IF m.settings THEN "settings" ELSE IF modal THEN view ELSE "main"
        /\ modal' = (modal /\ ~m.settings)
        /\ answering' = TRUE
        /\ informed' = TRUE
        /\ UNCHANGED shielding

OnOpenSettings ==
    /\ Called("openSettings")
    /\ view' = "settings"
    /\ modal' = FALSE
    /\ UNCHANGED <<visible, preparing, shielding, informed>>

\* The end of a slide that a newer one replaced is ignored.
OnWindowTransition ==
    LET m == Head(calls)
    IN  /\ Called("transition")
        /\ shieldGen' = IF m.generation < shieldGen THEN shieldGen ELSE m.generation
        /\ shield' = IF m.generation < shieldGen THEN shield ELSE m.active
        /\ UNCHANGED <<shown, preparing, informed>>

\* Armed while the shield is up; each start of a transition rearms it.
Watchdog ==
    /\ shield
    /\ shield' = FALSE
    /\ PageStep(<<>>)
    /\ UNCHANGED <<calls, loading, shown, preparing, shieldGen, informed>>

-----------------------------------------------------------------------------
\* After its awaits, or when something in it throws, onWindowHidden answers; a
\* newer call has replaced an older one by then.
Answers ==
    /\ answering
    /\ answering' = FALSE
    /\ \E h \in Sizes : PageStep(<<Prepared(prep, h)>>)
    /\ UNCHANGED <<calls, loading, shown, prep, shielding, informed>>

-----------------------------------------------------------------------------
\* The user of a visible page: another view, a modal opened over the list.
\* A modal closes by hand, or when the save it waits for is done.

Turns ==
    /\ \/ loaded /\ visible /\ ~modal /\ view' \in Views /\ UNCHANGED modal
       \/ loaded /\ visible /\ ~modal /\ view = "main" /\ modal' = TRUE /\ UNCHANGED view
       \/ modal /\ modal' = FALSE /\ UNCHANGED view
    /\ PageStep(<<>>)
    /\ UNCHANGED <<calls, loading, visible, preparing, shielding, informed>>

-----------------------------------------------------------------------------
PageTakes ==
    \/ CallIsLost \/ OnWindowShown \/ OnWindowHidden \/ OnOpenSettings
    \/ OnWindowTransition

PageNext ==
    \/ WindowStep
    \/ Loads \/ Reports \/ Unloads
    \/ PageTakes \/ Watchdog
    \/ Answers
    \/ Turns

PageSpec == PageInit /\ [][PageNext]_vars

-----------------------------------------------------------------------------
\* Properties

\* What is shown was prepared off-screen: when the page is told which view it
\* is shown with, it is at that view already (comment of showSettings).
ShownAsPrepared ==
    calls # <<>> /\ Head(calls).call = "shown" /\ informed /\ loaded /\ ~modal =>
        Head(calls).view \in {"null", view}

\* An answer brings up the window only on a page that has prepared itself for
\* the request that waits: not on the late answer to one that was replaced
\* meanwhile (completeWindowPreparation).  A page that does not answer in time
\* is not waited for, and one loaded since has lost the request.
ShownWhenReady ==
    [][phase = "preparing" /\ phase' = "visible" /\ Takes("prepared") /\ informed =>
          /\ prep = prepId
          /\ ~visible
          /\ view = IF pending = "settings" THEN "settings" ELSE "main"]_vars

\* Once the page has taken every call, it takes keys exactly while the window
\* is up (App.svelte, ignoreKeysWhileParked).  One that has lost calls to a
\* reload may take them too long, but is never deaf.
KeysFollowWindow ==
    loaded /\ calls = <<>> =>
        /\ phase = "visible" => visible
        /\ informed /\ phase \in {"parked", "preparing"} => ~visible

\* While the slide of the last show or hide has the window to move, the page
\* that has taken every call keeps the pointer away; only its own watchdog may
\* give up earlier (App.svelte, onWindowTransition).
ShieldHolds ==
    [][shield /\ ~shield' /\ calls' # calls =>
          \A s \in slides : s.generation # shieldGen']_vars

=============================================================================
