-------------------------- MODULE WindowToggle --------------------------
(***************************************************************************)
(* Who has the foreground, and what it does to the window of WindowCycle:  *)
(* auto-hide (WM_ACTIVATEAPP in installSubclass), and what a click on the  *)
(* tray icon or the hotkey means (toggleVisibility, decideToggle).         *)
(*                                                                         *)
(* A press of the icon takes the foreground from the window: the shell     *)
(* delivers the click.  By the time the click has found its way through    *)
(* the tray thread to the UI thread the window is no longer as the user    *)
(* saw it, and the last deactivation has to explain it.                    *)
(*                                                                         *)
(* Simplifications:                                                        *)
(*   - the window hears at once that it lost the foreground: what Windows  *)
(*     sends is handled before anything that waits in a queue;             *)
(*   - between a press and its handling neither the user nor another       *)
(*     program does anything else;                                         *)
(*   - who has the foreground is followed while the window is on screen:   *)
(*     nothing reads it otherwise;                                         *)
(*   - the popup and the file dialogs, of the window's thread, are the     *)
(*     window;                                                             *)
(*   - auto-hide is on or off for good.                                    *)
(***************************************************************************)
EXTENDS WindowCycle

CONSTANT MaxSwitches  \* bound: shows and hides before the last loss or press

ASSUME SwitchesAssumption == MaxSwitches \in Nat

VARIABLES
    user,   \* where the user works: "ours" or "other"
    shell,  \* the taskbar or its flyout has the foreground he had there
    hides,  \* not autoHideDisabled
    fresh,  \* within hideGuardWindow of lastShownNS
    lost,   \* lastDeactivation, and how long ago it was
    click   \* a press the UI thread has not handled yet

focus == <<user, shell, fresh>>
vars == <<goVars, focus, hides, lost, click>>

\* How long ago: "now" is within toggleDebounce, "recent" within
\* trayReachWindow.  What is older explains nothing.
NoLoss == [age |-> "none", toShell |-> FALSE, hid |-> FALSE]

NoClick == [tray |-> FALSE, meant |-> "none"]

ToggleInit ==
    /\ Init
    /\ user = "other" /\ shell = FALSE /\ fresh = FALSE
    /\ hides \in BOOLEAN
    /\ lost = NoLoss /\ click = NoClick

-----------------------------------------------------------------------------
\* The foreground

\* ownsForeground
Ours == user = "ours" /\ ~shell

\* The window is brought to the foreground; Windows may refuse it.
SetForeground == (user' = "ours" /\ shell' = FALSE) \/ UNCHANGED <<user, shell>>

Followed == phase = "visible" /\ (generation <= MaxSwitches \/ click # NoClick)

OffScreen == user' = "other" /\ shell' = FALSE /\ fresh' = FALSE

\* What a step of the window means for the foreground: slideIn asks for it
\* and starts the guard, and so does opening Settings without the guard.
Follows ==
    LET shows == generation' # generation
    IN  \/ ~Followed' /\ OffScreen
        \/ /\ Followed'
           /\ fresh' = (shows \/ fresh)
           /\ IF shows \/ said' = <<OpenSettings>>
              THEN SetForeground ELSE UNCHANGED <<user, shell>>

\* WM_ACTIVATEAPP, activated: what happened before no longer explains a click.
Activated == lost' = IF (Ours' /\ ~Ours) \/ generation' > MaxSwitches THEN NoLoss ELSE lost

WindowStays == Silent /\ UNCHANGED <<cycle, cancelled, window, inbox, blind>>

\* WM_ACTIVATEAPP, deactivated: another thread takes the foreground.
Deactivated(toShell) ==
    IF Ours /\ phase = "visible" /\ ~fresh
    THEN /\ lost' = [age |-> "now", toShell |-> toShell, hid |-> hides]
         /\ IF hides THEN Hide ELSE WindowStays
    ELSE lost' = lost /\ WindowStays

\* The foreground goes to the shell, or to another program.
Loses(toShell) ==
    /\ Deactivated(toShell)
    /\ \/ phase' # "visible" /\ OffScreen
       \/ /\ phase' = "visible"
          /\ shell' = (toShell /\ user = "ours")
          /\ user' = IF toShell THEN user ELSE "other"
          /\ UNCHANGED fresh

-----------------------------------------------------------------------------
\* The user and the other programs

MoreSwitches == generation < MaxSwitches

TakesOver ==
    /\ click = NoClick /\ MoreSwitches
    /\ phase = "visible" /\ user = "ours"
    /\ \/ Loses(TRUE) /\ ~shell
       \/ Loses(FALSE)
    /\ UNCHANGED <<hides, click>>

\* A click on the window.
ComesBack ==
    /\ click = NoClick /\ phase = "visible" /\ ~Ours
    /\ user' = "ours" /\ shell' = FALSE
    /\ Activated
    /\ WindowStays
    /\ UNCHANGED <<hides, fresh, click>>

TimePasses ==
    /\ \/ fresh /\ fresh' = FALSE /\ UNCHANGED lost
       \/ /\ lost.age = "now" /\ lost' = [lost EXCEPT !.age = "recent"]
          /\ UNCHANGED fresh
       \/ lost.age = "recent" /\ lost' = NoLoss /\ fresh' = FALSE
    /\ WindowStays
    /\ UNCHANGED <<user, shell, hides, click>>

\* What the user wants of the window as it is before the press.  Where he has
\* only just asked for it, or seen it go, a press is the rest of that.  The
\* way to the icon leads over the shell; the hotkey is pressed where he works.
Meant(tray) ==
    IF fresh \/ lost.age = "now" \/ (phase # "visible" /\ pending # "none") THEN "either"
    ELSE IF phase # "visible" THEN "open"
    ELSE IF user = "ours" /\ (tray \/ ~shell) THEN "close" ELSE "front"

PressIcon ==
    /\ click = NoClick /\ MoreSwitches
    /\ click' = [tray |-> TRUE, meant |-> Meant(TRUE)]
    /\ Loses(TRUE)
    /\ UNCHANGED hides

PressHotkey ==
    /\ click = NoClick /\ MoreSwitches
    /\ click' = [tray |-> FALSE, meant |-> Meant(FALSE)]
    /\ WindowStays
    /\ UNCHANGED <<focus, hides, lost>>

-----------------------------------------------------------------------------
\* The press reaches the UI thread

\* Mutant: a click that finds the window hidden always shows it.
DecideAtOnce ==
    IF phase # "visible" THEN "show"
    ELSE IF Ours \/ (click.tray /\ lost.toShell) THEN "hide"
    ELSE "focus"

\* decideToggle
Decision ==
    IF phase # "visible"
    THEN IF click.tray /\ lost.hid /\ lost.age = "now" THEN "nothing" ELSE "show"
    ELSE IF Ours \/ (click.tray /\ lost.toShell) THEN "hide"
    ELSE "focus"

\* toggleVisibility: one deactivation explains one click.
ToggleVisibility ==
    /\ click # NoClick /\ click' = NoClick
    /\ lost' = NoLoss
    /\ \/ Decision = "nothing" /\ WindowStays /\ UNCHANGED focus
       \/ Decision = "show" /\ (Show \/ ShowLater("show")) /\ Follows
       \/ Decision = "hide" /\ Hide /\ Follows
       \/ Decision = "focus" /\ WindowStays /\ SetForeground /\ UNCHANGED fresh
    /\ UNCHANGED hides

-----------------------------------------------------------------------------
Beside == UNCHANGED <<hides, click>> /\ Follows /\ Activated

UserStep == click = NoClick /\ UserAsks /\ Beside
UIStep == UIThread /\ Beside
SlideStep == Animate /\ Beside
TimerStep == TimerFires /\ Beside
PageStep == PagePosts /\ Beside

ToggleNext ==
    \/ UserStep \/ UIStep \/ SlideStep \/ TimerStep \/ PageStep
    \/ TakesOver \/ ComesBack \/ TimePasses
    \/ PressIcon \/ PressHotkey \/ ToggleVisibility

\* As in WindowCycle: the UI thread's loop, the slides and the timer go on.
ToggleFairness == WF_vars(UIStep) /\ WF_vars(SlideStep) /\ WF_vars(TimerStep)

ToggleSpec == ToggleInit /\ [][ToggleNext]_vars /\ ToggleFairness

-----------------------------------------------------------------------------
\* Properties

\* The click arrives while what it caused is still known: within the debounce
\* when auto-hide put the window away, within trayReachWindow otherwise.
InTime ==
    IF ~click.tray THEN TRUE
    ELSE IF hides THEN lost.age = "now" ELSE lost.age # "none"

\* A press does what the user meant by it when he saw the window: it opens a
\* hidden window, closes the one he worked in, although by then auto-hide may
\* have put it away or the shell has its foreground, and brings forward one
\* that was on screen behind another program (comments of decideToggle and of
\* toggleDebounce).  Excepted are a click that comes too late, and a window
\* left for another program by way of the taskbar moments ago, which is taken
\* for one left for the icon.
Answered ==
    /\ click.meant = "open" => phase' = "visible" \/ pending' # "none"
    /\ click.meant = "close" /\ InTime => phase' # "visible" /\ pending' = "none"
    /\ click.meant = "front" /\ ~lost.toShell => phase' = "visible"

ClickIsMeant == [][click # NoClick /\ click' = NoClick => Answered]_vars

=============================================================================
