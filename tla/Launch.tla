----------------------------- MODULE Launch -----------------------------
(***************************************************************************)
(* The life of CopyNote's processes on Windows (main_windows.go): the      *)
(* single-instance mutex, a second launch that asks the first one to show  *)
(* its window, the tray thread and the cold start, the shutdown, and the   *)
(* restart that starts another copy.                                       *)
(*                                                                         *)
(* A process has a main thread, which becomes the UI thread in w.Run, and  *)
(* a tray thread.  The threads share the tray's hwnd and ready flag, and   *)
(* post to each other: the tray's window messages, w.Dispatch.             *)
(*                                                                         *)
(* Simplifications:                                                        *)
(*   - starting up is one step: the profile, the service, the web view;    *)
(*   - what is dispatched behind a Terminate is dropped: if it runs at     *)
(*     all, it does so in a process that then ends;                        *)
(*   - show, toggle and settings are one request: they differ in what the  *)
(*     window then does;                                                   *)
(*   - the icon, its texts and the hotkey's registration are left out      *)
(*     (SettingsFlow has the registration);                                *)
(*   - a window that was asked for is on screen once the UI thread has     *)
(*     the request (WindowCycle has the rest).                             *)
(***************************************************************************)
EXTENDS Naturals, Sequences, FiniteSets

CONSTANTS
    MaxProcs,  \* bound: the processes of one behaviour
    MaxEvents  \* bound: its further launches, requests, reloads, failures

ASSUME LaunchAssumption == MaxProcs \in Nat /\ MaxEvents \in Nat

\* Numbered in the order they start.
Procs == 1..MaxProcs
NoProc == 0

VARIABLES
    at,       \* where the main thread is
    parent,   \* the process that relaunched this one
    handles,  \* processes with a handle of the mutex: it exists while there are any
    restart,  \* restartRequested
    ready,    \* Tray.ready
    ui,       \* functions dispatched to the UI thread
    tray,     \* the tray thread: where it is, its window, its fields
    box       \* the messages of the tray's window

\* History and bounds.
VARIABLES
    owed,    \* a request for the window the UI thread does not have yet
    missed,  \* SetReady or Stop found no tray window
    events

main == <<at, parent, handles, restart>>
threads == <<ready, ui, tray, box>>
vars == <<main, threads, owed, missed, events>>

-----------------------------------------------------------------------------
Stages ==
    {"off", "waits", "asks", "loads", "runs", "joins", "spawns", "leaves",
     "stuck", "gone", "refused"}
Ended == {"gone", "refused"}

\* Between Acquire and the release of the mutex.
Owning == {"loads", "runs", "joins"}

\* WebView2 has the user-data folder open.
UsingProfile == Owning \cup {"spawns", "leaves", "stuck"}

\* What WndProc does with a request it has read "ready" for.
Seen == {"nothing", "ready", "loading"}

NoTray == [at |-> "none", window |-> FALSE, quits |-> FALSE,
           pending |-> FALSE, saw |-> "nothing"]

LaunchTypeOK ==
    /\ at \in [Procs -> Stages]
    /\ parent \in [Procs -> Procs \cup {NoProc}]
    /\ restart \in [Procs -> BOOLEAN]
    /\ handles \in SUBSET Procs
    /\ ready \in [Procs -> BOOLEAN]
    /\ ui \in [Procs -> Seq({"show", "terminate"})]
    /\ tray \in [Procs -> [at : {"none", "starts", "adds", "loop", "done"},
                           window : BOOLEAN, quits : BOOLEAN,
                           pending : BOOLEAN, saw : Seen]]
    /\ box \in [Procs -> Seq({"show", "ready", "stop", "quit"})]
    /\ owed \in [Procs -> BOOLEAN] /\ missed \in [Procs -> BOOLEAN]
    /\ events \in Nat

Init ==
    /\ at = [p \in Procs |-> "off"]
    /\ parent = [p \in Procs |-> NoProc]
    /\ restart = [p \in Procs |-> FALSE]
    /\ handles = {}
    /\ ready = [p \in Procs |-> FALSE]
    /\ ui = [p \in Procs |-> <<>>]
    /\ tray = [p \in Procs |-> NoTray]
    /\ box = [p \in Procs |-> <<>>]
    /\ owed = [p \in Procs |-> FALSE] /\ missed = [p \in Procs |-> FALSE]
    /\ events = 0

-----------------------------------------------------------------------------
\* Helpers

Goes(p, stage) == at' = [at EXCEPT ![p] = stage]
Ending(p) == \E i \in DOMAIN ui[p] : ui[p][i] = "terminate"
Dispatch(p, f) ==
    ui' = IF at[p] = "runs" /\ ~Ending(p) THEN [ui EXCEPT ![p] = Append(@, f)] ELSE ui
Post(p, m) == box' = [box EXCEPT ![p] = Append(@, m)]
Happens == events < MaxEvents /\ events' = events + 1
NextUp(p) == at[p] = "off" /\ \A q \in Procs : q < p => at[q] # "off"

\* Windows takes back the handle, the windows and what was queued for them.
Ends(p) ==
    /\ Goes(p, "gone")
    /\ parent' = [parent EXCEPT ![p] = NoProc]
    /\ handles' = handles \ {p}
    /\ restart' = [restart EXCEPT ![p] = FALSE]
    /\ ready' = [ready EXCEPT ![p] = FALSE]
    /\ ui' = [ui EXCEPT ![p] = <<>>]
    /\ tray' = [tray EXCEPT ![p] = NoTray]
    /\ box' = [box EXCEPT ![p] = <<>>]
    /\ owed' = [owed EXCEPT ![p] = FALSE]
    /\ missed' = [missed EXCEPT ![p] = FALSE]

-----------------------------------------------------------------------------
\* Starting

\* Mutant: the mutex is not looked at.
AcquireAnyway(p) == handles' = handles \cup {p} /\ Goes(p, "loads")

\* A launch that finds the mutex keeps a handle of it all the same.
Acquire(p) ==
    /\ handles' = handles \cup {p}
    /\ Goes(p, IF handles = {} THEN "loads" ELSE "asks")

\* By the user, or by Windows at sign-in.
Launch(p) ==
    /\ NextUp(p)
    /\ Acquire(p)
    /\ IF p = 1 THEN UNCHANGED events ELSE Happens
    /\ UNCHANGED <<parent, restart, threads, owed, missed>>

\* The process named on the command line has exited, or is still there when
\* relaunchParentWait is up, which only one that hangs in its clean-up is.
ParentGone(p) == at[parent[p]] \in Ended \cup {"stuck"}

\* waitForRelaunchParent
WaitForParent(p) ==
    /\ at[p] = "waits"
    /\ ParentGone(p)
    /\ Acquire(p)
    /\ UNCHANGED <<parent, restart, threads, owed, missed, events>>

\* The parent cannot be opened or waited for, or takes longer than the wait:
\* the copy goes on all the same.
WaitFails(p) ==
    /\ at[p] = "waits" /\ Happens
    /\ Acquire(p)
    /\ UNCHANGED <<parent, restart, threads, owed, missed>>

\* The mutex, the executable's data, the page or the web view is not to be
\* had: the user is told and the process ends.
StartupFails(p) ==
    /\ at[p] = "loads"
    /\ Happens
    /\ Ends(p)

\* postToRunningTray: to the first tray window there is, whoever's.
AskRunning(p) ==
    /\ at[p] = "asks"
    /\ \E q \in Procs :
          /\ tray[q].window
          /\ Post(q, "show")
          /\ owed' = [owed EXCEPT ![q] = TRUE]
    /\ Goes(p, "refused")
    /\ handles' = handles \ {p}
    /\ UNCHANGED <<parent, restart, ready, ui, tray, missed, events>>

\* No tray window in all the time: the broadcast reaches none either.
GiveUp(p) ==
    /\ at[p] = "asks"
    /\ \A q \in Procs : ~tray[q].window
    /\ Goes(p, "refused")
    /\ handles' = handles \ {p}
    /\ UNCHANGED <<parent, restart, threads, owed, missed, events>>

\* The web view is up: the tray thread is started, the page loads, w.Run.
Load(p) ==
    /\ at[p] = "loads"
    /\ Goes(p, "runs")
    /\ tray' = [tray EXCEPT ![p].at = "starts"]
    /\ UNCHANGED <<parent, handles, restart, ready, ui, box, owed, missed, events>>

-----------------------------------------------------------------------------
\* The tray thread

\* Run returns, and main's goroutine terminates the web view.  A window that
\* was there stays.
TrayFails(p) ==
    /\ tray[p].at \in {"starts", "adds"}
    /\ tray' = [tray EXCEPT ![p].at = "done"]
    /\ Dispatch(p, "terminate")
    /\ Happens
    /\ UNCHANGED <<main, ready, box, owed, missed>>

CreateTrayWindow(p) ==
    /\ tray[p].at = "starts"
    /\ tray' = [tray EXCEPT ![p] = [@ EXCEPT !.at = "adds", !.window = TRUE]]
    /\ UNCHANGED <<main, ready, ui, box, owed, missed, events>>

\* The rest of setup: the icon, and for a launch by hand or a relaunched copy
\* (ShowOnStart) a pending request.
AddIcon(p) ==
    /\ tray[p].at = "adds"
    /\ \E hand \in BOOLEAN :
          /\ parent[p] # NoProc => hand
          /\ tray' = [tray EXCEPT ![p] = [@ EXCEPT !.at = "loop", !.pending = hand]]
          /\ owed' = [owed EXCEPT ![p] = @ \/ hand]
    /\ UNCHANGED <<main, ready, ui, box, missed, events>>

Pumps(p) == tray[p].at = "loop" /\ tray[p].saw = "nothing"
Receives(p, m) ==
    /\ Pumps(p) /\ box[p] # <<>> /\ Head(box[p]) = m
    /\ box' = [box EXCEPT ![p] = Tail(@)]

\* A click, the hotkey, a show request or a menu choice: ready is read ...
ReadReady(p) ==
    /\ Receives(p, "show")
    /\ tray' = [tray EXCEPT ![p].saw = IF ready[p] THEN "ready" ELSE "loading"]
    /\ UNCHANGED <<main, ready, ui, owed, missed, events>>

\* ... and the request passed on, or kept until the page is there.
Honour(p) ==
    /\ tray[p].saw # "nothing"
    /\ tray' = [tray EXCEPT ![p] =
                   [@ EXCEPT !.saw = "nothing",
                             !.pending = tray[p].pending \/ tray[p].saw = "loading"]]
    /\ IF tray[p].saw = "ready" THEN Dispatch(p, "show") ELSE UNCHANGED ui
    /\ UNCHANGED <<main, ready, box, owed, missed, events>>

\* Mutant: what was asked for during the cold start is forgotten.
ForgetPending(p) ==
    /\ Receives(p, "ready")
    /\ tray' = [tray EXCEPT ![p].pending = FALSE]
    /\ UNCHANGED <<main, ready, ui, owed, missed, events>>

\* msgSetReady
HonourPending(p) ==
    /\ Receives(p, "ready")
    /\ tray' = [tray EXCEPT ![p].pending = FALSE]
    /\ IF tray[p].pending THEN Dispatch(p, "show") ELSE UNCHANGED ui
    /\ UNCHANGED <<main, ready, owed, missed, events>>

\* msgStop: PostQuitMessage.
TrayStops(p) ==
    /\ Receives(p, "stop")
    /\ tray' = [tray EXCEPT ![p].quits = TRUE]
    /\ UNCHANGED <<main, ready, ui, owed, missed, events>>

\* The menu's Quit.
TrayQuits(p) ==
    /\ Receives(p, "quit")
    /\ tray' = [tray EXCEPT ![p].quits = TRUE]
    /\ Dispatch(p, "terminate")
    /\ UNCHANGED <<main, ready, owed, missed, events>>

\* WM_QUIT comes when the queue is empty.
TrayEnds(p) ==
    /\ Pumps(p) /\ tray[p].quits /\ box[p] = <<>>
    /\ tray' = [tray EXCEPT ![p] = [@ EXCEPT !.at = "done", !.window = FALSE]]
    /\ Dispatch(p, "terminate")
    /\ UNCHANGED <<main, ready, box, owed, missed, events>>

-----------------------------------------------------------------------------
\* The UI thread in w.Run

\* notifyReady, which a reloaded page calls again.
SetReady(p) ==
    /\ at[p] = "runs"
    /\ IF ready[p] THEN Happens ELSE UNCHANGED events
    /\ ready' = [ready EXCEPT ![p] = TRUE]
    /\ IF tray[p].window THEN Post(p, "ready") /\ UNCHANGED missed
       ELSE missed' = [missed EXCEPT ![p] = TRUE] /\ UNCHANGED box
    /\ UNCHANGED <<main, ui, tray, owed>>

\* restartApp, or a move of the executable.
RestartApp(p) ==
    /\ at[p] = "runs" /\ ready[p] /\ ~restart[p]
    /\ restart' = [restart EXCEPT ![p] = TRUE]
    /\ Dispatch(p, "terminate")
    /\ UNCHANGED <<at, parent, handles, ready, tray, box, owed, missed, events>>

TakeRequest(p) ==
    /\ at[p] = "runs" /\ ui[p] # <<>> /\ Head(ui[p]) = "show"
    /\ ui' = [ui EXCEPT ![p] = Tail(@)]
    /\ owed' = [owed EXCEPT ![p] = FALSE]
    /\ UNCHANGED <<main, ready, tray, box, missed, events>>

-----------------------------------------------------------------------------
\* Shutting down

\* Mutant: the tray is left to end by itself, as it does after Quit.
StopNothing(p) == UNCHANGED box

\* Stop, which does nothing without a window.
Stop(p) == IF tray[p].window THEN Post(p, "stop") ELSE UNCHANGED box

\* w.Run returns, and main stops the tray.
Terminate(p) ==
    /\ at[p] = "runs" /\ ui[p] # <<>> /\ Head(ui[p]) = "terminate"
    /\ Goes(p, "joins")
    /\ ui' = [ui EXCEPT ![p] = <<>>]
    /\ owed' = [owed EXCEPT ![p] = FALSE]
    /\ Stop(p)
    /\ missed' = [missed EXCEPT ![p] = @ \/ tray[p].at = "starts"]
    /\ UNCHANGED <<parent, handles, restart, ready, tray, events>>

\* Mutant: the mutex is left to the end of the process.
HandOverLate(p) ==
    /\ at[p] = "joins" /\ tray[p].at = "done"
    /\ Goes(p, IF restart[p] THEN "spawns" ELSE "leaves")
    /\ UNCHANGED <<parent, handles, restart, threads, owed, missed, events>>

\* Mutant: the mutex is freed for whoever comes next.
HandOverAlways(p) ==
    /\ at[p] = "joins" /\ tray[p].at = "done"
    /\ Goes(p, IF restart[p] THEN "spawns" ELSE "leaves")
    /\ handles' = handles \ {p}
    /\ UNCHANGED <<parent, restart, threads, owed, missed, events>>

\* trayDone; a restart frees the mutex before it starts the copy.
HandOver(p) ==
    /\ at[p] = "joins" /\ tray[p].at = "done"
    /\ Goes(p, IF restart[p] THEN "spawns" ELSE "leaves")
    /\ handles' = IF restart[p] THEN handles \ {p} ELSE handles
    /\ UNCHANGED <<parent, restart, threads, owed, missed, events>>

\* relaunch, which may fail.
Relaunch(p) ==
    /\ at[p] = "spawns"
    /\ \/ \E c \in Procs :
             /\ NextUp(c)
             /\ at' = [at EXCEPT ![p] = "leaves", ![c] = "waits"]
             /\ parent' = [parent EXCEPT ![c] = p]
       \/ Goes(p, "leaves") /\ UNCHANGED parent
    /\ UNCHANGED <<handles, restart, threads, owed, missed, events>>

\* What main has deferred: w.Destroy, the release of the mutex.
Leave(p) ==
    /\ at[p] = "leaves"
    /\ Ends(p)
    /\ UNCHANGED events

\* w.Destroy does not return.
GetStuck(p) ==
    /\ at[p] = "leaves"
    /\ Goes(p, "stuck")
    /\ Happens
    /\ UNCHANGED <<parent, handles, restart, threads, owed, missed>>

Kill(p) ==
    /\ at[p] \notin Ended \cup {"off"}
    /\ Happens
    /\ Ends(p)

-----------------------------------------------------------------------------
\* The user, at the icon and its menu, and with the hotkey.
UserAsks(p) ==
    /\ tray[p].at = "loop" /\ Happens
    /\ \/ Post(p, "show") /\ owed' = [owed EXCEPT ![p] = TRUE]
       \/ Post(p, "quit") /\ UNCHANGED owed
    /\ UNCHANGED <<main, ready, ui, tray, missed>>

-----------------------------------------------------------------------------
MainThread(p) ==
    \/ WaitForParent(p) \/ AskRunning(p) \/ GiveUp(p) \/ Load(p)
    \/ SetReady(p) \/ TakeRequest(p) \/ Terminate(p)
    \/ HandOver(p) \/ Relaunch(p) \/ Leave(p)

TrayThread(p) ==
    \/ CreateTrayWindow(p) \/ AddIcon(p)
    \/ ReadReady(p) \/ Honour(p) \/ HonourPending(p)
    \/ TrayStops(p) \/ TrayQuits(p) \/ TrayEnds(p)

Failure(p) == WaitFails(p) \/ StartupFails(p) \/ TrayFails(p) \/ GetStuck(p) \/ Kill(p)

Next ==
    \E p \in Procs :
        \/ MainThread(p) \/ TrayThread(p) \/ Failure(p)
        \/ Launch(p) \/ RestartApp(p) \/ UserAsks(p)

\* Threads go on, and a page that loads reports itself.  Nobody has to launch,
\* click, restart or fail.
Fairness == \A p \in Procs : WF_vars(MainThread(p)) /\ WF_vars(TrayThread(p))

Spec == Init /\ [][Next]_vars /\ Fairness

-----------------------------------------------------------------------------
\* Properties

\* One process at a time is past the single-instance check, and one at a time
\* has an icon and a hotkey: a copy is not let in before the tray of the last
\* one is down (comments of main, 1. and 12.).
OneInstance ==
    \A p, q \in Procs : p # q =>
        /\ ~(at[p] \in Owning /\ at[q] \in Owning)
        /\ ~(tray[p].at = "loop" /\ tray[q].at = "loop")

\* The mutex was freed for the copy that a restart starts.
HandedOver(p) == restart[p] /\ at[p] \in {"spawns", "leaves", "stuck"}

\* Two processes have the WebView2 folder open only around a restart: one that
\* quits keeps the mutex until w.Destroy has returned, whatever is launched
\* meanwhile (the order of main's deferred calls).
ProfileIsHandedOver ==
    \A p, q \in Procs :
        p # q /\ at[p] \in UsingProfile /\ at[q] \in UsingProfile =>
            HandedOver(p) \/ HandedOver(q)

\* "The old process should be gone first: until it is, its WebView2 still has
\* the user-data directory open, and starting both at once has made the new
\* copy fail" (waitForRelaunchParent): not even then, unless one hangs.
OldIsGoneFirst ==
    \A p, q \in Procs :
        p # q /\ at[p] \in UsingProfile /\ at[q] \in UsingProfile =>
            at[p] = "stuck" \/ at[q] = "stuck"

\* No request reaches the UI thread before the page has reported itself: a
\* window is not slid in blank (comment of pendingRequest).
NoBlankWindow ==
    \A p \in Procs : \A i \in DOMAIN ui[p] : ui[p][i] = "show" => ready[p]

\* A request is neither dropped nor left waiting, whenever it comes: a click,
\* a second launch, the start itself (comment of pendingRequest).  Except when
\* the page was ready before the tray had a window.
RequestIsSeen ==
    \A p \in Procs : owed[p] ~> ~owed[p] \/ at[p] # "runs" \/ missed[p]

\* Once the UI thread's loop has ended, so does the process, whoever ended it:
\* main waits for the tray, and Stop reaches it.  Except when the tray has not
\* got its window yet.
ShutdownEnds ==
    \A p \in Procs : at[p] = "joins" ~> at[p] \in Ended \cup {"stuck"} \/ missed[p]

\* A restart comes back: the copy runs even if the one that started it is
\* stuck, and is only ever refused for a launch that came in between (comment
\* of relaunchParentWait).
RestartComesBack ==
    \A p \in Procs : at[p] = "waits" ~>
        \/ at[p] \in {"runs", "gone"}
        \/ at[p] = "asks" /\ handles \ {p, parent[p]} # {}

=============================================================================
