-------------------------- MODULE SelfUpdate ---------------------------
(***************************************************************************)
(* The update of CopyNote by itself (update.go, internal/updater) on top   *)
(* of the bridge that runs it: the install worker, the program's file with *)
(* its companions .new and .old, the page's button (updates.ts), quitting, *)
(* restarting, being killed, and the start after that with its clean-up.   *)
(*                                                                         *)
(* Simplifications:                                                        *)
(*   - a version is a number; a file that does not carry the release's     *)
(*     signature is Bad, whether cut short or forged;                      *)
(*   - the asset is the program itself, as on Windows; the bundle unpacked *)
(*     on macOS is a longer way to the same .new;                          *)
(*   - an operation that is retried for a while has failed or succeeded;   *)
(*   - a check for updates is one step at any time, and the page knows its *)
(*     result;                                                             *)
(*   - the lock that keeps a second process out is left out here.          *)
(***************************************************************************)
EXTENDS AsyncBridge

CONSTANTS
    None,        \* no file, no release
    Bad,         \* a file without the release's signature
    MaxVersion,  \* bound: releases
    MaxStarts,   \* bound: processes started one after another
    Posix        \* the file of a running program can be deleted

ASSUME UpdateAssumption ==
    /\ MaxVersion \in Nat \ {0} /\ MaxStarts \in Nat \ {0} /\ Posix \in BOOLEAN
    /\ {None, Bad} \cap Nat = {} /\ None # Bad

VARIABLES
    files,             \* the program's path, .new and .old
    running,           \* version of the running process
    image,             \* where its file is now: "exe", "old" or "none"
    latest,            \* latestRelease
    installing,        \* installing
    updateReady,       \* updateReady
    restartRequested,  \* restartRequested
    page,              \* kind of state.updateInstall
    cleaning,          \* RemovePrevious is trying
    starts             \* processes started so far

\* History: the last process was killed, or could not move its file back.
VARIABLE mishap

flags == <<installing, updateReady, restartRequested>>
process == <<running, cleaning, starts>>
vars == <<bridgeVars, files, process, image, latest, flags, page, mishap>>

-----------------------------------------------------------------------------
\* Types

Versions == 0..MaxVersion
Content == Versions \cup {None, Bad}
Files == [exe : Content, new : Content, old : Content]

\* What a worker is at, the release it has read, and how it has ended.
Steps == {"begin", "check", "take", "download", "verify", "clear", "aside",
          "swap", "back", "undo", "ready", "release", "send"}
Jobs == [at : Steps, info : Versions \cup {None}, result : {"ok", "error"}]
Job(at, info, result) == [at |-> at, info |-> info, result |-> result]

\* Past the flag that keeps other workers out.
Installers ==
    {w \in workers : w.job.at \notin {"begin", "check", "take", "send"}}

UpdateTypeOK ==
    /\ BridgeTypeOK(Jobs, {"ok", "error"})
    /\ files \in Files
    /\ running \in Versions /\ image \in {"exe", "old", "none"}
    /\ latest \in Versions \cup {None} /\ (latest # None => latest > running)
    /\ installing \in BOOLEAN /\ updateReady \in BOOLEAN /\ restartRequested \in BOOLEAN
    /\ cleaning \in BOOLEAN /\ mishap \in BOOLEAN
    /\ page \in {"idle", "installing", "restarting", "failed"}
    /\ starts \in 1..MaxStarts

\* Version 1 has been installed, or has been started by an update of 0.
Init ==
    /\ Fresh
    /\ files \in [exe : {1}, new : {None}, old : {None, 0}]
    /\ running = 1 /\ image = "exe" /\ latest = None
    /\ installing = FALSE /\ updateReady = FALSE /\ restartRequested = FALSE
    /\ page = "idle" /\ cleaning = TRUE /\ starts = 1 /\ mishap = FALSE

-----------------------------------------------------------------------------
\* The page (updates.ts)

\* checkForUpdates, forceCheckForUpdates
Check ==
    /\ ui = "loop"
    /\ \E v \in Versions : v > running /\ latest' = v
    /\ page' = IF page = "failed" THEN "idle" ELSE page
    /\ UNCHANGED <<bridgeVars, files, process, image, flags, mishap>>

InstallUpdate ==
    /\ latest # None /\ page \in {"idle", "failed"}
    /\ Calling
    /\ page' = "installing"
    /\ UNCHANGED <<files, process, image, latest, flags, mishap>>

TimesOut ==
    /\ \E id \in pending : TimingOut(id)
    /\ page' = "failed"
    /\ UNCHANGED <<files, process, image, latest, flags, mishap>>

Reload ==
    /\ Reloading
    /\ page' = "idle"
    /\ UNCHANGED <<files, process, image, latest, flags, mishap>>

\* The answer of a worker settles a promise, or is dropped.
Finish ==
    /\ Finishing
    /\ page' = IF ~Awaited(Head(finishes)) THEN page
               ELSE IF Head(finishes).result = "ok" THEN "restarting" ELSE "failed"
    /\ UNCHANGED <<files, process, image, latest, flags, mishap>>

\* restartApp
RestartApp ==
    /\ page = "restarting" /\ ui = "loop"
    /\ IF updateReady
       THEN Stopping /\ restartRequested' = TRUE /\ page' = "idle"
       ELSE UNCHANGED <<bridgeVars, restartRequested>> /\ page' = "failed"
    /\ UNCHANGED <<files, process, image, latest, installing, updateReady, mishap>>

-----------------------------------------------------------------------------
\* The worker of installUpdate

StartWorker ==
    /\ Starting(Job("begin", None, "error"))
    /\ UNCHANGED <<files, process, image, latest, flags, page, mishap>>

\* The worker at the step from goes on to the step to.
Goes(w, from, to) ==
    /\ w.job.at = from
    /\ Becomes(w, [w.job EXCEPT !.at = to])

ReadRelease(w) ==
    /\ w.job.at = "begin"
    /\ Becomes(w, Job("check", latest, "error"))
    /\ UNCHANGED <<files, process, image, latest, flags, page, mishap>>

CheckReady(w) ==
    /\ Goes(w, "check", IF updateReady THEN "send" ELSE "take")
    /\ UNCHANGED <<files, process, image, latest, flags, page, mishap>>

\* Mutant: the flag is set and not tested.
TakeAnyway(w) ==
    /\ Goes(w, "take", "download")
    /\ installing' = TRUE
    /\ UNCHANGED <<files, process, image, latest, updateReady, restartRequested, page, mishap>>

\* installing.CompareAndSwap
Take(w) ==
    /\ Goes(w, "take", IF installing THEN "send" ELSE "download")
    /\ installing' = TRUE
    /\ UNCHANGED <<files, process, image, latest, updateReady, restartRequested, page, mishap>>

\* The download ends, well or not, or the context is cancelled.
Download(w) ==
    /\ \/ /\ Goes(w, "download", "verify")
          /\ files' = [files EXCEPT !.new = w.job.info]
       \/ /\ Goes(w, "download", "verify")
          /\ files' = [files EXCEPT !.new = Bad]
       \/ /\ Goes(w, "download", "undo")
          /\ \E left \in {files.new, Bad, None} : files' = [files EXCEPT !.new = left]
    /\ UNCHANGED <<process, image, latest, flags, page, mishap>>

\* Mutant: whatever was downloaded is taken.
VerifyNothing(w) ==
    /\ Goes(w, "verify", "clear")
    /\ UNCHANGED <<files, process, image, latest, flags, page, mishap>>

\* verifyFile; reading the file may fail too.
Verify(w) ==
    /\ \/ files.new = w.job.info /\ Goes(w, "verify", "clear")
       \/ Goes(w, "verify", "undo")
    /\ UNCHANGED <<files, process, image, latest, flags, page, mishap>>

\* Windows does not delete the file of a running program.
Deletable == Posix \/ image # "old"

\* An earlier .old is in the way of the swap.
ClearPrevious(w) ==
    /\ \/ /\ files.old = None \/ Deletable
          /\ Goes(w, "clear", "aside")
          /\ files' = [files EXCEPT !.old = None]
          /\ image' = IF image = "old" THEN "none" ELSE image
       \/ /\ files.old # None
          /\ Goes(w, "clear", "undo")
          /\ UNCHANGED <<files, image>>
    /\ UNCHANGED <<process, latest, flags, page, mishap>>

MoveAside(w) ==
    /\ \/ /\ Goes(w, "aside", "swap")
          /\ files' = [files EXCEPT !.old = files.exe, !.exe = None]
          /\ image' = IF image = "exe" THEN "old" ELSE image
       \/ /\ Goes(w, "aside", "undo")
          /\ UNCHANGED <<files, image>>
    /\ UNCHANGED <<process, latest, flags, page, mishap>>

Swap(w) ==
    /\ \/ /\ Goes(w, "swap", "ready")
          /\ files' = [files EXCEPT !.exe = files.new, !.new = None]
       \/ /\ Goes(w, "swap", "back")
          /\ UNCHANGED files
    /\ UNCHANGED <<process, image, latest, flags, page, mishap>>

\* The version moved aside is moved back; that may fail too.
MoveBack(w) ==
    /\ Goes(w, "back", "undo")
    /\ \/ /\ files.old # None
          /\ files' = [files EXCEPT !.exe = files.old, !.old = None]
          /\ image' = IF image = "old" THEN "exe" ELSE image
          /\ UNCHANGED mishap
       \/ /\ mishap' = TRUE
          /\ UNCHANGED <<files, image>>
    /\ UNCHANGED <<process, latest, flags, page>>

\* Mutant: .old counts as left of a failed install.
UndoAll(w) ==
    /\ Goes(w, "undo", "release")
    /\ files' = [files EXCEPT !.new = None, !.old = None]
    /\ UNCHANGED <<process, image, latest, flags, page, mishap>>

\* What is left of a failed install is deleted, if it can be.
Undo(w) ==
    /\ Goes(w, "undo", "release")
    /\ files' \in {files, [files EXCEPT !.new = None]}
    /\ UNCHANGED <<process, image, latest, flags, page, mishap>>

\* Mutant: the flag comes after the answer.
ReadyLater(w) ==
    /\ w.job.at = "ready"
    /\ Becomes(w, Job("release", w.job.info, "ok"))
    /\ UNCHANGED <<files, process, image, latest, flags, page, mishap>>

Ready(w) ==
    /\ w.job.at = "ready"
    /\ Becomes(w, Job("release", w.job.info, "ok"))
    /\ updateReady' = TRUE
    /\ UNCHANGED <<files, process, image, latest, installing, restartRequested, page, mishap>>

Release(w) ==
    /\ Goes(w, "release", "send")
    /\ installing' = FALSE
    /\ UNCHANGED <<files, process, image, latest, updateReady, restartRequested, page, mishap>>

\* Mutant: a failure is only logged.
SendSuccess(w) ==
    /\ w.job.at = "send"
    /\ IF w.job.result = "ok"
       THEN Sending(w, "ok")
       ELSE /\ workers' = workers \ {w}
            /\ UNCHANGED <<load, next, pending, kicks, finishes, ui>>
    /\ UNCHANGED <<files, process, image, latest, flags, page, mishap>>

SendAnswer(w) ==
    /\ w.job.at = "send"
    /\ Sending(w, w.job.result)
    /\ UNCHANGED <<files, process, image, latest, flags, page, mishap>>

WorkerStep(w) ==
    \/ ReadRelease(w) \/ CheckReady(w) \/ Take(w)
    \/ Download(w) \/ Verify(w)
    \/ ClearPrevious(w) \/ MoveAside(w) \/ Swap(w) \/ MoveBack(w)
    \/ Undo(w) \/ Ready(w) \/ Release(w) \/ SendAnswer(w)

-----------------------------------------------------------------------------
\* The process

\* Quit in the tray's menu.
Quit ==
    /\ Stopping
    /\ page' = "idle"
    /\ UNCHANGED <<files, process, image, latest, flags, mishap>>

\* The memory of a process goes with it.
Forgotten ==
    /\ latest' = None /\ page' = "idle"
    /\ installing' = FALSE /\ updateReady' = FALSE

\* main goes on after the loop and ends.
End ==
    /\ Closing /\ Forgotten
    /\ cleaning' = FALSE
    /\ UNCHANGED <<files, running, starts, image, restartRequested, mishap>>

Kill ==
    /\ ui # "gone" /\ ui' = "gone"
    /\ Emptied /\ Forgotten
    /\ cleaning' = FALSE /\ restartRequested' = FALSE
    /\ mishap' = TRUE
    /\ UNCHANGED <<files, running, starts, image>>

\* By relaunch or by the user: the program at the path, which discards an
\* interrupted download.
Start ==
    /\ ui = "gone" /\ ui' = "loop" /\ starts < MaxStarts
    /\ files.exe \in Versions
    /\ Emptied /\ Forgotten
    /\ starts' = starts + 1
    /\ running' = files.exe /\ image' = "exe"
    /\ files' \in {files, [files EXCEPT !.new = None]}
    /\ cleaning' = TRUE /\ restartRequested' = FALSE /\ mishap' = FALSE

\* RemovePrevious, up to a minute long: it deletes .old or gives up.
CleanUp ==
    /\ ui # "gone" /\ cleaning /\ cleaning' = FALSE
    /\ \/ /\ files.old = None \/ Deletable
          /\ files' = [files EXCEPT !.old = None]
          /\ image' = IF image = "old" THEN "none" ELSE image
       \/ /\ files.old # None
          /\ UNCHANGED <<files, image>>
    /\ UNCHANGED <<bridgeVars, running, starts, latest, flags, page, mishap>>

UIThread == StartWorker \/ Finish \/ RestartApp \/ End
Work == \E w \in workers : WorkerStep(w)

Next ==
    \/ Check \/ InstallUpdate \/ TimesOut \/ Reload
    \/ UIThread \/ Work
    \/ Quit \/ Kill \/ Start \/ CleanUp

\* The UI thread and the workers go on: a download is bounded by
\* installTimeout, an operation on a file by its retries.
Fairness == WF_vars(UIThread) /\ WF_vars(Work)

Spec == Init /\ [][Next]_vars /\ Fairness

-----------------------------------------------------------------------------
\* Properties

\* One install runs at a time, also when the page that began the first one
\* has been reloaded or has given up on it (comment at installing, update.go).
OneInstaller == \A v, w \in Installers : v = w

\* What stands at the program's path, and what is kept beside it, carries a
\* release's signature, whatever was downloaded and interrupted (Install).
ProgramIsVerified == Bad \notin {files.exe, files.old}

\* A version to go back to is always on disk, at the path or as .old, although
\* installs, their clean-up and the one of the last update overlap (Apply,
\* RemovePrevious).
VersionRemains == {files.exe, files.old} \cap Versions # {}

\* A program that was quit, however much was under way, is there to be started
\* again, unless moving it back had failed (Close, Apply).
QuitLeavesProgram == ui = "gone" /\ ~mishap => files.exe \in Versions

\* A page that says it is restarting gets its restart, and what is started is
\* newer than what ran: also when the answer it was given was another
\* worker's (installUpdate, restartApp).
RestartRunsUpdate ==
    /\ page = "restarting" => updateReady
    /\ restartRequested /\ ui = "gone" => files.exe \in Versions /\ files.exe > running

\* An install the page waits for comes to an end, and so does a quit while
\* workers are busy (Close).
InstallEnds == (page = "installing" /\ ui = "loop") ~> (page # "installing" \/ ui # "loop")
CloseReturns == ui = "closing" ~> ui = "gone"

=============================================================================
