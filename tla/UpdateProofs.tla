-------------------------- MODULE UpdateProofs --------------------------
(***************************************************************************)
(* Proofs about SelfUpdate, for any number of calls, documents, releases   *)
(* and processes: one install at a time, of verified files only, and on    *)
(* Windows always a version to go back to and a restart into the update.   *)
(*                                                                         *)
(* BaseInv says what a worker may rely on at each of its steps.  WinInv    *)
(* adds where the file of the running program is: on Windows nothing can   *)
(* delete it, so that once it is .old no other install gets past clearing  *)
(* .old, however many workers have found no update ready.                  *)
(***************************************************************************)
EXTENDS SelfUpdate, TLAPS

Workers == [call : Calls, job : Jobs]
Answers == [call : Calls, result : {"ok", "error"}]

InstallSteps == Steps \ {"begin", "check", "take", "send"}

\* Of a process that stops, the UI thread's queue and then the workers go.
StopsInOrder ==
    /\ ui # "loop" => kicks = <<>> /\ finishes = <<>>
    /\ ui = "gone" => workers = {}

\* There are calls only once the page knows a release, and a worker that has
\* read it goes for something newer than what runs.
GoesForNewer ==
    /\ kicks # <<>> \/ workers # {} => latest # None
    /\ \A w \in workers :
          w.job.at # "begin" => w.job.info \in Versions /\ w.job.info > running

FlagIsSet == Installers # {} => installing

\* What was verified is still there when it is moved into place.
VerifiedStays ==
    \A w \in workers : w.job.at \in {"clear", "aside", "swap"} => files.new = w.job.info

\* Nobody speaks of a success before updateReady is set.
SuccessIsReady ==
    /\ \A w \in workers : w.job.result = "ok" => updateReady
    /\ \A i \in DOMAIN finishes : finishes[i].result = "ok" => updateReady
    /\ page = "restarting" => updateReady

BaseInv ==
    /\ UpdateTypeOK
    /\ StopsInOrder /\ GoesForNewer /\ FlagIsSet /\ OneInstaller
    /\ VerifiedStays /\ ProgramIsVerified /\ SuccessIsReady

\* Where the file of the running program is, when nothing can delete it.
Placed ==
    \/ image = "exe" /\ files.exe = running
    \/ image = "old" /\ files.old = running

Updated == image = "old" /\ files.exe \in Versions /\ files.exe > running

\* What a worker finds at its next step.
Fits(at) ==
    /\ at = "aside" => image = "exe"
    /\ at \in {"swap", "back"} =>
          image = "old" /\ files.exe = None /\ ~updateReady /\ ~restartRequested
    /\ at = "ready" => Updated

WorkersFit == \A w \in workers : Fits(w.job.at)

ReadyIsUpdated == updateReady \/ restartRequested => Updated

\* Nothing is at the path only in the middle of a swap, or after a mishap.
GapIsASwap ==
    ~mishap /\ (\A w \in workers : w.job.at \notin {"swap", "back"}) => files.exe \in Versions

WinInv == Placed /\ WorkersFit /\ ReadyIsUpdated /\ GapIsASwap

-----------------------------------------------------------------------------
\* Values

LEMMA NotVersions ==
    /\ None \notin Versions /\ Bad \notin Versions /\ None # Bad
    /\ \A v \in Versions : v \in Nat
BY UpdateAssumption DEF Versions

LEMMA Bounds ==
    /\ 1 \in 1..MaxLoads /\ 0 \in 0..MaxCalls /\ 1 \in 1..MaxStarts
    /\ <<>> \in Seq(Calls) /\ <<>> \in Seq(Answers)
    /\ MaxLoads \in Nat /\ MaxStarts \in Nat
BY BridgeAssumption, UpdateAssumption

\* Installers by their step.
LEMMA ByStep ==
    ASSUME workers \subseteq Workers
    PROVE  \A w \in workers : w \in Installers <=> w.job.at \in InstallSteps
BY DEF Workers, Jobs, Installers, InstallSteps

\* A worker that goes on, and the others.
LEMMA BecomesOf ==
    ASSUME UpdateTypeOK, NEW w \in workers, NEW job \in Jobs, Becomes(w, job)
    PROVE  /\ \E v \in Workers :
                 v.job = job /\ v.call = w.call /\ workers' = (workers \ {w}) \cup {v}
           /\ BridgeTypeOK(Jobs, {"ok", "error"})'
<1>1. w \in Workers
    BY DEF UpdateTypeOK, BridgeTypeOK, Workers
<1>2. [w EXCEPT !.job = job] \in Workers
      /\ [w EXCEPT !.job = job].job = job /\ [w EXCEPT !.job = job].call = w.call
    BY <1>1 DEF Workers
<1>3. workers' = (workers \ {w}) \cup {[w EXCEPT !.job = job]}
    BY DEF Becomes
<1>4. workers' \subseteq Workers
    BY <1>2, <1>3 DEF UpdateTypeOK, BridgeTypeOK, Workers
<1>5. BridgeTypeOK(Jobs, {"ok", "error"})'
    BY <1>4 DEF UpdateTypeOK, BridgeTypeOK, Workers, Becomes
<1> QED
    BY <1>2, <1>3, <1>5

\* The step of a worker that follows the protocol of the flags.
LEMMA WorkerKeeps ==
    ASSUME BaseInv, NEW w \in workers, NEW job \in Jobs, Becomes(w, job),
           UNCHANGED <<process, latest, page>>,
           files' \in Files, image' \in {"exe", "old", "none"}, installing' \in BOOLEAN,
           updateReady' \in BOOLEAN, restartRequested' \in BOOLEAN, mishap' \in BOOLEAN,
           job.at # "begin", job.info \in Versions, job.info > running,
           updateReady => updateReady', job.result = "ok" => updateReady',
           job.at \in InstallSteps => installing' /\ (w \in Installers \/ Installers = {}),
           w \in Installers \/ installing' \/ installing' = installing,
           files'.new = files.new \/ w \in Installers,
           job.at \in {"clear", "aside", "swap"} => files'.new = job.info,
           Bad \notin {files'.exe, files'.old}
    PROVE  BaseInv'
<1> USE DEF BaseInv
<1>1. PICK v \in Workers : v.job = job /\ workers' = (workers \ {w}) \cup {v}
    BY BecomesOf
<1>2. workers \subseteq Workers /\ workers' \subseteq Workers
    BY <1>1 DEF UpdateTypeOK, BridgeTypeOK, Workers
<1>t. UpdateTypeOK'
    BY BecomesOf DEF UpdateTypeOK, process
<1>3. /\ running' = running /\ latest' = latest /\ page' = page
      /\ kicks' = kicks /\ finishes' = finishes /\ ui' = ui
    BY DEF Becomes, process
<1>4. \A u \in workers : u \in Installers <=> u.job.at \in InstallSteps
    BY <1>2, ByStep
<1>5. \A u \in workers' : (u \in Installers)' <=> u.job.at \in InstallSteps
    BY <1>2 DEF Workers, Jobs, Installers, InstallSteps
<1>6. StopsInOrder'
    BY <1>3 DEF StopsInOrder
<1>7. GoesForNewer'
    BY <1>1, <1>3 DEF GoesForNewer
<1>8. OneInstaller' /\ FlagIsSet'
  <2>1. CASE w \in Installers
    <3>1. \A u \in workers \ {w} : u.job.at \notin InstallSteps
      BY <1>4, <2>1 DEF OneInstaller
    <3>2. \A u \in workers' : (u \in Installers)' => u = v /\ job.at \in InstallSteps
      BY <1>1, <1>5, <3>1
    <3> QED
      BY <3>2 DEF OneInstaller, FlagIsSet, Installers
  <2>2. CASE w \notin Installers /\ job.at \in InstallSteps
    <3>1. \A u \in workers' : (u \in Installers)' => u = v
      BY <1>1, <1>4, <1>5, <2>2
    <3> QED
      BY <2>2, <3>1 DEF OneInstaller, FlagIsSet, Installers
  <2>3. CASE w \notin Installers /\ job.at \notin InstallSteps
    <3>1. \A u \in workers' : (u \in Installers)' => u \in Installers
      BY <1>1, <1>4, <1>5, <2>3
    <3> QED
      BY <2>3, <3>1 DEF OneInstaller, FlagIsSet, Installers
  <2> QED
    BY <2>1, <2>2, <2>3
<1>9. VerifiedStays'
  <2> SUFFICES ASSUME NEW u \in workers', u.job.at \in {"clear", "aside", "swap"}
               PROVE  files'.new = u.job.info
    BY DEF VerifiedStays
  <2>1. CASE u = v
    BY <1>1, <2>1
  <2>2. CASE u \in workers \ {w}
    <3>1. u \in Installers
      BY <1>4, <2>2 DEF InstallSteps, Steps
    <3>2. w \notin Installers
      BY <2>2, <3>1 DEF OneInstaller
    <3> QED
      BY <2>2, <3>2 DEF VerifiedStays
  <2> QED
    BY <1>1, <2>1, <2>2
<1>10. ProgramIsVerified'
    BY DEF ProgramIsVerified
<1>11. SuccessIsReady'
    BY <1>1, <1>3 DEF SuccessIsReady
<1> QED
    BY <1>t, <1>6, <1>7, <1>8, <1>9, <1>10, <1>11

LEMMA JobAt ==
    ASSUME UpdateTypeOK, NEW w \in workers, NEW to \in Steps
    PROVE  /\ w.job \in Jobs
           /\ [w.job EXCEPT !.at = to] \in Jobs
           /\ [w.job EXCEPT !.at = to].at = to
           /\ [w.job EXCEPT !.at = to].info = w.job.info
           /\ [w.job EXCEPT !.at = to].result = w.job.result
<1>1. w.job \in Jobs
    BY DEF UpdateTypeOK, BridgeTypeOK
<1> QED
    BY <1>1 DEF Jobs

\* What a step does with the files.
LEMMA FilesWith ==
    ASSUME files \in Files, NEW c \in Content
    PROVE  /\ [files EXCEPT !.new = c] \in Files
           /\ [files EXCEPT !.new = c].new = c
           /\ [files EXCEPT !.new = c].exe = files.exe
           /\ [files EXCEPT !.new = c].old = files.old
BY DEF Files

LEMMA FilesMoved ==
    ASSUME files \in Files
    PROVE  /\ LET f == [files EXCEPT !.old = None]
              IN  f \in Files /\ f.old = None /\ f.exe = files.exe /\ f.new = files.new
           /\ LET f == [files EXCEPT !.old = files.exe, !.exe = None]
              IN  f \in Files /\ f.old = files.exe /\ f.exe = None /\ f.new = files.new
           /\ LET f == [files EXCEPT !.exe = files.new, !.new = None]
              IN  f \in Files /\ f.exe = files.new /\ f.new = None /\ f.old = files.old
           /\ LET f == [files EXCEPT !.exe = files.old, !.old = None]
              IN  f \in Files /\ f.exe = files.old /\ f.old = None /\ f.new = files.new
BY DEF Files, Content

\* A step of the one worker that installs.
LEMMA InstallerKeeps ==
    ASSUME BaseInv, NEW w \in workers, w.job.at \in InstallSteps,
           NEW to \in InstallSteps \cup {"send"}, Becomes(w, [w.job EXCEPT !.at = to]),
           UNCHANGED <<process, latest, page, updateReady, restartRequested>>,
           files' \in Files, image' \in {"exe", "old", "none"}, mishap' \in BOOLEAN,
           installing' = installing \/ (to = "send" /\ installing' = FALSE),
           to \in {"clear", "aside", "swap"} => files'.new = w.job.info,
           Bad \notin {files'.exe, files'.old}
    PROVE  BaseInv'
<1> DEFINE job == [w.job EXCEPT !.at = to]
<1>1. UpdateTypeOK /\ to \in Steps /\ w.job.at # "begin" /\ to # "begin"
    BY DEF BaseInv, InstallSteps, Steps
<1>2. /\ job \in Jobs /\ job.at = to /\ job.info = w.job.info
      /\ job.result = w.job.result
    BY <1>1, JobAt
<1>3. /\ w.job.info \in Versions /\ w.job.info > running
      /\ w.job.result = "ok" => updateReady
    BY <1>1 DEF BaseInv, GoesForNewer, SuccessIsReady
<1>4. w \in Installers /\ installing
    BY <1>1, ByStep DEF BaseInv, FlagIsSet, UpdateTypeOK, BridgeTypeOK, Workers
<1>5. /\ updateReady' \in BOOLEAN /\ restartRequested' \in BOOLEAN /\ installing' \in BOOLEAN
      /\ updateReady' = updateReady
    BY <1>1 DEF UpdateTypeOK
<1>6. job.at \in InstallSteps => installing'
    BY <1>2, <1>4 DEF InstallSteps
<1> HIDE DEF job
<1>7. Becomes(w, job)
    BY DEF job
<1>8. /\ job.at # "begin" /\ job.info \in Versions /\ job.info > running
      /\ updateReady => updateReady'
      /\ job.result = "ok" => updateReady'
    BY <1>1, <1>2, <1>3, <1>5
<1>9. job.at \in {"clear", "aside", "swap"} => files'.new = job.info
    BY <1>2
<1>10. UNCHANGED <<process, latest, page>>
    OBVIOUS
<1> QED
    BY <1>2, <1>4, <1>5, <1>6, <1>7, <1>8, <1>9, <1>10, WorkerKeeps

\* Every step of a worker keeps BaseInv.
LEMMA WorkerStepKeeps ==
    ASSUME BaseInv, NEW w \in workers, WorkerStep(w), w.job.at # "send"
    PROVE  BaseInv'
<1>a. /\ UpdateTypeOK /\ files \in Files /\ ProgramIsVerified
      /\ image \in {"exe", "old", "none"} /\ installing \in BOOLEAN
      /\ updateReady \in BOOLEAN /\ restartRequested \in BOOLEAN /\ mishap \in BOOLEAN
      /\ latest \in Versions \cup {None} /\ (latest # None => latest > running)
    BY DEF BaseInv, UpdateTypeOK
<1>b. /\ w.job \in Jobs /\ latest # None
      /\ w.job.at # "begin" => w.job.info \in Versions /\ w.job.info > running
      /\ w.job.at \in {"clear", "aside", "swap"} => files.new = w.job.info
      /\ w.job.result = "ok" => updateReady
    BY JobAt DEF BaseInv, GoesForNewer, VerifiedStays, SuccessIsReady, Steps
<1>c. w \in Installers <=> w.job.at \in InstallSteps
    BY <1>a, ByStep DEF UpdateTypeOK, BridgeTypeOK, Workers
<1>d. Installers # {} => installing
    BY DEF BaseInv, FlagIsSet
<1>e. \A to \in Steps :
          /\ [w.job EXCEPT !.at = to] \in Jobs
          /\ [w.job EXCEPT !.at = to].at = to
          /\ [w.job EXCEPT !.at = to].info = w.job.info
          /\ [w.job EXCEPT !.at = to].result = w.job.result
    BY <1>a, JobAt
<1>f. Bad \notin {files.exe, files.old}
    BY <1>a DEF ProgramIsVerified
<1>g. /\ {"verify", "undo", "clear", "aside", "swap", "back", "ready", "release"} \subseteq InstallSteps
      /\ w.job.at \in {"download", "verify", "undo", "clear", "aside", "swap", "back", "release"}
            => w.job.at \in InstallSteps
    BY DEF InstallSteps, Steps
<1>1. CASE ReadRelease(w)
  <2> DEFINE job == Job("check", latest, "error")
  <2>1. job \in Jobs /\ job.at = "check" /\ job.info = latest /\ job.result = "error"
    BY <1>a DEF Job, Jobs, Steps
  <2>2. Becomes(w, job) /\ UNCHANGED <<files, process, image, latest, flags, page, mishap>>
    BY <1>1 DEF ReadRelease
  <2> HIDE DEF job
  <2> QED
    BY <1>a, <1>b, <1>f, <2>1, <2>2, WorkerKeeps DEF flags, InstallSteps
<1>2. CASE CheckReady(w)
  <2> DEFINE to == IF updateReady THEN "send" ELSE "take"
  <2>1. to \in Steps /\ to \in {"send", "take"}
    BY DEF Steps
  <2>2. /\ w.job.at = "check" /\ Becomes(w, [w.job EXCEPT !.at = to])
        /\ UNCHANGED <<files, process, image, latest, flags, page, mishap>>
    BY <1>2 DEF CheckReady, Goes
  <2> HIDE DEF to
  <2> QED
    BY <1>a, <1>b, <1>e, <1>f, <2>1, <2>2, WorkerKeeps DEF flags, InstallSteps
<1>3. CASE Take(w)
  <2> DEFINE to == IF installing THEN "send" ELSE "download"
  <2>1. to \in Steps /\ to \in {"send", "download"} /\ (to = "download" => ~installing)
    BY DEF Steps
  <2>2. /\ w.job.at = "take" /\ Becomes(w, [w.job EXCEPT !.at = to]) /\ installing' = TRUE
        /\ UNCHANGED <<files, process, image, latest, updateReady, restartRequested, page, mishap>>
    BY <1>3 DEF Take, Goes
  <2> DEFINE job == [w.job EXCEPT !.at = to]
  <2>3. /\ job \in Jobs /\ job.at = to /\ job.info = w.job.info
        /\ job.result = w.job.result
    BY <1>e, <2>1
  <2>4. job.at \in InstallSteps => Installers = {}
    BY <1>d, <2>1, <2>3 DEF InstallSteps
  <2>5. /\ job.at \notin {"begin", "clear", "aside", "swap"}
        /\ job.info \in Versions /\ job.info > running
    BY <1>b, <2>1, <2>2, <2>3
  <2> HIDE DEF to, job
  <2>6. Becomes(w, job)
    BY <2>2 DEF job
  <2> QED
    BY <1>a, <1>b, <1>f, <2>2, <2>3, <2>4, <2>5, <2>6, WorkerKeeps
<1>4. CASE Download(w)
  <2>1. /\ w.job.at = "download" /\ image' = image
        /\ UNCHANGED <<process, image, latest, flags, page, mishap>>
    BY <1>4 DEF Download, Goes
  <2>2. PICK to \in {"verify", "undo"} : Becomes(w, [w.job EXCEPT !.at = to])
    BY <1>4 DEF Download, Goes
  <2>3. PICK c \in Content : files' = [files EXCEPT !.new = c]
    BY <1>4, <1>a, <1>b, <2>1 DEF Download, Files, Content
  <2> QED
    BY <1>a, <1>b, <1>f, <1>g, <2>1, <2>2, <2>3, FilesWith, InstallerKeeps DEF flags
<1>5. CASE Verify(w)
  <2>1. PICK to \in {"clear", "undo"} :
            /\ Becomes(w, [w.job EXCEPT !.at = to])
            /\ to = "clear" => files.new = w.job.info
    BY <1>5 DEF Verify, Goes
  <2>2. w.job.at = "verify" /\ UNCHANGED <<files, process, image, latest, flags, page, mishap>>
    BY <1>5 DEF Verify, Goes
  <2> QED
    BY <1>a, <1>b, <1>f, <1>g, <2>1, <2>2, InstallerKeeps DEF flags
<1>6. CASE ClearPrevious(w)
  <2>1. w.job.at = "clear" /\ UNCHANGED <<process, latest, flags, page, mishap>>
    BY <1>6 DEF ClearPrevious, Goes
  <2>2. PICK to \in {"aside", "undo"} : Becomes(w, [w.job EXCEPT !.at = to])
    BY <1>6 DEF ClearPrevious, Goes
  <2>3. files' \in {files, [files EXCEPT !.old = None]} /\ image' \in {image, "none"}
    BY <1>6 DEF ClearPrevious
  <2>4. /\ files' \in Files /\ files'.new = files.new
        /\ files'.exe = files.exe /\ files'.old \in {files.old, None}
    BY <1>a, <2>3, FilesMoved
  <2> QED
    BY <1>a, <1>b, <1>f, <1>g, <2>1, <2>2, <2>3, <2>4, NotVersions, InstallerKeeps DEF flags
<1>7. CASE MoveAside(w)
  <2>1. w.job.at = "aside" /\ UNCHANGED <<process, latest, flags, page, mishap>>
    BY <1>7 DEF MoveAside, Goes
  <2>2. PICK to \in {"swap", "undo"} : Becomes(w, [w.job EXCEPT !.at = to])
    BY <1>7 DEF MoveAside, Goes
  <2>3. /\ files' \in {files, [files EXCEPT !.old = files.exe, !.exe = None]}
        /\ image' \in {image, "old"}
    BY <1>7 DEF MoveAside
  <2>4. /\ files' \in Files /\ files'.new = files.new
        /\ files'.exe \in {files.exe, None} /\ files'.old \in {files.old, files.exe}
    BY <1>a, <2>3, FilesMoved
  <2> QED
    BY <1>a, <1>b, <1>f, <1>g, <2>1, <2>2, <2>3, <2>4, NotVersions, InstallerKeeps DEF flags
<1>8. CASE Swap(w)
  <2>1. w.job.at = "swap" /\ UNCHANGED <<process, image, latest, flags, page, mishap>>
    BY <1>8 DEF Swap, Goes
  <2>2. PICK to \in {"ready", "back"} : Becomes(w, [w.job EXCEPT !.at = to])
    BY <1>8 DEF Swap, Goes
  <2>3. files' \in {files, [files EXCEPT !.exe = files.new, !.new = None]}
    BY <1>8 DEF Swap
  <2>4. /\ files' \in Files
        /\ files'.exe \in {files.exe, files.new} /\ files'.old = files.old
    BY <1>a, <2>3, FilesMoved
  <2> QED
    BY <1>a, <1>b, <1>f, <1>g, <2>1, <2>2, <2>3, <2>4, NotVersions, InstallerKeeps DEF flags
<1>9. CASE MoveBack(w)
  <2>1. /\ w.job.at = "back" /\ Becomes(w, [w.job EXCEPT !.at = "undo"])
        /\ UNCHANGED <<process, latest, flags, page>>
    BY <1>9 DEF MoveBack, Goes
  <2>2. /\ files' \in {files, [files EXCEPT !.exe = files.old, !.old = None]}
        /\ image' \in {image, "exe"} /\ mishap' \in {mishap, TRUE}
    BY <1>9 DEF MoveBack
  <2>3. /\ files' \in Files /\ files'.new = files.new
        /\ files'.exe \in {files.exe, files.old} /\ files'.old \in {files.old, None}
    BY <1>a, <2>2, FilesMoved
  <2> QED
    BY <1>a, <1>b, <1>f, <1>g, <2>1, <2>2, <2>3, NotVersions, InstallerKeeps DEF flags
<1>10. CASE Undo(w)
  <2>1. /\ w.job.at = "undo" /\ Becomes(w, [w.job EXCEPT !.at = "release"])
        /\ UNCHANGED <<process, image, latest, flags, page, mishap>>
        /\ files' \in {files, [files EXCEPT !.new = None]}
    BY <1>10 DEF Undo, Goes
  <2>2. files' \in Files /\ files'.exe = files.exe /\ files'.old = files.old
    BY ZenonT(60), <1>a, <2>1, FilesWith DEF Content
  <2> QED
    BY <1>a, <1>b, <1>f, <1>g, <2>1, <2>2, InstallerKeeps DEF flags
<1>11. CASE Ready(w)
  <2> DEFINE job == Job("release", w.job.info, "ok")
  <2>1. job \in Jobs /\ job.at = "release" /\ job.info = w.job.info
    BY <1>b DEF Job, Jobs, Steps
  <2>2. /\ w.job.at = "ready" /\ Becomes(w, job) /\ updateReady' = TRUE
        /\ UNCHANGED <<files, process, image, latest, installing, restartRequested, page, mishap>>
    BY <1>11 DEF Ready
  <2> HIDE DEF job
  <2> QED
    BY <1>a, <1>b, <1>c, <1>d, <1>f, <2>1, <2>2, WorkerKeeps DEF InstallSteps, Steps
<1>12. CASE Release(w)
  <2>1. /\ w.job.at = "release" /\ Becomes(w, [w.job EXCEPT !.at = "send"])
        /\ installing' = FALSE
        /\ UNCHANGED <<files, process, image, latest, updateReady, restartRequested, page, mishap>>
    BY <1>12 DEF Release, Goes
  <2> QED
    BY <1>a, <1>f, <1>g, <2>1, InstallerKeeps
<1> QED
    BY <1>1, <1>2, <1>3, <1>4, <1>5, <1>6, <1>7, <1>8, <1>9, <1>10, <1>11, <1>12
       DEF WorkerStep, SendAnswer

-----------------------------------------------------------------------------
\* The rest of the process keeps BaseInv.

\* Workers that end disturb no other.
LEMMA FewerWorkers ==
    ASSUME BaseInv, workers' \subseteq workers,
           workers' = {} \/ (installing' = installing /\ files'.new = files.new)
    PROVE  OneInstaller' /\ FlagIsSet' /\ VerifiedStays'
BY DEF BaseInv, OneInstaller, FlagIsSet, VerifiedStays, Installers

LEMMA QueueTypes ==
    ASSUME NEW S, NEW q \in Seq(S), q # <<>>
    PROVE  /\ Tail(q) \in Seq(S) /\ Head(q) \in S
           /\ 1 \in DOMAIN q /\ Head(q) = q[1]
           /\ \A i \in DOMAIN Tail(q) : i + 1 \in DOMAIN q /\ Tail(q)[i] = q[i + 1]
OBVIOUS

LEMMA AppendTypes ==
    ASSUME NEW S, NEW q \in Seq(S), NEW x \in S
    PROVE  /\ Append(q, x) \in Seq(S)
           /\ \A i \in DOMAIN Append(q, x) :
                  (i \in DOMAIN q /\ Append(q, x)[i] = q[i]) \/ Append(q, x)[i] = x
OBVIOUS

LEMMA CheckKeeps == BaseInv /\ Check => BaseInv'
<1> SUFFICES ASSUME BaseInv, Check PROVE BaseInv'
    OBVIOUS
<1> USE DEF BaseInv
<1>1. PICK v \in Versions : v > running /\ latest' = v
    BY DEF Check
<1>2. /\ UNCHANGED <<load, next, pending, kicks, workers, finishes, ui, files, running,
                    cleaning, starts, image, installing, updateReady, restartRequested, mishap>>
      /\ page' \in {page, "idle"}
    BY DEF Check, bridgeVars, process, flags
<1>3. UpdateTypeOK'
    BY <1>1, <1>2 DEF UpdateTypeOK, BridgeTypeOK
<1>4. StopsInOrder' /\ GoesForNewer' /\ ProgramIsVerified' /\ SuccessIsReady'
    BY <1>1, <1>2, NotVersions DEF StopsInOrder, GoesForNewer, ProgramIsVerified, SuccessIsReady
<1> QED
    BY <1>2, <1>3, <1>4, FewerWorkers

LEMMA InstallUpdateKeeps == BaseInv /\ InstallUpdate => BaseInv'
<1> SUFFICES ASSUME BaseInv, InstallUpdate PROVE BaseInv'
    OBVIOUS
<1> USE DEF BaseInv
<1>1. /\ latest # None /\ Calling /\ page' = "installing"
      /\ UNCHANGED <<workers, files, running, cleaning, starts, image, latest,
                    installing, updateReady, restartRequested, mishap, finishes, ui, load>>
    BY DEF InstallUpdate, Calling, process, flags
<1>2. next \in Nat /\ load \in 1..MaxLoads /\ next + 1 \in 1..MaxCalls
    BY <1>1, BridgeAssumption DEF Calling, UpdateTypeOK, BridgeTypeOK
<1>3. Call(load, next + 1) \in Calls
    BY <1>2 DEF Call, Calls
<1>4. kicks' \in Seq(Calls)
    BY <1>1, <1>3, AppendTypes DEF Calling, UpdateTypeOK, BridgeTypeOK
<1>5. pending' \subseteq 1..next' /\ next' \in 0..MaxCalls
    BY <1>1, <1>2 DEF Calling, UpdateTypeOK, BridgeTypeOK
<1>6. UpdateTypeOK'
    BY <1>1, <1>4, <1>5 DEF UpdateTypeOK, BridgeTypeOK
<1>7. StopsInOrder' /\ GoesForNewer' /\ ProgramIsVerified' /\ SuccessIsReady'
    BY <1>1 DEF Calling, StopsInOrder, GoesForNewer, ProgramIsVerified, SuccessIsReady
<1> QED
    BY <1>1, <1>6, <1>7, FewerWorkers

\* The page gives up on a call, or is reloaded.
LEMMA PageKeeps == BaseInv /\ (TimesOut \/ Reload) => BaseInv'
<1> SUFFICES ASSUME BaseInv, TimesOut \/ Reload PROVE BaseInv'
    OBVIOUS
<1> USE DEF BaseInv
<1>1. /\ UNCHANGED <<kicks, workers, files, running, cleaning, starts, image, latest,
                    installing, updateReady, restartRequested, mishap, finishes, ui>>
      /\ page' \in {"idle", "failed"}
    BY DEF TimesOut, TimingOut, Reload, Reloading, process, flags
<1>2. load' \in 1..MaxLoads /\ next' \in 0..MaxCalls /\ pending' \subseteq 1..next'
  <2>1. load \in 1..MaxLoads /\ next \in 0..MaxCalls /\ pending \subseteq 1..next
    BY DEF UpdateTypeOK, BridgeTypeOK
  <2>2. CASE TimesOut
    <3>1. PICK id \in pending : TimingOut(id)
      BY <2>2 DEF TimesOut
    <3> QED
      BY <2>1, <3>1 DEF TimingOut
  <2>3. CASE Reload
    <3>1. load' = load + 1 /\ load < MaxLoads /\ next' = 0 /\ pending' = {}
      BY <2>3 DEF Reload, Reloading
    <3>2. load' \in 1..MaxLoads
      BY <2>1, <3>1, Bounds
    <3> QED
      BY <3>1, <3>2, Bounds
  <2> QED
    BY <2>2, <2>3
<1>3. UpdateTypeOK'
    BY <1>1, <1>2 DEF UpdateTypeOK, BridgeTypeOK
<1>4. StopsInOrder' /\ GoesForNewer' /\ ProgramIsVerified' /\ SuccessIsReady'
    BY <1>1 DEF StopsInOrder, GoesForNewer, ProgramIsVerified, SuccessIsReady
<1> QED
    BY <1>1, <1>3, <1>4, FewerWorkers

LEMMA StartWorkerKeeps == BaseInv /\ StartWorker => BaseInv'
<1> SUFFICES ASSUME BaseInv, StartWorker PROVE BaseInv'
    OBVIOUS
<1> USE DEF BaseInv
<1> DEFINE v == [call |-> Head(kicks), job |-> Job("begin", None, "error")]
<1>1. /\ UNCHANGED <<files, running, cleaning, starts, image, latest, installing, updateReady,
                    restartRequested, page, mishap, load, next, pending, finishes, ui>>
      /\ ui = "loop" /\ kicks # <<>> /\ kicks' = Tail(kicks)
      /\ workers' = workers \cup {v}
    BY DEF StartWorker, Starting, process, flags
<1>2. kicks' \in Seq(Calls) /\ Head(kicks) \in Calls
    BY <1>1, QueueTypes DEF UpdateTypeOK, BridgeTypeOK
<1>3. v \in Workers /\ v.job.at = "begin" /\ v.job.result = "error"
    BY <1>2 DEF Workers, Job, Jobs, Steps
<1> HIDE DEF v
<1>4. UpdateTypeOK'
    BY <1>1, <1>2, <1>3 DEF UpdateTypeOK, BridgeTypeOK, Workers
<1>5. StopsInOrder' /\ GoesForNewer' /\ ProgramIsVerified' /\ SuccessIsReady'
    BY <1>1, <1>3 DEF StopsInOrder, GoesForNewer, ProgramIsVerified, SuccessIsReady
<1>6. Installers' = Installers
    BY <1>1, <1>3 DEF Installers
<1>7. OneInstaller' /\ FlagIsSet' /\ VerifiedStays'
    BY <1>1, <1>3, <1>6 DEF OneInstaller, FlagIsSet, VerifiedStays
<1> QED
    BY <1>4, <1>5, <1>7

LEMMA FinishKeeps == BaseInv /\ Finish => BaseInv'
<1> SUFFICES ASSUME BaseInv, Finish PROVE BaseInv'
    OBVIOUS
<1> USE DEF BaseInv
<1>1. /\ UNCHANGED <<files, running, cleaning, starts, image, latest, installing, updateReady,
                    restartRequested, mishap, load, next, kicks, workers, ui>>
      /\ ui = "loop" /\ finishes # <<>> /\ finishes' = Tail(finishes)
      /\ pending' = pending \ {Head(finishes).call.id}
    BY DEF Finish, Finishing, process, flags
<1>2. finishes \in Seq(Answers)
    BY DEF UpdateTypeOK, BridgeTypeOK, Answers
<1>3. /\ finishes' \in Seq(Answers)
      /\ 1 \in DOMAIN finishes /\ Head(finishes) = finishes[1]
      /\ \A i \in DOMAIN finishes' :
            i + 1 \in DOMAIN finishes /\ finishes'[i] = finishes[i + 1]
    BY <1>1, <1>2, QueueTypes
<1>4. /\ page' \in {page, "restarting", "failed"}
      /\ page' = "restarting" => page = "restarting" \/ Head(finishes).result = "ok"
    BY DEF Finish
<1>5. UpdateTypeOK'
    BY ZenonT(60), <1>1, <1>3, <1>4 DEF UpdateTypeOK, BridgeTypeOK, Answers
<1>6. SuccessIsReady'
    BY <1>1, <1>3, <1>4 DEF SuccessIsReady
<1>7. StopsInOrder' /\ GoesForNewer' /\ ProgramIsVerified'
    BY <1>1 DEF StopsInOrder, GoesForNewer, ProgramIsVerified
<1> QED
    BY <1>1, <1>5, <1>6, <1>7, FewerWorkers

LEMMA SendAnswerKeeps ==
    ASSUME BaseInv, NEW w \in workers, SendAnswer(w)
    PROVE  BaseInv'
<1> USE DEF BaseInv
<1> DEFINE a == Answer(w.call, w.job.result)
<1>1. /\ UNCHANGED <<files, running, cleaning, starts, image, latest, installing, updateReady,
                    restartRequested, page, mishap, load, next, pending, kicks, ui>>
      /\ workers' = workers \ {w}
      /\ finishes' = IF ui # "loop" THEN finishes ELSE Append(finishes, a)
    BY DEF SendAnswer, Sending, Closed, process, flags
<1>2. finishes \in Seq(Answers) /\ w \in Workers
    BY DEF UpdateTypeOK, BridgeTypeOK, Answers, Workers
<1>3. a \in Answers /\ a.result = w.job.result
    BY <1>2 DEF Answers, Answer, Workers, Jobs
<1> HIDE DEF a
<1>4. /\ finishes' \in Seq(Answers)
      /\ \A i \in DOMAIN finishes' :
            (i \in DOMAIN finishes /\ finishes'[i] = finishes[i]) \/ finishes'[i] = a
    BY <1>1, <1>2, <1>3, AppendTypes
<1>5. UpdateTypeOK'
    BY <1>1, <1>4 DEF UpdateTypeOK, BridgeTypeOK, Answers
<1>6. SuccessIsReady'
    BY <1>1, <1>3, <1>4 DEF SuccessIsReady
<1>7. StopsInOrder' /\ GoesForNewer' /\ ProgramIsVerified'
    BY <1>1 DEF StopsInOrder, GoesForNewer, ProgramIsVerified
<1> QED
    BY <1>1, <1>5, <1>6, <1>7, FewerWorkers

\* The loop ends: RestartApp with an update ready, and Quit.
LEMMA StoppingKeeps ==
    ASSUME BaseInv, Stopping, page' = "idle", restartRequested' \in BOOLEAN,
           UNCHANGED <<files, process, image, latest, installing, updateReady, mishap>>
    PROVE  BaseInv'
<1> USE DEF BaseInv
<1>1. /\ ui' = "closing" /\ load' = 1 /\ next' = 0 /\ pending' = {}
      /\ kicks' = <<>> /\ finishes' = <<>> /\ workers' = workers
    BY DEF Stopping
<1>2. UpdateTypeOK'
    BY <1>1, BridgeAssumption DEF UpdateTypeOK, BridgeTypeOK, process
<1>3. StopsInOrder' /\ GoesForNewer' /\ ProgramIsVerified' /\ SuccessIsReady'
    BY <1>1 DEF StopsInOrder, GoesForNewer, ProgramIsVerified, SuccessIsReady, process
<1> QED
    BY <1>1, <1>2, <1>3, FewerWorkers

LEMMA RestartAppKeeps == BaseInv /\ RestartApp => BaseInv'
<1> SUFFICES ASSUME BaseInv, RestartApp PROVE BaseInv'
    OBVIOUS
<1>1. CASE Stopping /\ restartRequested' = TRUE /\ page' = "idle"
    BY <1>1, StoppingKeeps DEF RestartApp
<1>2. CASE UNCHANGED <<bridgeVars, restartRequested>> /\ page' = "failed"
  <2> USE DEF BaseInv
  <2>1. UNCHANGED <<load, next, pending, kicks, workers, finishes, ui, restartRequested,
                    files, running, cleaning, starts, image, latest, installing, updateReady, mishap>>
    BY <1>2 DEF RestartApp, bridgeVars, process
  <2>2. UpdateTypeOK'
    BY <1>2, <2>1 DEF UpdateTypeOK, BridgeTypeOK
  <2>3. StopsInOrder' /\ GoesForNewer' /\ ProgramIsVerified' /\ SuccessIsReady'
    BY <1>2, <2>1 DEF StopsInOrder, GoesForNewer, ProgramIsVerified, SuccessIsReady
  <2> QED
    BY <2>1, <2>2, <2>3, FewerWorkers
<1> QED
    BY <1>1, <1>2 DEF RestartApp

LEMMA QuitKeeps == BaseInv /\ Quit => BaseInv'
BY StoppingKeeps DEF Quit, flags, BaseInv, UpdateTypeOK

\* The process ends, by itself or killed, or another one starts.
LEMMA ProcessKeeps == BaseInv /\ (End \/ Kill \/ Start) => BaseInv'
<1> SUFFICES ASSUME BaseInv, End \/ Kill \/ Start PROVE BaseInv'
    OBVIOUS
<1> USE DEF BaseInv
<1>1. CASE End
  <2>1. /\ ui = "closing" /\ ui' = "gone" /\ workers = {} /\ page' = "idle" /\ latest' = None
        /\ installing' = FALSE /\ updateReady' = FALSE /\ cleaning' = FALSE
        /\ UNCHANGED <<load, next, pending, kicks, workers, finishes, files, running, starts,
                      image, restartRequested, mishap>>
    BY <1>1 DEF End, Closing, Forgotten
  <2>2. UpdateTypeOK'
    BY <2>1 DEF UpdateTypeOK, BridgeTypeOK
  <2>3. StopsInOrder' /\ GoesForNewer' /\ ProgramIsVerified' /\ SuccessIsReady'
    BY <2>1 DEF StopsInOrder, GoesForNewer, ProgramIsVerified, SuccessIsReady
  <2> QED
    BY <2>1, <2>2, <2>3, FewerWorkers
<1>2. CASE Kill \/ Start
  <2>1. /\ kicks' = <<>> /\ workers' = {} /\ finishes' = <<>>
        /\ load' = 1 /\ next' = 0 /\ pending' = {}
        /\ page' = "idle" /\ latest' = None
        /\ installing' = FALSE /\ updateReady' = FALSE /\ restartRequested' = FALSE
        /\ ui' \in {"gone", "loop"} /\ mishap' \in BOOLEAN /\ cleaning' \in BOOLEAN
    BY <1>2 DEF Kill, Start, Emptied, Forgotten
  <2>2. /\ files' \in {files, [files EXCEPT !.new = None]}
        /\ running' \in Versions
        /\ image' \in {image, "exe"} /\ starts' \in 1..MaxStarts
    <3>1. running \in Versions /\ starts \in 1..MaxStarts
      BY DEF UpdateTypeOK
    <3>2. CASE Kill
      BY <3>1, <3>2 DEF Kill
    <3>3. CASE Start
      <4>1. starts' \in 1..MaxStarts
        BY <3>1, <3>3, Bounds DEF Start
      <4> QED
        BY <3>3, <4>1 DEF Start
    <3> QED
      BY <1>2, <3>2, <3>3
  <2>3. files' \in Files /\ files'.exe = files.exe /\ files'.old = files.old
    <3>1. files \in Files /\ None \in Content
      BY DEF UpdateTypeOK, Content
    <3>2. LET f == [files EXCEPT !.new = None]
          IN  f \in Files /\ f.exe = files.exe /\ f.old = files.old
      BY <3>1, FilesWith
    <3> QED
      BY <2>2, <3>1, <3>2
  <2>4. UpdateTypeOK'
    <3>1. BridgeTypeOK(Jobs, {"ok", "error"})'
      BY <2>1, Bounds DEF BridgeTypeOK, Answers
    <3>2. image' \in {"exe", "old", "none"}
      BY <2>2 DEF UpdateTypeOK
    <3> QED
      BY <2>1, <2>2, <2>3, <3>1, <3>2 DEF UpdateTypeOK
  <2>5. StopsInOrder' /\ GoesForNewer' /\ ProgramIsVerified' /\ SuccessIsReady'
    BY <2>1, <2>3 DEF StopsInOrder, GoesForNewer, ProgramIsVerified, SuccessIsReady
  <2> QED
    BY <2>1, <2>4, <2>5, FewerWorkers
<1> QED
    BY <1>1, <1>2

LEMMA CleanUpKeeps == BaseInv /\ CleanUp => BaseInv'
<1> SUFFICES ASSUME BaseInv, CleanUp PROVE BaseInv'
    OBVIOUS
<1> USE DEF BaseInv
<1>1. /\ UNCHANGED <<load, next, pending, kicks, workers, finishes, ui, running, starts, latest,
                    installing, updateReady, restartRequested, page, mishap>>
      /\ files' \in {files, [files EXCEPT !.old = None]}
      /\ image' \in {image, "none"} /\ cleaning' = FALSE
    BY DEF CleanUp, bridgeVars, flags
<1>2. /\ files' \in Files /\ files'.exe = files.exe /\ files'.old \in {files.old, None}
      /\ files'.new = files.new
    BY <1>1, FilesMoved DEF UpdateTypeOK
<1>3. UpdateTypeOK'
    BY ZenonT(60), <1>1, <1>2 DEF UpdateTypeOK, BridgeTypeOK
<1>4. StopsInOrder' /\ GoesForNewer' /\ ProgramIsVerified' /\ SuccessIsReady'
    BY <1>1, <1>2, NotVersions DEF StopsInOrder, GoesForNewer, ProgramIsVerified, SuccessIsReady
<1> QED
    BY <1>1, <1>2, <1>3, <1>4, FewerWorkers

LEMMA BaseInit == Init => BaseInv
<1> SUFFICES ASSUME Init PROVE BaseInv
    OBVIOUS
<1>1. /\ load = 1 /\ next = 0 /\ pending = {} /\ kicks = <<>> /\ workers = {}
      /\ finishes = <<>> /\ ui = "loop"
    BY DEF Init, Fresh
<1>2. files \in Files /\ files.exe = 1 /\ files.old \in {None, 0} /\ 0 \in Versions /\ 1 \in Versions
    BY UpdateAssumption DEF Init, Files, Content, Versions
<1>3. UpdateTypeOK
  <2>1. BridgeTypeOK(Jobs, {"ok", "error"})
    BY <1>1, Bounds DEF BridgeTypeOK, Answers
  <2> QED
    BY <1>2, <2>1, Bounds DEF Init, UpdateTypeOK
<1>4. StopsInOrder /\ GoesForNewer /\ SuccessIsReady
    BY <1>1 DEF Init, StopsInOrder, GoesForNewer, SuccessIsReady
<1>5. FlagIsSet /\ OneInstaller /\ VerifiedStays
    BY <1>1 DEF FlagIsSet, OneInstaller, VerifiedStays, Installers
<1>6. ProgramIsVerified
    BY <1>2, NotVersions DEF ProgramIsVerified
<1> QED
    BY <1>3, <1>4, <1>5, <1>6 DEF BaseInv

LEMMA BaseStep == BaseInv /\ [Next]_vars => BaseInv'
<1> SUFFICES ASSUME BaseInv, [Next]_vars PROVE BaseInv'
    OBVIOUS
<1>1. CASE Check \/ InstallUpdate \/ TimesOut \/ Reload
    BY <1>1, CheckKeeps, InstallUpdateKeeps, PageKeeps
<1>2. CASE UIThread
    BY <1>2, StartWorkerKeeps, FinishKeeps, RestartAppKeeps, ProcessKeeps DEF UIThread
<1>3. CASE Work
  <2>1. PICK w \in workers : WorkerStep(w)
    BY <1>3 DEF Work
  <2>2. CASE w.job.at = "send"
    <3>1. SendAnswer(w)
      BY <2>1, <2>2 DEF WorkerStep, ReadRelease, CheckReady, Take, Download, Verify, ClearPrevious,
                        MoveAside, Swap, MoveBack, Undo, Ready, Release, Goes
    <3> QED
      BY <3>1, SendAnswerKeeps
  <2>3. CASE w.job.at # "send"
    BY <2>1, <2>3, WorkerStepKeeps
  <2> QED
    BY <2>2, <2>3
<1>4. CASE Quit \/ Kill \/ Start \/ CleanUp
    BY <1>4, QuitKeeps, ProcessKeeps, CleanUpKeeps
<1>5. CASE UNCHANGED vars
  <2>1. UNCHANGED <<load, next, pending, kicks, workers, finishes, ui, files, running, cleaning,
                    starts, image, latest, installing, updateReady, restartRequested, page, mishap>>
    BY <1>5 DEF vars, bridgeVars, process, flags
  <2> QED
    BY <2>1 DEF BaseInv, UpdateTypeOK, BridgeTypeOK, StopsInOrder, GoesForNewer, FlagIsSet,
                OneInstaller, VerifiedStays, ProgramIsVerified, SuccessIsReady, Installers
<1> QED
    BY <1>1, <1>2, <1>3, <1>4, <1>5 DEF Next

\* The types of the model, for any number of calls, releases and processes.
THEOREM UpdateTypes == Spec => []UpdateTypeOK
<1>1. BaseInv => UpdateTypeOK
    BY DEF BaseInv
<1> QED
    BY <1>1, BaseInit, BaseStep, PTL DEF Spec

\* One install runs at a time, however many calls, retries and documents have
\* asked for one.
THEOREM OneInstallerHolds == Spec => []OneInstaller
<1>1. BaseInv => OneInstaller
    BY DEF BaseInv
<1> QED
    BY <1>1, BaseInit, BaseStep, PTL DEF Spec

\* What stands at the program's path or is kept as .old was verified, whatever
\* was downloaded, interrupted or moved back, on either platform.
THEOREM ProgramIsVerifiedHolds == Spec => []ProgramIsVerified
<1>1. BaseInv => ProgramIsVerified
    BY DEF BaseInv
<1> QED
    BY <1>1, BaseInit, BaseStep, PTL DEF Spec

-----------------------------------------------------------------------------
\* On Windows

\* A step that moves nothing the running program depends on.
LEMMA QuietKeeps ==
    ASSUME WinInv,
           files'.exe = files.exe, image' = image, running' = running,
           files'.old = files.old \/ image = "exe",
           updateReady' \/ restartRequested' => updateReady \/ restartRequested,
           mishap' \in BOOLEAN, mishap \in BOOLEAN, mishap => mishap',
           \A u \in workers' : u \in workers \/ u.job.at \notin {"aside", "swap", "back", "ready"},
           mishap' \/ \A u \in workers : u.job.at \in {"swap", "back"} => u \in workers'
    PROVE  WinInv'
<1>1. Placed'
    BY DEF WinInv, Placed
<1>2. WorkersFit'
    BY DEF WinInv, WorkersFit, Fits, Updated
<1>3. ReadyIsUpdated'
    BY DEF WinInv, ReadyIsUpdated, Updated
<1>4. GapIsASwap'
    BY DEF WinInv, GapIsASwap
<1> QED
    BY <1>1, <1>2, <1>3, <1>4 DEF WinInv

\* A step of the one worker that installs.
LEMMA InstallerFits ==
    ASSUME BaseInv, NEW w \in workers, w.job.at \in InstallSteps, NEW job \in Jobs,
           Becomes(w, job), Placed', Fits(job.at)', ReadyIsUpdated',
           ~mishap' /\ job.at \notin {"swap", "back"} => files'.exe \in Versions
    PROVE  WinInv'
<1>1. PICK v \in Workers : v.job = job /\ workers' = (workers \ {w}) \cup {v}
    BY BecomesOf DEF BaseInv
<1>2. \A u \in workers : u \in Installers <=> u.job.at \in InstallSteps
    BY ByStep DEF BaseInv, UpdateTypeOK, BridgeTypeOK, Workers
<1>3. \A u \in workers \ {w} : u.job.at \notin {"aside", "swap", "back", "ready"}
    BY <1>2 DEF BaseInv, OneInstaller, InstallSteps, Steps
<1>4. WorkersFit'
    BY <1>1, <1>3 DEF WorkersFit, Fits
<1>5. GapIsASwap'
    BY <1>1 DEF GapIsASwap
<1> QED
    BY <1>4, <1>5 DEF WinInv

\* A step of a worker that moves nothing but .new.
LEMMA QuietWorker ==
    ASSUME BaseInv, WinInv, NEW w \in workers, NEW job \in Jobs, Becomes(w, job),
           w.job.at \notin {"swap", "back"}, job.at \notin {"aside", "swap", "back", "ready"},
           UNCHANGED <<process, image, updateReady, restartRequested, mishap>>,
           files'.exe = files.exe, files'.old = files.old
    PROVE  WinInv'
<1>1. PICK v \in Workers : v.job = job /\ workers' = (workers \ {w}) \cup {v}
    BY BecomesOf DEF BaseInv
<1>2. /\ image' = image /\ running' = running /\ mishap' = mishap /\ mishap \in BOOLEAN
      /\ updateReady' = updateReady /\ restartRequested' = restartRequested
    BY DEF process, BaseInv, UpdateTypeOK
<1>3. \A u \in workers' : u \in workers \/ u.job.at \notin {"aside", "swap", "back", "ready"}
    BY <1>1
<1>4. \A u \in workers : u.job.at \in {"swap", "back"} => u \in workers'
    BY <1>1
<1> QED
    BY <1>2, <1>3, <1>4, QuietKeeps

LEMMA QuietWorkerSteps ==
    ASSUME BaseInv, WinInv, NEW w \in workers,
           \/ ReadRelease(w) \/ CheckReady(w) \/ Take(w) \/ Download(w) \/ Verify(w)
           \/ Undo(w) \/ Release(w)
    PROVE  WinInv'
<1>1. UpdateTypeOK /\ files \in Files /\ None \in Content /\ latest \in Versions \cup {None}
    BY DEF BaseInv, UpdateTypeOK, Content
<1>2. w.job.at # "begin" => w.job.info \in Content
    BY DEF BaseInv, GoesForNewer, Content
<1>3. /\ w.job.at \in {"begin", "check", "take", "download", "verify", "undo", "release"}
      /\ UNCHANGED <<process, image, updateReady, restartRequested, mishap>>
    BY DEF ReadRelease, CheckReady, Take, Download, Verify, Undo, Release, Goes, flags
<1>4. files'.exe = files.exe /\ files'.old = files.old
  <2>1. files' = files \/ \E c \in Content : files' = [files EXCEPT !.new = c]
    <3>1. CASE Download(w)
      BY <1>1, <1>2, <3>1 DEF Download, Goes, Content, Files
    <3>2. CASE ~Download(w)
      BY <1>1, <3>2 DEF ReadRelease, CheckReady, Take, Verify, Undo, Release
    <3> QED
      BY <3>1, <3>2
  <2>2. CASE files' # files
    <3>1. PICK c \in Content : files' = [files EXCEPT !.new = c]
      BY <2>1, <2>2
    <3>2. [files EXCEPT !.new = c].exe = files.exe /\ [files EXCEPT !.new = c].old = files.old
      BY <1>1, FilesWith
    <3> QED
      BY <3>1, <3>2
  <2> QED
    BY <2>2
<1>5. \E job \in Jobs : Becomes(w, job) /\ job.at \notin {"aside", "swap", "back", "ready"}
  <2>1. CASE ReadRelease(w)
    <3>1. LET job == Job("check", latest, "error")
          IN  job \in Jobs /\ job.at = "check"
      BY <1>1 DEF Job, Jobs, Steps
    <3> QED
      BY <2>1, <3>1 DEF ReadRelease
  <2>2. CASE ~ReadRelease(w)
    <3>1. \E to \in {"send", "take", "download", "verify", "undo", "clear", "release"} :
              Becomes(w, [w.job EXCEPT !.at = to])
      BY <2>2 DEF CheckReady, Take, Download, Verify, Undo, Release, Goes
    <3>2. PICK to \in {"send", "take", "download", "verify", "undo", "clear", "release"} :
              Becomes(w, [w.job EXCEPT !.at = to])
      BY <3>1
    <3>3. to \in Steps
      BY DEF Steps
    <3> QED
      BY ZenonT(60), <1>1, <3>2, <3>3, JobAt
  <2> QED
    BY <2>1, <2>2
<1> QED
    BY <1>3, <1>4, <1>5, QuietWorker

\* The steps that move the program's file, and the one that tells of it.
LEMMA MovingSteps ==
    ASSUME ~Posix, BaseInv, WinInv, NEW w \in workers,
           \/ ClearPrevious(w) \/ MoveAside(w) \/ Swap(w) \/ MoveBack(w) \/ Ready(w)
    PROVE  WinInv'
<1>1. /\ UpdateTypeOK /\ files \in Files /\ running \in Versions /\ mishap \in BOOLEAN
      /\ Placed /\ Fits(w.job.at) /\ ReadyIsUpdated /\ GapIsASwap
      /\ w.job.at \in {"clear", "aside", "swap"} => files.new = w.job.info
    BY DEF BaseInv, UpdateTypeOK, WinInv, WorkersFit, VerifiedStays
<1>2. w.job.at # "begin" => w.job.info \in Versions /\ w.job.info > running
    BY DEF BaseInv, GoesForNewer
<1>3. w.job.at \in InstallSteps /\ UNCHANGED process
    BY DEF ClearPrevious, MoveAside, Swap, MoveBack, Ready, Goes, InstallSteps, Steps
<1>4. running' = running /\ None \notin Versions
    BY <1>3, NotVersions DEF process
<1>5. ~mishap => w.job.at \in {"swap", "back"} \/ files.exe \in Versions
  <2>1. w \in Installers
    BY <1>3, ByStep DEF BaseInv, UpdateTypeOK, BridgeTypeOK, Workers
  <2>2. \A u \in workers : u.job.at \in {"swap", "back"} => u = w
    <3>1. \A u \in workers : u.job.at \in {"swap", "back"} => u \in Installers
      BY DEF Installers
    <3> QED
      BY <2>1, <3>1 DEF BaseInv, OneInstaller
  <2> QED
    BY <1>1, <2>2 DEF GapIsASwap
<1>6. CASE ClearPrevious(w)
  <2>1. /\ w.job.at = "clear"
        /\ UNCHANGED <<updateReady, restartRequested, mishap>>
    BY <1>6 DEF ClearPrevious, Goes, flags
  <2>2. PICK to \in {"aside", "undo"} :
            /\ Becomes(w, [w.job EXCEPT !.at = to])
            /\ to = "aside" => image = "exe" /\ files' = [files EXCEPT !.old = None]
            /\ to = "undo" => files' = files
            /\ image' = image
    BY <1>1, <1>4, <1>6 DEF ClearPrevious, Goes, Deletable, Placed
  <2>3. [w.job EXCEPT !.at = to] \in Jobs /\ [w.job EXCEPT !.at = to].at = to
    <3>1. to \in Steps
      BY DEF Steps
    <3> QED
      BY <1>1, <3>1, JobAt
  <2>4. files'.exe = files.exe /\ (files'.old = files.old \/ image = "exe")
    BY <1>1, <2>2, FilesMoved
  <2>5. Placed' /\ Fits(to)' /\ ReadyIsUpdated' /\ (~mishap' => files'.exe \in Versions)
    BY <1>1, <1>4, <1>5, <2>1, <2>2, <2>4 DEF Placed, Fits, ReadyIsUpdated, Updated
  <2> QED
    BY <1>3, <2>2, <2>3, <2>5, InstallerFits
<1>7. CASE MoveAside(w)
  <2>1. /\ w.job.at = "aside" /\ image = "exe"
        /\ UNCHANGED <<updateReady, restartRequested, mishap>>
    BY <1>1, <1>7 DEF MoveAside, Goes, flags, Fits
  <2>2. PICK to \in {"swap", "undo"} :
            /\ Becomes(w, [w.job EXCEPT !.at = to])
            /\ to = "swap" =>
                  image' = "old" /\ files' = [files EXCEPT !.old = files.exe, !.exe = None]
            /\ to = "undo" => image' = image /\ files' = files
    BY <1>7, <2>1 DEF MoveAside, Goes
  <2>3. [w.job EXCEPT !.at = to] \in Jobs /\ [w.job EXCEPT !.at = to].at = to
    <3>1. to \in Steps
      BY DEF Steps
    <3> QED
      BY <1>1, <3>1, JobAt
  <2>4. to = "swap" => files'.exe = None /\ files'.old = running
    BY <1>1, <2>1, <2>2, FilesMoved DEF Placed
  <2>5. ~updateReady /\ ~restartRequested
    BY <1>1, <2>1 DEF ReadyIsUpdated, Updated
  <2>6. Placed' /\ Fits(to)' /\ ReadyIsUpdated'
        /\ (~mishap' /\ to # "swap" => files'.exe \in Versions)
    BY <1>1, <1>4, <1>5, <2>1, <2>2, <2>4, <2>5 DEF Placed, Fits, ReadyIsUpdated, Updated
  <2> QED
    BY <1>3, <2>2, <2>3, <2>6, InstallerFits
<1>8. CASE Swap(w)
  <2>1. /\ w.job.at = "swap" /\ image = "old" /\ files.exe = None
        /\ ~updateReady /\ ~restartRequested
        /\ UNCHANGED <<image, updateReady, restartRequested, mishap>>
    BY <1>1, <1>8 DEF Swap, Goes, flags, Fits
  <2>2. PICK to \in {"ready", "back"} :
            /\ Becomes(w, [w.job EXCEPT !.at = to])
            /\ to = "ready" => files' = [files EXCEPT !.exe = files.new, !.new = None]
            /\ to = "back" => files' = files
    BY <1>8 DEF Swap, Goes
  <2>3. [w.job EXCEPT !.at = to] \in Jobs /\ [w.job EXCEPT !.at = to].at = to
    <3>1. to \in Steps
      BY DEF Steps
    <3> QED
      BY <1>1, <3>1, JobAt
  <2>4. /\ to = "ready" => files'.exe \in Versions /\ files'.exe > running
        /\ files'.old = files.old
    BY <1>1, <1>2, <2>1, <2>2, FilesMoved
  <2>5. Placed' /\ Fits(to)' /\ ReadyIsUpdated'
        /\ (~mishap' /\ to # "back" => files'.exe \in Versions)
    BY <1>1, <1>4, <2>1, <2>2, <2>4 DEF Placed, Fits, ReadyIsUpdated, Updated
  <2> QED
    BY <1>3, <2>2, <2>3, <2>5, InstallerFits
<1>9. CASE MoveBack(w)
  <2>1. /\ w.job.at = "back" /\ image = "old" /\ files.exe = None /\ files.old = running
        /\ ~updateReady /\ ~restartRequested
        /\ UNCHANGED <<updateReady, restartRequested>>
        /\ Becomes(w, [w.job EXCEPT !.at = "undo"])
    BY <1>1, <1>9 DEF MoveBack, Goes, flags, Fits, Placed
  <2>2. \/ /\ files' = [files EXCEPT !.exe = files.old, !.old = None]
           /\ image' = "exe"
        \/ mishap' /\ files' = files /\ image' = image
    BY <1>9, <2>1 DEF MoveBack
  <2>3. [w.job EXCEPT !.at = "undo"] \in Jobs /\ [w.job EXCEPT !.at = "undo"].at = "undo"
    BY <1>1, JobAt DEF Steps
  <2>4. \/ files'.exe = running /\ image' = "exe"
        \/ mishap' /\ files' = files /\ image' = image
    BY <1>1, <2>1, <2>2, FilesMoved
  <2>5. Placed' /\ Fits("undo")' /\ ReadyIsUpdated' /\ (~mishap' => files'.exe \in Versions)
    BY <1>1, <1>4, <2>1, <2>4 DEF Placed, Fits, ReadyIsUpdated
  <2> QED
    BY <1>3, <2>1, <2>3, <2>5, InstallerFits
<1>10. CASE Ready(w)
  <2> DEFINE job == Job("release", w.job.info, "ok")
  <2>1. /\ w.job.at = "ready" /\ Becomes(w, job)
        /\ UNCHANGED <<files, image, restartRequested, mishap>>
    BY <1>10 DEF Ready
  <2>2. job \in Jobs /\ job.at = "release"
    BY <1>2, <2>1 DEF Job, Jobs, Steps
  <2> HIDE DEF job
  <2>3. Updated /\ files.exe \in Versions
    BY <1>1, <2>1 DEF Fits, Updated
  <2>4. Placed' /\ Fits("release")' /\ ReadyIsUpdated' /\ files'.exe \in Versions
    BY <1>1, <1>4, <2>1, <2>3 DEF Placed, Fits, ReadyIsUpdated, Updated
  <2> QED
    BY <1>3, <2>1, <2>2, <2>4, InstallerFits
<1> QED
    BY <1>6, <1>7, <1>8, <1>9, <1>10

\* A process that is started is the program at the path.
LEMMA StartPlaces ==
    ASSUME BaseInv, Start
    PROVE  WinInv'
<1>1. /\ workers' = {} /\ image' = "exe" /\ running' = files.exe /\ files.exe \in Versions
      /\ ~updateReady' /\ ~restartRequested'
    BY DEF Start, Emptied, Forgotten
<1>2. files'.exe = files.exe
  <2>1. files \in Files /\ None \in Content
    BY DEF BaseInv, UpdateTypeOK, Content
  <2>2. [files EXCEPT !.new = None].exe = files.exe
    BY <2>1, FilesWith
  <2> QED
    BY <2>2 DEF Start
<1> QED
    BY <1>1, <1>2 DEF WinInv, Placed, WorkersFit, ReadyIsUpdated, GapIsASwap

LEMMA WinInit == Init => WinInv
BY UpdateAssumption DEF Init, Fresh, WinInv, Placed, WorkersFit, ReadyIsUpdated, GapIsASwap, Versions

LEMMA WinStep ==
    ASSUME ~Posix, BaseInv, WinInv, [Next]_vars
    PROVE  WinInv'
<1>1. mishap \in BOOLEAN
    BY DEF BaseInv, UpdateTypeOK
<1>2. CASE Check \/ InstallUpdate \/ TimesOut \/ Reload \/ Finish
  <2>1. UNCHANGED <<workers, files, image, running, updateReady, restartRequested, mishap>>
    BY <1>2 DEF Check, InstallUpdate, TimesOut, Reload, Finish, bridgeVars, Calling, TimingOut,
                Reloading, Finishing, process, flags
  <2> QED
    BY <1>1, <2>1, QuietKeeps
<1>3. CASE StartWorker
  <2> DEFINE v == [call |-> Head(kicks), job |-> Job("begin", None, "error")]
  <2>1. /\ workers' = workers \cup {v} /\ v.job.at = "begin"
        /\ UNCHANGED <<files, image, running, updateReady, restartRequested, mishap>>
    BY <1>3 DEF StartWorker, Starting, Job, process, flags
  <2> HIDE DEF v
  <2> QED
    BY <1>1, <2>1, QuietKeeps
<1>4. CASE RestartApp \/ Quit \/ End
  <2>1. /\ workers' = workers
        /\ UNCHANGED <<files, image, running, mishap>>
        /\ updateReady' \/ restartRequested' => updateReady \/ restartRequested
    BY <1>4 DEF RestartApp, Quit, End, Stopping, Closing, Forgotten, bridgeVars, process, flags
  <2> QED
    BY <1>1, <2>1, QuietKeeps
<1>5. CASE Kill
  <2>1. /\ workers' = {} /\ UNCHANGED <<files, image, running>>
        /\ ~updateReady' /\ ~restartRequested' /\ mishap' = TRUE
    BY <1>5 DEF Kill, Emptied, Forgotten
  <2> QED
    BY <1>1, <2>1, QuietKeeps
<1>6. CASE Start
    BY <1>6, StartPlaces
<1>7. CASE CleanUp
  <2>1. UNCHANGED <<workers, running, updateReady, restartRequested, mishap>>
    BY <1>7 DEF CleanUp, bridgeVars, flags
  <2>2. files \in Files /\ running \in Versions /\ None \notin Versions /\ Placed
    BY NotVersions DEF BaseInv, UpdateTypeOK, WinInv
  <2>3. \/ files' = files /\ image' = image
        \/ image = "exe" /\ image' = image /\ files' = [files EXCEPT !.old = None]
    BY <1>7, <2>2 DEF CleanUp, Deletable, Placed
  <2>4. files'.exe = files.exe /\ image' = image /\ (files'.old = files.old \/ image = "exe")
    BY <2>2, <2>3, FilesMoved
  <2> QED
    BY <1>1, <2>1, <2>4, QuietKeeps
<1>8. CASE Work
  <2>1. PICK w \in workers : WorkerStep(w)
    BY <1>8 DEF Work
  <2>2. CASE SendAnswer(w)
    <3>1. /\ workers' = workers \ {w} /\ w.job.at = "send"
          /\ UNCHANGED <<files, image, running, updateReady, restartRequested, mishap>>
      BY <2>2 DEF SendAnswer, Sending, process, flags
    <3>2. \A u \in workers : u.job.at \in {"swap", "back"} => u \in workers'
      BY <3>1
    <3> QED
      BY <1>1, <3>1, <3>2, QuietKeeps
  <2> QED
    BY <2>1, <2>2, QuietWorkerSteps, MovingSteps DEF WorkerStep
<1>9. CASE UNCHANGED vars
  <2>1. UNCHANGED <<workers, files, image, running, updateReady, restartRequested, mishap>>
    BY <1>9 DEF vars, bridgeVars, process, flags
  <2> QED
    BY <1>1, <2>1, QuietKeeps
<1> QED
    BY <1>2, <1>3, <1>4, <1>5, <1>6, <1>7, <1>8, <1>9 DEF Next, UIThread

LEMMA WinAlways ==
    ASSUME ~Posix
    PROVE  Spec => [](BaseInv /\ WinInv)
<1>1. Init => BaseInv /\ WinInv
    BY BaseInit, WinInit
<1>2. BaseInv /\ WinInv /\ [Next]_vars => (BaseInv /\ WinInv)'
    BY BaseStep, WinStep
<1> QED
    BY <1>1, <1>2, PTL DEF Spec

\* On Windows there is always a version to go back to, however installs, their
\* clean-up, the clean-up of the last update, kills and restarts overlap.
THEOREM VersionRemainsHolds ==
    ASSUME ~Posix
    PROVE  Spec => []VersionRemains
<1>1. BaseInv /\ WinInv => VersionRemains
    BY DEF BaseInv, UpdateTypeOK, WinInv, Placed, VersionRemains
<1> QED
    BY <1>1, WinAlways, PTL

\* On Windows a program that was quit, and could move its file back, is there
\* to be started again.
THEOREM QuitLeavesProgramHolds ==
    ASSUME ~Posix
    PROVE  Spec => []QuitLeavesProgram
<1>1. BaseInv /\ WinInv => QuitLeavesProgram
    BY DEF BaseInv, StopsInOrder, WinInv, GapIsASwap, QuitLeavesProgram
<1> QED
    BY <1>1, WinAlways, PTL

\* On Windows a page that says it is restarting gets its restart, into a newer
\* version than the one that ran.
THEOREM RestartRunsUpdateHolds ==
    ASSUME ~Posix
    PROVE  Spec => []RestartRunsUpdate
<1>1. BaseInv /\ WinInv => RestartRunsUpdate
    BY DEF BaseInv, SuccessIsReady, WinInv, ReadyIsUpdated, Updated, RestartRunsUpdate
<1> QED
    BY <1>1, WinAlways, PTL

=============================================================================
