-------------------------- MODULE SettingsFlow --------------------------
(***************************************************************************)
(* A preference, from a click to what it does: the page's copy of the      *)
(* settings and its queue of changes (settings.ts, taskQueue.ts), the      *)
(* calls to Go and their answers, the settings that are stored, and what   *)
(* they stand for: the hotkey the tray thread has registered with Windows, *)
(* and whether the window hides by itself.                                 *)
(*                                                                         *)
(* The page has two threads of control, the queue and the start of a       *)
(* (re)loaded page, each with one call under way at most.  Calls run on    *)
(* the UI thread in the order they were made; their answers come in that   *)
(* order too.                                                              *)
(*                                                                         *)
(* Simplifications:                                                        *)
(*   - of the settings, three fields are kept: one with an effect on the   *)
(*     window (the other, topmost, goes the same way), one without, and    *)
(*     the hotkey;                                                         *)
(*   - a hotkey's name stands for its combination: no two names but the    *)
(*     empty one and the default's mean the same;                          *)
(*   - the sign-in entry of the registry is in EntryService;               *)
(*   - an export takes its turn in the queue and changes nothing.          *)
(***************************************************************************)
EXTENDS Naturals, Sequences

CONSTANTS
    Combos,      \* combinations that can be registered
    Default,     \* the one an empty preference means
    Empty, Off,  \* the other two names of a preference
    Backups,     \* the settings in the files to import
    MaxChanges,  \* bound: changes by the user
    MaxFaults    \* bound: failures, reloads, steps of other programs

ASSUME CombosAssumption ==
    /\ Default \in Combos
    /\ Empty \notin Combos \cup {Off} /\ Off \notin Combos

Fields == {"stays", "seen", "hotkey"}
Names == Combos \cup {Empty, Off}
Settings == {s \in [Fields -> BOOLEAN \cup Names] :
                s["stays"] \in BOOLEAN /\ s["seen"] \in BOOLEAN /\ s["hotkey"] \in Names}

ASSUME BackupsAssumption == Backups \subseteq Settings

VARIABLES
    stored,    \* the settings of the service
    legacy,    \* they are still in settings.json only
    readable,  \* which can be read now
    live,      \* the hotkey registered, or Off
    others,    \* the combinations other programs have registered
    tray,      \* the tray thread in applyHotkey
    hides,     \* the window hides by itself (not autoHideDisabled)

    copy,      \* state.settings
    keyError,  \* hotkeyError is shown
    queue,     \* changes waiting for their turn
    jobs,      \* the page's two threads
    posted,    \* calls on their way to Go
    answers    \* and answers on their way back

\* History and bounds.
VARIABLES
    known,     \* the page has read the settings, before any change was made
    overtaken, \* a shortcut was applied again behind one being changed
    changes, faults

go == <<stored, legacy, readable, hides>>
keys == <<live, others, tray>>
page == <<copy, keyError, queue, jobs, known, overtaken>>
vars == <<go, keys, page, posted, answers, changes, faults>>

-----------------------------------------------------------------------------
Builtin == [f \in Fields |-> IF f = "hotkey" THEN Empty ELSE FALSE]

\* hotkey.Resolve; Off stands for none.
Resolve(name) == IF name = Empty THEN Default ELSE name

Threads == {"queue", "start"}
NoJob == [at |-> "idle", kind |-> "none"]
Loading == [at |-> "get", kind |-> "load"]
GetCall(t) == [by |-> t, call |-> "get"]
Resting == [at |-> "rests"]

Quiet ==
    /\ queue = <<>> /\ posted = <<>> /\ answers = <<>>
    /\ \A t \in Threads : jobs[t] = NoJob

\* A process starts with what it can read, and the tray registers the hotkey
\* unless another program has it.
Init ==
    /\ stored \in Backups /\ legacy \in BOOLEAN /\ readable \in {TRUE, ~legacy}
    /\ others \in SUBSET Combos
    /\ LET s == IF readable THEN stored ELSE Builtin
       IN  /\ live = IF Resolve(s["hotkey"]) \in others THEN Off ELSE Resolve(s["hotkey"])
           /\ hides = ~s["stays"]
    /\ tray = Resting
    /\ copy = Builtin /\ keyError = FALSE /\ known = FALSE /\ overtaken = FALSE
    /\ queue = <<>>
    /\ jobs = [t \in Threads |-> IF t = "start" THEN Loading ELSE NoJob]
    /\ posted = <<GetCall("start")>> /\ answers = <<>>
    /\ changes = 0 /\ faults = 0

-----------------------------------------------------------------------------
\* The user

Changes == changes < MaxChanges /\ changes' = changes + 1
Fault == faults < MaxFaults /\ faults' = faults + 1

\* A page that still starts takes changes too.
Enqueue(change) ==
    /\ Changes
    /\ queue' = Append(queue, change)
    /\ UNCHANGED <<go, keys, copy, keyError, jobs, known, overtaken, posted, answers, faults>>

\* settingsPending, which disables what changes a preference or imports.
Pending ==
    \/ \E i \in DOMAIN queue : queue[i].kind # "import"
    \/ jobs["queue"].kind \in {"save", "hotkey"}

\* The pin in the header, or a control in Settings.
SavePreference == \E b \in BOOLEAN :
    ~Pending /\ Enqueue([kind |-> "save", patch |-> [f \in {"stays"} |-> b]])

\* Opening Settings marks the update as seen, whatever else is going on.
OpenSettings == ~copy["seen"] /\ Enqueue([kind |-> "save", patch |-> [f \in {"seen"} |-> TRUE]])

PickHotkey == \E name \in Combos \cup {Off} :
    ~Pending /\ Enqueue([kind |-> "hotkey", name |-> name])

Import == ~Pending /\ Enqueue([kind |-> "import"])

-----------------------------------------------------------------------------
\* The queue of the page

\* A save says, for the properties, what was asked for and on what grounds.
Save(patch) ==
    [by |-> "queue", call |-> "save", patch |-> patch, known |-> known,
     arg |-> [f \in Fields |-> IF f \in DOMAIN patch THEN patch[f] ELSE copy[f]]]
SetHotkey(t, name) == [by |-> t, call |-> "hotkey", arg |-> name]
ApplyAutoHide(t, enabled) == [by |-> t, call |-> "hides", arg |-> enabled]

Calls(c) == posted' = Append(posted, c)

\* Mutant: a change does not wait for the one before it.
TurnAtOnce == queue # <<>>

\* The next change gets its turn when the one before it has settled.
Turn == queue # <<>> /\ jobs["queue"] = NoJob

Begin ==
    LET c == Head(queue)
        Takes(job, call) == jobs' = [jobs EXCEPT !["queue"] = job] /\ Calls(call)
    IN  /\ Turn
        /\ queue' = Tail(queue)
        /\ CASE c.kind = "save" -> Takes([at |-> "save", kind |-> "save"], Save(c.patch))
             [] c.kind = "import" -> Takes([at |-> "import", kind |-> "import"],
                                           [by |-> "queue", call |-> "import"])
             [] c.kind = "hotkey" -> Takes([at |-> "apply", kind |-> "hotkey", name |-> c.name,
                                            previous |-> copy["hotkey"]],
                                           SetHotkey("queue", c.name))
        /\ keyError' = (keyError /\ c.kind # "hotkey")
        /\ overtaken' = (overtaken /\ c.kind # "hotkey")
        /\ UNCHANGED <<go, keys, copy, known, answers, changes, faults>>

-----------------------------------------------------------------------------
\* The page, when an answer comes

Answer == Head(answers)
Awaits(t, at) ==
    /\ answers # <<>> /\ Answer.by = t /\ jobs[t].at = at
    /\ answers' = Tail(answers)
    /\ UNCHANGED <<go, keys, queue, changes, faults>>

Goes(t, at, call) == jobs' = [jobs EXCEPT ![t].at = at] /\ Calls(call)
Ends(t) == jobs' = [jobs EXCEPT ![t] = NoJob] /\ UNCHANGED posted

\* Mutant: a refusal is shown, and the change never settles.
KeyAppliedOrStuck ==
    /\ Awaits("queue", "apply")
    /\ IF Answer.ok
         THEN /\ Goes("queue", "save", Save([f \in {"hotkey"} |-> jobs["queue"].name]))
              /\ UNCHANGED keyError
         ELSE keyError' = TRUE /\ UNCHANGED <<jobs, posted>>
    /\ UNCHANGED <<copy, known, overtaken>>

\* applyHotkey: what Windows has taken is stored ...
KeyApplied ==
    /\ Awaits("queue", "apply")
    /\ IF Answer.ok
         THEN /\ Goes("queue", "save", Save([f \in {"hotkey"} |-> jobs["queue"].name]))
              /\ UNCHANGED keyError
         ELSE Ends("queue") /\ keyError' = TRUE
    /\ UNCHANGED <<copy, known, overtaken>>

\* Mutant: a shortcut that could not be stored stays registered.
SavedOrNot ==
    /\ Awaits("queue", "save")
    /\ IF Answer.ok THEN copy' = Answer.value ELSE UNCHANGED copy
    /\ IF Answer.ok /\ jobs["queue"].kind = "save"
         THEN Goes("queue", "effect", ApplyAutoHide("queue", ~copy'["stays"]))
         ELSE Ends("queue")
    /\ UNCHANGED <<keyError, known, overtaken>>

\* ... or undone.  persistSettings publishes what Go has stored, and the
\* window follows.
Saved ==
    /\ Awaits("queue", "save")
    /\ IF Answer.ok THEN copy' = Answer.value ELSE UNCHANGED copy
    /\ CASE Answer.ok /\ jobs["queue"].kind = "save" ->
              Goes("queue", "effect", ApplyAutoHide("queue", ~copy'["stays"]))
         [] ~Answer.ok /\ jobs["queue"].kind = "hotkey" ->
              Goes("queue", "back", SetHotkey("queue", jobs["queue"].previous))
         [] OTHER -> Ends("queue")
    /\ UNCHANGED <<keyError, known, overtaken>>

KeyRestored ==
    /\ Awaits("queue", "back")
    /\ Ends("queue")
    /\ keyError' = (keyError \/ ~Answer.ok)
    /\ UNCHANGED <<copy, known, overtaken>>

\* Mutant: the page goes on with its copy after an import.
ImportedOnly ==
    /\ Awaits("queue", "import")
    /\ Ends("queue")
    /\ UNCHANGED <<copy, keyError, known, overtaken>>

\* An import that was not cancelled is followed by loadSettings.
Imported ==
    /\ Awaits("queue", "import")
    /\ IF Answer.ok THEN Goes("queue", "get", GetCall("queue")) ELSE Ends("queue")
    /\ UNCHANGED <<copy, keyError, known, overtaken>>

\* loadSettings, of a page that starts or after an import.
Loaded(t) ==
    /\ Awaits(t, "get")
    /\ IF Answer.ok THEN copy' = Answer.value ELSE UNCHANGED copy
    /\ known' = (known \/ (Answer.ok /\ queue = <<>> /\ jobs["queue"] = NoJob))
    /\ jobs' = [jobs EXCEPT ![t].at = IF Answer.ok THEN "effect" ELSE "blind"]
    /\ Calls(ApplyAutoHide(t, ~copy'["stays"]))
    /\ UNCHANGED <<keyError, overtaken>>

\* What was not read is not registered either.  The start does not wait for
\* its turn: a change of the shortcut may be under way.
EffectDone(t) ==
    /\ \/ Awaits(t, "effect") \/ Awaits(t, "blind")
    /\ IF jobs[t].at = "effect" /\ jobs[t].kind # "save"
         THEN /\ Goes(t, "reapply", SetHotkey(t, copy["hotkey"]))
              /\ overtaken' = (jobs["queue"].kind = "hotkey")
         ELSE Ends(t) /\ UNCHANGED overtaken
    /\ UNCHANGED <<copy, keyError, known>>

KeyReapplied(t) ==
    /\ Awaits(t, "reapply")
    /\ Ends(t)
    /\ keyError' = ~Answer.ok
    /\ UNCHANGED <<copy, known, overtaken>>

-----------------------------------------------------------------------------
\* Go: the bindings, on the UI thread

Call == Head(posted)
Receives(name) == posted # <<>> /\ Call.call = name
Replies(ok, value) ==
    /\ posted' = Tail(posted)
    /\ answers' = IF Call.by = "nobody" THEN answers
                  ELSE Append(answers, [by |-> Call.by, ok |-> ok, value |-> value])
Fails == Replies(FALSE, Builtin) /\ UNCHANGED <<stored, legacy>>

\* loadSettingsLocked fails, or the write, or the registry.
GetSettings ==
    /\ Receives("get")
    /\ IF legacy /\ ~readable THEN Fails ELSE Replies(TRUE, stored) /\ UNCHANGED <<stored, legacy>>
    /\ UNCHANGED <<readable, hides, keys, page, changes, faults>>

SaveSettings ==
    /\ Receives("save")
    /\ \/ /\ ~(legacy /\ ~readable)
          /\ Replies(TRUE, Call.arg) /\ stored' = Call.arg /\ legacy' = FALSE
          /\ UNCHANGED faults
       \/ Fails /\ IF legacy /\ ~readable THEN UNCHANGED faults ELSE Fault
    /\ UNCHANGED <<readable, hides, keys, page, changes>>

\* The dialog is cancelled, or the file or the write fails, or the backup's
\* settings replace the ones there are.
ImportData ==
    /\ Receives("import")
    /\ \/ /\ ~(legacy /\ ~readable)
          /\ stored' \in Backups /\ legacy' = FALSE
          /\ Replies(TRUE, Builtin)
       \/ Fails
    /\ UNCHANGED <<readable, hides, keys, page, changes, faults>>

SetAutoHide ==
    /\ Receives("hides")
    /\ hides' = Call.arg
    /\ Replies(TRUE, Builtin)
    /\ UNCHANGED <<stored, legacy, readable, keys, page, changes, faults>>

-----------------------------------------------------------------------------
\* Go: applyHotkey on the tray thread, for which SetHotkey waits

Unregister ==
    /\ Receives("hotkey") /\ tray = Resting
    /\ live' = Off
    /\ tray' = [at |-> "registers", prev |-> live]
    /\ UNCHANGED <<go, others, page, posted, answers, changes, faults>>

Returns(ok) == tray' = Resting /\ Replies(ok, Builtin)

\* Mutant: a refusal leaves nothing registered.
RegisterOnly ==
    LET combo == Resolve(Call.arg)
    IN  /\ tray.at = "registers"
        /\ live' = IF combo \in others THEN Off ELSE combo
        /\ Returns(combo \notin others)
        /\ UNCHANGED <<go, others, page, changes, faults>>

Register ==
    LET combo == Resolve(Call.arg)
    IN  /\ tray.at = "registers"
        /\ IF combo \in others /\ tray.prev # Off
             THEN tray' = [tray EXCEPT !.at = "restores"] /\ UNCHANGED <<live, posted, answers>>
             ELSE /\ live' = IF combo \in others THEN Off ELSE combo
                  /\ Returns(combo \notin others)
        /\ UNCHANGED <<go, others, page, changes, faults>>

Restore ==
    /\ tray.at = "restores"
    /\ live' = IF tray.prev \in others THEN Off ELSE tray.prev
    /\ Returns(FALSE)
    /\ UNCHANGED <<go, others, page, changes, faults>>

-----------------------------------------------------------------------------
\* The world

OthersRegister == \E c \in Combos \ (others \cup {live}) :
    /\ Fault
    /\ others' = others \cup {c}
    /\ UNCHANGED <<go, live, tray, page, posted, answers, changes>>

OthersUnregister == \E c \in others :
    /\ Fault
    /\ others' = others \ {c}
    /\ UNCHANGED <<go, live, tray, page, posted, answers, changes>>

FileChanges ==
    /\ legacy /\ Fault
    /\ readable' = ~readable
    /\ UNCHANGED <<stored, legacy, hides, keys, page, posted, answers, changes>>

\* The page is loaded again: Go finishes what it has been called for.
Reload ==
    /\ Fault
    /\ copy' = Builtin /\ keyError' = FALSE /\ known' = FALSE /\ overtaken' = FALSE
    /\ queue' = <<>>
    /\ jobs' = [t \in Threads |-> IF t = "start" THEN Loading ELSE NoJob]
    /\ posted' = Append([i \in DOMAIN posted |-> [posted[i] EXCEPT !.by = "nobody"]],
                        GetCall("start"))
    /\ answers' = <<>>
    /\ UNCHANGED <<go, keys, changes>>

-----------------------------------------------------------------------------
User == SavePreference \/ OpenSettings \/ PickHotkey \/ Import
Page ==
    \/ Begin \/ KeyApplied \/ Saved \/ KeyRestored \/ Imported
    \/ \E t \in Threads : Loaded(t) \/ EffectDone(t) \/ KeyReapplied(t)
UIThread == GetSettings \/ SaveSettings \/ SetAutoHide
TrayThread == Unregister \/ Register \/ Restore
World == OthersRegister \/ OthersUnregister \/ FileChanges \/ Reload

Next == User \/ Page \/ UIThread \/ ImportData \/ TrayThread \/ World

\* The threads go on; a file dialog may stay open, and nobody has to act.
Spec ==
    /\ Init /\ [][Next]_vars
    /\ WF_vars(Page) /\ WF_vars(UIThread) /\ WF_vars(TrayThread)

-----------------------------------------------------------------------------
\* Properties

\* Whatever succeeded, failed or was interrupted: once nothing is under way,
\* the page shows what is stored, and the window does it (comment of
\* persistSettings, "an effect failing after the write ...").
PageAgrees ==
    Quiet /\ known => copy = stored /\ hides = ~stored["stays"]

\* And the shortcut stored is the one registered, unless the page shows an
\* error: what was registered is undone if it cannot be stored, and a conflict
\* at the start reaches the page (comments of applyHotkey and loadSettings).
\* The exception is a shortcut that a start (loadSettings) applied again while
\* a change of it was under way.
KeyAgrees ==
    Quiet /\ known /\ ~keyError /\ ~overtaken => live = Resolve(stored["hotkey"])

\* "Register and persist as one queued operation; restore on a failed write."
\* (settings.ts:38): without that exception.
KeyInStep ==
    Quiet /\ known /\ ~keyError => live = Resolve(stored["hotkey"])

\* A save changes what was asked for and nothing else: changes and imports
\* share a queue "so snapshots cannot overwrite each other".  Except for a page
\* that has not read the settings it saves.
OnlyWhatWasAsked ==
    [][SaveSettings /\ Call.known =>
          \A f \in Fields : f \notin DOMAIN Call.patch => stored'[f] = stored[f]]_vars

\* Trying a combination does not cost the user the one registered, unless
\* another program takes it in between (comment of the tray's applyHotkey).
TryingCostsNothing ==
    [][tray # Resting /\ tray' = Resting /\ live' = Off =>
          Resolve(Call.arg) = Off \/ tray.prev \in others \cup {Off}]_vars

\* One change that fails does not hold up the next (taskQueue.ts), and the
\* controls are enabled again, as soon as the user has closed the dialog.
QueueDrains ==
    Pending ~> ~Pending \/ Receives("import")

=============================================================================
