# CopyNote: TLA+ models, checks and proofs

CopyNote keeps short texts in a list that slides out of the notification area.
It is a Go program with a web page (Svelte) inside a native window, for Windows
and macOS.  This directory models the parts of it in which the order of things
matters, checks the models with TLC and proves theorems about them with TLAPS.

    tlc -workers 2 -config datafile_posix.cfg MCDataFile
    tlapm DataFileProofs.tla

`PROJECT.json` lists the components, the runs, the source lines behind every
definition, the hazards and the theorems.  Every definition marked *Mutant* in a
module is a plausible bug and no part of the model: it shows that the property
of a run notices it.

## 1. The system

| Part | State | Operations | Who calls it |
|---|---|---|---|
| Data file (`internal/storage`, `app.go`) | `data.json`, `data.json.bak`, `.corrupt-*` copies, a temporary file | Load, Save (backup first), RestoreBackup after a dialog | the service at start, and under its lock |
| Entry service (`internal/service`, `internal/model`) | the published snapshot (entries and settings), the OS sign-in registration | Create, Update, Delete, Reorder, ImportData, ExportData, SaveSettings, EnsureAutorunPath | bindings of the page, main |
| Windows window (`window_windows.go`) | phase, pending request, preparation id and timer, generation, cancelled slide, the last deactivation | show, showSettings, hide, toggleVisibility, resizeToContent, completeWindowPreparation, animateY | tray, hotkey, page, slides, timer, WM_ACTIVATEAPP |
| macOS window (`window_darwin.go`) | the same phases without slides, the request that waits for the page | requestWindow, hideWindow, toggleWindow, onResignActive | status item, hotkey, page, timer |
| Page: show/hide contract (`web/src/App.svelte`) | visible, view, modal, preparation, shield | `__onShow`, `__onHide`, `__onWindowTransition`, `__openSettings` | scripts evaluated by Go |
| Async bridge (`internal/bridge`) | workers, closed; the page's pending promises | Bind, Close | update checks and installs |
| Self-update (`update.go`, `internal/updater`) | latestRelease, installing, updateReady, restartRequested; the program's file, `.new`, `.old` | installUpdate, restartApp, Apply, RemoveStaging, RemovePrevious | page, startup |
| Startup, single instance, shutdown (`main_*.go`, `internal/singleton`) | mutex or lock file, tray window, readiness, shutdown order | Acquire, ShowRunningInstance, relaunch, waitForRelaunchParent | the OS, the user |
| Tray and hotkey (`internal/tray`, `internal/hotkey`) | readiness, tray window, registered hotkey | Run, Stop, SetReady, SetHotkey | main, bindings |
| Settings queue (`web/src/lib/settings.ts`, `taskQueue.ts`) | the page's copy of the settings, a task queue | saveSettings, applyHotkey, importSettings, loadSettings | the settings form |
| Entry mirror (`web/src/lib/entries.ts`, `EntryList.svelte`) | the page's list, a drag, the click to swallow | refresh, create, update, delete, reorder, drag and keys | the user, `__onHide` |
| Entry menu (`entryMenu.ts`, `entrymenu_windows.go`, `internal/popupmenu`) | a token and its promise, the popup on screen | openEntryMenu, Show, Close, the answer | the user, the page, the loss of focus |
| Moving the executable, clipboard, Win32 wrappers, UI components | see section 6 | | |

How they interact.  The page calls Go through bindings, which run on the UI
thread one at a time; slow ones go through the async bridge to goroutines.  Go
calls the page by evaluating scripts, which are lost while the page has no
handlers.  The service has one lock; every change makes a complete snapshot,
writes it, and publishes it only when the file is written.  The tray has a
thread of its own and dispatches to the UI thread.  Slides of the window run on
goroutines and move the window from outside the UI thread.

What is hard about it: crashes and power losses between the steps of a save; a
sign-in registration that has to agree with a file; slides, timers, resizes and
user requests that overtake each other; calls that get lost in a page being
loaded; workers that outlive the promise they work for; a relaunch that has to
get past its own single-instance lock.  `hazards` in `PROJECT.json` gives each at
its line.

What makes each part correct:

- *Data file*: what was reported saved is found again; no file is ever torn;
  nothing unreadable is thrown away; a replaced snapshot is in the backup.
- *Entry service*: order values stay 0..n-1; only what was asked for changes
  places; an import merges; the sign-in registration agrees with the settings.
- *Window*: hidden is off-screen; shown is in the corner; every request is
  carried out, page or no page.
- *Page*: the view shown was prepared off-screen; keys and pointer are taken
  exactly when they are meant for CopyNote.
- *Bridge, update, startup*: an answer settles its own call; Close waits for
  workers and nothing touches a destroyed window; the program's file is never
  missing or unverified; after a restart one copy runs.
- *Settings and hotkey*: a save overwrites no preference stored in the meantime;
  the registered hotkey is the stored one, and trying another does not lose it.
- *Entries on the page*: once everything is answered the page shows the service's
  list; a click or a pick acts on the entry it was made on.

## 2. The modules

    SnapshotStore                     what a store of snapshots promises
      ^ implemented by
    DataFile <- MCDataFile            storage.go, replace_*.go, recovery in app.go
      ^ proved about in DataFileProofs
    Entries                           service.go: what an operation makes of a list
      ^ proved about in ListProofs
    EntryService <- MCEntryService    service.go, settings.go, model
      ^ extends Entries, proved about in EntryProofs
    WindowCycle <- MCWindowCycle      window_windows.go: the show/hide cycle
      ^ extended by
    WindowToggle <- MCWindowToggle    who has the foreground, clicks, the hotkey
      ^ proved about, with WindowCycle, in WindowProofs
    MacWindow                         window_darwin.go, with WindowCycle's variables
      ^ extended by
    PageCycle <- MCPageCycle          App.svelte, on top of either window
      ^ proved about in PageProofs
    AsyncBridge                       async.go: the steps of a call
      ^ extended by
    SelfUpdate                        update.go, internal/updater, updates.ts
      ^ proved about in UpdateProofs
    Launch                            main_windows.go, singleton, the tray's thread
      ^ proved about in LaunchProofs
    SettingsFlow <- MCSettingsFlow    settings.ts, the service, the tray's hotkey
      ^ proved about in SettingsProofs
    EntryMenu                         entryMenu.ts, popupmenu_windows.go
      ^ extended, with Entries, by
    EntryPage <- MCEntryPage          entries.ts, EntryList.svelte
      ^ proved about, with EntryService, in EntryProofs

**SnapshotStore** is abstract: a live snapshot and the saved one.  A save
happens at once; publishing follows it; a stop loses the live one; harm from
outside can be undone only by restoring an earlier snapshot.

**DataFile** has the disk as the program sees it (`disk`), what would survive a
power loss (`media`), the snapshot in memory, and where the program is (`pc`)
inside Load, the recovery dialog, Save or RestoreBackup, with `wr` for the steps
of WriteAtomic: the temporary file is written and synced, then renamed, then on
POSIX the directory is synced.  Each may fail or be interrupted by `Kill` or
`PowerLoss`; `Harm` is another program writing over a file.  `Survivors` is what
a power loss may leave of a rename that was not synced: the old or the new
content.  The constant `Posix` chooses between `replace_other.go` and
`replace_windows.go`.

**Entries** has the list operations as plain operators: a list is a sequence in
storage order whose elements carry an `order`, as in `data.json`, and `Listed`
is the order shown.  An entry is an id, a text (label and value together) and an
order; ids are never reused, as UUIDs are.  What a filter leaves is `Picked`, the
elements at a set of places in their order; it says what SelectSeq says without
its recursion, so that it can be reasoned about.

**EntryService** has the handlers.  A handler that changes the settings goes
through three steps at which it can fail or be killed: registering with the OS,
saving, and restoring the registration when the save failed.  The service lock
is what makes one handler at a time (`pc`, `op`, `next`).  Saving is one step
here: that it is all or nothing is what DataFile shows.  `unaligned` records
that the restoration of the registration failed, which the code reports as an
error and can do no more about before the next start.  The lists it starts with
are packed: a data file edited by hand is not validated for that by the code.

**WindowCycle** has one variable per package variable of `window_windows.go`
(`phase`, `pending`, `prepId`, `timer`, `generation`, `cancelled`), the window's
size and place, the slides under way with the step each is at, and the queue of
functions dispatched to the UI thread (`inbox`).  A slide's check and its
SetWindowPos are two steps, because the goroutine does not hold the UI thread.
`said` is what the last step evaluated in the page.

**WindowToggle** adds who has the foreground.  A press of the tray icon takes it
from the window before the click arrives, so the click has to be explained by the
last deactivation (`lost`, with its age in the two classes the code compares with:
`toggleDebounce` and `trayReachWindow`).  `click` holds what the user meant when
he pressed, by what he saw then; `Decision` is what decideToggle makes of it when
the UI thread gets to it.  In between the window may slide, end its slide, be
resized or be prepared.

**MacWindow** is the other window, with the variables of WindowCycle: no slides,
one thread, a startup request that waits for the page.  `mac` in PageCycle says
which of the two a behaviour has.

**PageCycle** puts the page's handlers at the other end of `said`: calls are
taken in order, or lost while the page has no handlers; onWindowHidden has an
await after which it may find itself replaced; the user turns to another view or
opens an editor; the page may be reloaded.  The page is the same with either
window, and so are its properties.  An answer carries the id of the request it
is for, so the page's own comparison of ids (`App.svelte:126`) only saves a call;
it is Go's (`Latest`) that keeps a late answer from bringing the window up.

**AsyncBridge** has the steps of a binding that answers through a promise, for a
module that says what its worker does: the calls on their way to Go (`kicks`), the
goroutines (`workers`), the answers dispatched to the UI thread (`finishes`), and
the page's table (`pending`).  A document numbers its calls from 1, so after a
reload an answer to the old document can settle a promise of the new one; the
model keeps that.  `ui` is the UI thread: in its loop, in Close, or gone.

**SelfUpdate** gives the worker its steps: reading the release, the two flags,
the download, the signature, and the renames of Apply one by one, each of which
may fail.  `files` is what stands at the program's path, at `.new` and at `.old`;
`image` is where the file of the running process is now, which is what Windows
refuses to delete.  RemovePrevious is a process of its own (`cleaning`).  The
process may be quit or killed between any two steps and started again from what
is then at the path.  `mishap` is history: the last process was killed, or could
not move its file back, the two cases in which the code cannot help leaving the
path empty.  Where `.old` is kept, a user can still rename it by hand; nothing
in the code does so.

**Launch** is several processes at once.  `at` is where the main thread of each
is: asking for the mutex, waiting for the parent, running, joining the tray
thread, cleaning up, gone, or stuck there.  `handles` are the processes that keep
the mutex in existence; the system closes a handle when its process ends.  The
tray thread (`tray`, `box`) and the UI thread's queue (`ui`) are separate, so that
SetReady, Stop, a second launch and the tray's own creation of its window come in
any order.  A relaunched copy waits for its parent (`WaitForParent`), or goes on
without it when the parent cannot be opened or waited for, or takes too long
(`WaitFails`).  `owed` is a request to show that the UI thread does not have yet.

**SettingsFlow** follows a preference through all three places that keep it: the
page's copy, the service's file and what is in effect (`live`, the hotkey the tray
thread has registered; `hides`).  The page has two threads of control, the queue
and the start of a page, whose calls and answers keep their order.  Registration
may be refused, its restoration as well, and a save may fail at any point;
another program may register or release a combination.  Two variables are
history.  `known` says that the page has read the settings, before which a change
starts from the defaults.  `overtaken` says that the start of the page, which
re-applies the shortcut outside the queue (`settings.ts:110`), had that answered
while a change of the shortcut was under way.

**EntryMenu** has the token the page gives each menu it asks for, the popup, and
the answers on their way back; a newer menu closes the one on screen, whose
answer is then late.

**EntryPage** has the page's copy of the list against the service's, with the
list operations of Entries.  Each change is repeated on the copy when its answer
comes, except a reordering, which is shown at once and has to be undone when it
fails.  `drag`, `swallow` and `button` are a gesture from the press to the click
that follows the release; a hide or an answer may come anywhere in it.
`gesture` is history: what has happened to the press, whatever the page made of
it.  It was made during a search, was dragged, moved a card, met with Escape, or
was cut short by a slide or a blur.  The
service is here no more than its list (`stored`, `given`) and the handlers of the
calls; EntryService has the rest of it.  The names of this module differ from
those of EntryService (`PageInit`, `PageNext`, `PageSpec`, `SavingFails`), because
EntryProofs extends both.

## 3. The runs

| Run | Result | States | Shows |
|---|---|---|---|
| `datafile_posix` | holds | 120,116 | NeverTorn, SavedIsFound, UnreadableIsKept, ReplacedIsKept |
| `datafile_windows` | holds | 47,944 | DataFile implements SnapshotStore |
| `datafile_dirsync` | violated | | a failed save can have changed the file |
| `entries` | holds | 231,384 | OrdersPacked, AutorunFollowsSettings, ListKeepsItsOrder, ImportMerges |
| `window` | holds | 649,700 | ParkedIsAway, EndsInCorner, HideEnds, PendingIsShown, ClickIsMeant |
| `window_corner` | violated | | a resize during a slide leaves the window off the corner |
| `page` | holds | 526,670 | ShownAsPrepared, KeysFollowWindow, ShownWhenReady, ShieldHolds |
| `update` | holds | 140,515 | OneInstaller, ProgramIsVerified, VersionRemains, QuitLeavesProgram, RestartRunsUpdate, InstallEnds, CloseReturns |
| `launch` | holds | 84,295 | OneInstance, ProfileIsHandedOver, RequestIsSeen, ShutdownEnds, RestartComesBack |
| `settings` | holds | 517,161 | PageAgrees, KeyAgrees, OnlyWhatWasAsked, TryingCostsNothing, QueueDrains |
| `settings_race` | violated | | a start re-applies the old shortcut between the registration of a new one and its save |
| `entrypage` | holds | 2,039,104 | MirrorAgrees, MenuIsAwaited, PickIsItsOwn, ClickMeansPress |

**Bounds.**

- *DataFile*: three snapshots, of which one is the empty store, and two ways of
  harming a file.  Nothing else is bounded: saves, crashes and restorations go
  on forever.  Three snapshots tell apart the saved one, the one before it and
  the one being written; two harms tell apart a harmed file from the next one.
  `datafile_posix` uses the symmetry of the two non-empty snapshots and of the
  two harms; no liveness is checked with it.
- *EntryService*: two texts, lists of up to three entries (`MaxEntries`), three
  ids in all (`MaxIds`; up to two of them are in the list at the start, so one or
  more are created after it), import files of up to two (`MaxImport`).
  Three entries are enough for a delete in the middle, two for a file that
  repeats itself.
- *WindowCycle and WindowToggle*: two heights, three shows and hides
  (`MaxMoves`), and one function waiting when the page posts another
  (`MaxQueued`).  Three moves give a slide that is replaced while it waits for
  one that has itself been replaced.  A press or a loss of the foreground is
  looked at while at most two moves were made before (`MaxSwitches`), so that the
  third is the one it causes.  `window` makes a slide of one step (`Steps`), which
  has a check before it and one after it; longer slides, which can also be
  overtaken half-way, are those of `window_corner` (two steps), and the proofs of
  ParkedIsAway, EndsInCorner and ClickIsMeant hold for any `Steps`.
- *PageCycle*: one height, because no page property speaks of heights, slides of
  no steps, because the page hears only of starts and ends, three moves and two
  loads.  The view in the cfg leaves out of a state what cannot be told apart by
  any property or later step.
- *SelfUpdate*: two calls of a document, two documents of a process, two calls
  unanswered at a time (`MaxCalls`, `MaxLoads`, `MaxBusy`): enough for a retry
  and for an answer to a document that is gone, with a second worker running.
  Two releases after the oldest (`MaxVersion`) and three processes (`MaxStarts`):
  an update on top of one whose `.old` is still there, and what a start makes of
  it.
- *Launch*: three processes, one of which may be a restart of another while the
  third is the user's launch in between (`MaxProcs`), and two further events
  (`MaxEvents`: launches, requests, reloads, failures).  Two processes and one
  event are enough for `launch_profile`.
- *SettingsFlow*: two combinations, the default one and another, two changes by
  the user and two faults (`MaxChanges`, `MaxFaults`): a change that overtakes a
  change, and a failure of one with a failure of its undoing.  The two files to
  import differ in every field.
- *EntryPage*: two texts, which are interchangeable (`SYMMETRY`; no liveness is
  checked), three ids (`MaxIds`), two menus (`MaxMenus`), two calls unanswered
  (`MaxUnderway`), three acts of the user (`MaxActs`) and one failure
  (`MaxFaults`): a change and a drag in the middle of a reordering that fails.

Deadlock checking is off where the system really stops: both data files harmed
(an error dialog ends the program); the runs `page`, `settings` and `entrypage`,
in which the user asks for no more at the bound; `update` and `launch`, after the
last process.

**Fairness** is assumed of threads the OS schedules and that do not wait for the
user: in the window of the UI thread's message loop, of the slides and of the
timer; in SelfUpdate of the UI thread and of the workers (an install is bounded by
`installTimeout`, an operation on a file by its ten attempts); in Launch of each
process's main and tray threads; in SettingsFlow of the page's threads, the UI
thread and the tray thread.  In Launch a page that is being loaded reports
itself, which is part of the main thread's fairness there; no other model
assumes anything of the page: in the window it may never answer, and that is the
case `PendingIsShown` is about.  Nobody is ever assumed to act: `QueueDrains`
leaves a file dialog open for as long as the user does, nothing is assumed about
the page's deadline, so `InstallEnds` does not rest on it, nor about the clean-up
of an update.  PageCycle, EntryPage, DataFile and EntryService have no fairness
and no liveness.

### What the violations are

- `datafile_dirsync`: on macOS `replaceFile` reports an error of the directory
  sync although the rename has happened.  The service keeps its old snapshot and
  the user reads of a failed save; the next start shows the change.  The test of
  the failure path asks for the opposite ("disk changed after failed save").
- `window_corner`: see section 2, WindowCycle: the check of `cancelledSlide` and
  the move are two steps, and a resize can come between them.
- `settings_race`: the page has read the settings; the user picks a new shortcut,
  which is registered; the start's re-application of the old one is handled next;
  then the queued save stores the new one.  What is stored and what is registered
  differ, and no error is shown.

### Other counterexamples

Four more configurations state what a doc or a comment says and end in a
counterexample.  They are no part of the runs above; each is started like them,
for example `tlc -workers 2 -config entrypage_drag.cfg MCEntryPage`.

- `entries_backup.cfg` (MCEntryService, BackupKeepsTheList): export writes the
  entries in the order they were created, import numbers them by place in the
  file. A list whose newest entry is on top, the usual case, comes back upside
  down.
- `launch_profile.cfg` (Launch, OldIsGoneFirst): a restart frees the mutex and
  starts the copy, and WebView2 is closed only by a deferred call after that. A
  CopyNote the user starts in between finds the mutex free, waits for nobody,
  and opens the same folder, which is what the wait of a relaunched copy is
  there to avoid (`startup_windows.go:19`).
- `entrypage_drag.cfg` (MCEntryPage, DragNeverCopies): a card dragged past the
  threshold and dropped where it was does not set `suppressNextClick`, and the
  click that follows copies it; so does one let go after Escape. The comment
  says that a drag never does.
- `entrypage_cut.cfg` (MCEntryPage, InterruptedNeverCopies): with a search in
  the box cards cannot be dragged, so the page keeps nothing of a press and
  abortGesture has nothing to arm; a press that a blur or a slide cuts short
  then copies the card its release lands on.

### Exceptions the properties make

A property that excepts something names it, because the code really does it.

- `MirrorAgrees`, `~overlapped`: a reordering fails, the refresh that undoes it is
  under way, and a drag that had begun before it is dropped.  The new order is
  shown at once, stored, and then covered by the older list the refresh brings,
  although a refresh is meant to keep the page from diverging
  (`web/src/lib/entries.ts:160`).
- `ClickMeansPress` lets a drag copy that moved nothing, because it was dropped
  where it was or given up with Escape (`EntryList.svelte:137`, `:161`), and a
  press that was cut short during a search or after Escape, when the page follows
  none (`:75`, `:103`).  `entrypage_drag` and `entrypage_cut` show both.  It is
  about clicks of the mouse: a gesture that was aborted may also leave
  `suppressNextClick` set for a click made with the keyboard (`:227`).
- `ClickIsMeant` excepts a click handled too late, and a window left for another
  program by way of the taskbar less than five seconds ago, which is taken for
  one left for the icon (`window_windows.go:663`).  Too late is more than 150 ms
  with auto-hide on: the click then opens the window it was to close (`:652`).
  A loss of the foreground within 300 ms of the show is not recorded at all.
  The loss comes before the click it explains, never after it.
- `KeysFollowWindow` and `ShownWhenReady`, `informed`: a page that was loaded again
  and has not been told of a hide since may take keys while the window is parked
  (`App.svelte:32`), and has lost the request it was to prepare for.  That a page
  is never deaf while the window is up holds of that one too.
- `ProfileIsHandedOver` excepts a process that has freed the mutex for a restart:
  see `launch_profile`.
- `RequestIsSeen` and `ShutdownEnds`, `missed`: SetReady or Stop called before the
  tray thread has its window does nothing (`tray_windows.go:836`, `:335`).  In
  practice starting up takes longer than creating that window; no code waits for
  it.
- `PageAgrees`, `KeyAgrees` and `OnlyWhatWasAsked`, `known`: a change made before
  the page has read the settings is saved with the page's defaults in the other
  fields, so nothing is claimed of such a page until it is loaded again.  A change
  made after the reading counts, whatever the start still has to do.
- `KeyAgrees` also excepts a page that shows an error, and, with `overtaken`, a
  change of the shortcut behind which the start has applied the old one:
  `settings_race` shows that one.
- `TryingCostsNothing`: the old combination can be lost to another program that
  takes it while the new one is tried; it cannot be registered again then, and the
  page shows an error.
- `EntryPage` does not say which form an awaited save closes: closeModal closes
  the one that is open (`EntryModal.svelte:37`), and no doc says otherwise.
- `VersionRemains`, `QuitLeavesProgram` and `RestartRunsUpdate` are for Windows.
  With `Posix` TRUE, as on macOS, `VersionRemains` does not hold: nothing keeps
  RemovePrevious, which may try for a minute, apart from an install that has just
  moved the running version to `.old`.  On Windows the system keeps that file.

## 4. The proofs

| Theorem | Says |
|---|---|
| `DataFileTypes`, `DataFileNeverTorn`, `DataFileSavedIsFound`, `DataFileUnreadableIsKept`, `DataFileReplacedIsKept` | the properties of `datafile_posix`, for any snapshots and harms and on both platforms |
| `DataFileKeepsContract` | DataFile implements SnapshotStore where replacements are written through |
| `EntryOrdersPacked` | the order values of every snapshot are 0..n-1, for lists of any length |
| `EntryAutorunFollowsSettings` | the registration agrees with the settings between handlers |
| `EntryListKeepsItsOrder`, `EntryImportMerges` | what an operation may do to the list: the action properties of `entries`, for lists and import files of any length |
| `MirrorInvariant`, `MirrorAgreesHolds` | once every call is answered the page shows the service's list, for any labels, ids, acts and failures and any number of calls under way |
| `MenuIsAwaitedHolds`, `PickIsItsOwnHolds` | the page waits for the menu that is on the screen, and a pick acts on the menu it was made in, for any number of menus |
| `ClickMeansPressHolds` | a click does not copy if its press has moved a card, or was cut short while the page followed it, and is swallowed only for what happened to that press |
| `ParkedIsAwayHolds`, `ToggleParkedIsAway` | a window counted as hidden is off-screen, alone and with clicks and auto-hide; with it the types |
| `EndsInCornerHolds`, `ToggleEndsInCorner` | a slide-in that no resize overtook ends in the corner, for slides of any number of steps but none |
| `ClickIsMeantHolds` | a press does what it was meant to when it was made |
| `LaunchTypes`, `OneInstanceHolds`, `ProfileIsHandedOverHolds`, `NoBlankWindowHolds` | the safety properties of `launch`, and that no request to show reaches the UI thread before the page has reported itself, for any number of processes and events |
| `UpdateTypes`, `OneInstallerHolds`, `ProgramIsVerifiedHolds` | the first two safety properties of `update`, for any number of calls, documents, releases and starts, on both platforms |
| `VersionRemainsHolds`, `QuitLeavesProgramHolds`, `RestartRunsUpdateHolds` | the other three, under `~Posix`: the file of a running program cannot be deleted |
| `SettingsTypes`, `PageAgreesHolds`, `KeyAgreesHolds`, `OnlyWhatWasAskedHolds`, `TryingCostsNothingHolds` | the safety properties of `settings`, for any combinations, changes, failures and reloads |
| `PageInvariant`, `ShownAsPreparedHolds`, `ShownWhenReadyHolds`, `KeysFollowWindowHolds`, `ShieldHoldsAlways` | the properties of `page`, with either window, for any heights, shows, hides, slides and reloads |

*Data file.*  The properties are inductive only together with what the code
knows at each step: while a file is being written, which content the temporary
file has, that the medium holds the old or the new content of the file being
replaced and the same as the disk of every other one, and what `before` and
`next` are copies of.  `IInv` in DataFileProofs is that conjunction; each action
has a step of its own.  The refinement maps `live` to the memory and `saved` to
the main file on disk, so that a rename is the abstract save, and everything
else a stutter, a load, a stop or a restore.

*Lists.*  ListProofs says what each operation makes of a list of any length: it
stays well numbered (`CreatedKeeps` to `ImportedKeeps`), and each row of the new
one is a row of the old one at a place that is named (`CreatedRows`,
`ImportedRows`); for the page, what becomes of the listing (`PlaceIsOrder`,
`ListedByOrder`).  `NthCounts` and `PickedFrom` do the same for filters: the
n-th place is the one with n places up to it, and the order is kept.
`ListsKept` says of the three snapshots (published, on disk, being written) that
they are lists of entries whose ids differ and whose order values are a
permutation of 0..n-1.  That sorting by order then gives each place once is
`ListedIsPermutation`, which rests on `Pigeonhole` (an injection of 1..n into
itself is onto, from the library's facts on finite sets) because the code's sort
is modelled by counting.

The two action properties speak of the step that publishes, when the operation is
long computed.  `Underway` carries it there: from the start of a handler to its
end the list to be published is `Orderly` against the one in force, and after an
import `Merged` with it; in between `store` does not change, because the lock
lets no other handler in.

*Registration.*  `AutorunInv` adds what is true inside a handler: after the
registration has changed, that it is what `next` asks for, and while it is being
restored, that it is still that.

*Window.*  That a hidden window is away cannot be seen from the phase alone: a
slide that was replaced may be between its check and its SetWindowPos.
`ParkedInv` says what each slide may still do.  At most one is past `animMu`, and
each has a generation of its own (`OneMoves`); none is of a generation to come;
a slide-out is always of the current one, since the window stays `hiding` until
its end is handled (`SlideOutIsCurrent`, `HidesByItself`).  So when the end of the
current slide-out is handled, no other slide moves and none of the generation is
left (`GoneWhenEnded`), and what is started later starts from there.
`InTheCorner` adds that the current slide-in is for the size the window has,
unless a resize has cancelled it.  For ClickIsMeant, `ClickInv` relates what was
meant to what was recorded: a press meant to close finds either the window still
up or the deactivation that put it away.

*Launch.*  `IInv` ties the mutex to the stage: from the check until its tray is
down a process has its handle (`OwnerHoldsMutex`, `TrayOfOwner`), and nobody gets
past the check while another has one.  A process keeps its handle until WebView2
is closed, unless it has freed it for a restart (`KeepsMutex`), and so a second one
can have the profile open only then.  For NoBlankWindow, whatever has seen or
been told that the page is ready comes after SetReady (`SawReady`, `ToldReady`).

*Update.*  `BaseInv` says what a worker may rely on at each step: the flag is set
while anyone installs and only one does, what was verified is still at `.new` when
it is moved into place, a worker goes for something newer than what runs, and
nobody (worker, answer or page) speaks of a success before updateReady is set.
`WinInv` adds where the running program's file is: at the path, or at `.old`,
which then cannot be deleted.  A second install that found no update ready
therefore ends at clearing `.old`, and the path is empty only in the middle of a
swap or after a mishap.  The step lemmas split the worker's steps into those that
move nothing the running program depends on and the five that do.

*Settings.*  A page that starts may have two calls under way, its own start's
and a change's, and Go may still be busy with those of the page before it; then
nothing is known of its copy.  `Plumbing` says what holds of calls and answers
all the same: each thread has one of either, at the step of its job that awaits
it, and what an old page has left comes first.  `ReadIsFresh` is what makes the
start's answer worth having: it is what is stored, unless a save or an import
was handled after it, and then that one's answer is still to come.  `KnownInv`
is what is true once the page knows the settings, when a queued change and the
rest of the start may both be under way.  `Order` says which calls come first:
what the start has asked is handled before what the queue asks next, except
behind an `overtaken` change. `Agrees` says when the copy is what is stored;
`QueueAsks`, `QueueIsTold` and `StartAsks` say of each call and answer on its
way what it brings; `KeyClaims` says at which steps the registered shortcut is
the stored one, or the one about to be stored, or an error is shown.  A save
that outlives its page is still sound, because nothing before it in the order of
calls is a save or an import (`SavesAsAsked`).

*Page.*  The page is behind the window by the calls on their way, so that nothing
said of the page as it is would be inductive.  `PreparedAt` says what it will be
when it comes to a given call: parked, and at the list or at Settings, because
only the ends of slides follow the last call that prepares it, or because it is
so already and nothing else comes first.  `ShownUp` says that what shows it comes
after what last hid it.  A page that was loaded again and not yet told of a hide
is excepted (`informed`).  Every step of either window is of one of six kinds
(`Phases`), and with these the invariant follows from the kind alone.  For
ShieldHolds, `Gone` says of a generation that it has no slide and will have none;
it holds of each end that was posted and of each call that lowers the shield,
because every slide has a generation of its own and posts its end once.  For
ShownWhenReady, `OrderInv` says that a request on its way to the page is newer
than the one the page took last, and that an answer on its way back is to one it
has taken: an answer to the latest request therefore finds nothing else on the
way, and the page as that request left it.

*Entries on the page.*  MirrorAgrees speaks only of a page that waits for nothing,
and nothing about such a page alone is inductive.  `PageInv` says what is on its
way instead.  Every step is one of six kinds (`Steps`): nothing of the list
changes, the page hears an answer and repeats the change (`Applied`), it posts a
change, asks for a listing, shows a new order, or Go handles a call.  Each part of
the invariant is shown for the kinds, once.

- `Fresh`: no id is taken for another.  What the page holds, in its list, in a
  drag or in a call, was given; an answer names an id that the page has or that
  was new; and of the ids the service still has, the page has those it once
  held.  Without it an edit could bring back a deleted entry.
- `RefreshFollows`: a reordering that a listing on its way does not know of is
  followed by another listing, unless it was shown while a refresh was under
  way, which is what `overlapped` records.
- `Converges`: if no refresh is needed or on its way, there is a sequence of
  lists, from the page's own (or from a listing among the answers), each what the
  page makes of the one before at the next answer (`Chain`, `Leads`), and its end
  is the service's list, or has its cards in the order of the last reordering
  that Go has yet to come to (`Meets`).  A reordering shown meanwhile permutes
  every list of that sequence (`InOrder` commutes with `Applied`); it is taken by
  the service only if it names every entry, and otherwise fails and is refreshed.

When nothing is on its way the sequence has one element, and that is MirrorAgrees.

*Menu and mouse.*  `Menus`: requests reach Go in order, so what is on the screen
is the last menu Go came to and its answer is not on its way; each answer on its
way is what was chosen in its own menu; the page waits for the newest or for none,
and what it waits for is requested, on the screen or answered.  `PressKnown`:
while the button is down, or a click is due, a press that has moved a card, or was
cut short while the page followed it, is going to have its click swallowed; one
that was neither dragged nor cut short is not; and a press the page does not
follow was made during a search, or met with Escape or a cut.

The constants' assumptions (`ContentsAssumption` and the like, in the modules)
say that the marker values are none of the data values, that a backup holds
settings, and that the bounds are numbers; nothing is assumed about how many
there are.

*Only model-checked*: liveness (`HideEnds`, `PendingIsShown`, `InstallEnds`,
`CloseReturns`, `RequestIsSeen`, `ShutdownEnds`, `RestartComesBack`,
`QueueDrains`), which is out of the prover's reach: it rests on fairness, and so on
ENABLED.  Every invariant and action property of a passing run is a theorem.  The
violations are counterexamples and have nothing to prove.

## 5. What is left

- A contract of a window that WindowCycle and MacWindow both implement, and one of
  an installation that always holds a verified version.
- The macOS side of Launch: the lock file and the socket in place of the mutex
  and the tray's window.

## 6. Not modelled

- Moving the executable (`internal/relocate`, `relocation.ts`): switched off by
  `relocationEnabled`, so nothing of it runs; with it the snooze and the
  dismissal of its banner.
- Rendering, texts, icons and their pulse, tips, focus and z-order, DPI
  arithmetic and the shadow's borders, placing and painting the popup and the
  tray's menu: nothing in them depends on an order of events.
- The Objective-C side of macOS: the native menu, the status item, the hotkey's
  registration with Carbon, unpacking the update's bundle, lock file and socket.
- The clipboard (one bounded retry), the Win32 wrappers and the file dialogs:
  calls of the system without a state of their own.
- Signatures and the release feed are an oracle: a file carries a release's
  signature or does not.
- Vendored code (`third_party`), build tools and the icon generator.
