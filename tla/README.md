# TLA+ models of HoloNight Files

This directory holds TLA+ specifications of the file manager in
`src/apps/files`, the TLC configurations that check them on small instances and
proofs, checked by TLAPS, of the properties that matter most.

    tlc -workers 2 -config TaskManager.cfg MCTaskManager
    tlapm TaskManagerProofs.tla

`PROJECT.json` lists the components, the runs, the source lines every
definition stands for, a faulty variant ("mutant") for every property that
shows the property can fail, the hazards, the findings and the theorems.

## The system

HoloNight Files is a keyboard-driven file manager: C++ on Qt behind a QML
window. Everything that decides anything runs on the GUI thread; four workers
with a thread each (directory listing, previews, file operations, finder) do
what may block. A worker is called by a queued invocation and answers with
queued invocations, which Qt delivers one at a time in the order they were
posted. The only objects two threads touch are a cancellation flag per job, and
for file operations a semaphore and an answer.

| Part (under `src/apps/files`) | State | Operations | Right when | Hard because |
|---|---|---|---|---|
| Task manager, `operations/task_manager.cpp` | queue, prompt, progress; flag, semaphore and answer of each task | enqueue, answer a prompt, cancel, shut down; the worker's loop over the sources | tasks run in turn; nothing is overwritten or trashed unasked; prompts face the worker that waits; cancelled tasks end | two threads share objects without a lock; reports arrive late |
| Directory listing, `browsing/directory_model.cpp` | rows and their index, generation, walk in flight, suspension | load, refresh, suspend, resume, placeholder, shut down | rows and index agree; a listing at rest shows the directory; a folder accepted is recorded | batches of superseded walks, edits in between, classification after the fact, a directory that changes while it is read |
| File operations, `operations/file_operation_service.cpp` | the file system, temporary siblings | copy, merge, move, remove the moved source | a source goes only when all of it has arrived; no half-written file shows | several system calls per entry, others write too, cancellation and failure anywhere |
| Trash, `operations/trash_service.cpp` | trash directories, info files | choose a directory, a name, write the info, rename | an info file for every trashed entry and no other | two steps that fail separately, other processes |
| Jump list, `browsing/jump_list.cpp` | entries and index | visit, traverse | the current entry is the current directory; no path twice; at most 100 | entries removed on both sides of the landing |
| Navigation, `application/navigation_session.cpp` | current path, pending restore, cursor, serials | open, history, bookmark, startup restore | a late answer never moves the user | three asynchronous answers race with the keyboard |
| Editing and modes, `application/editing_session.cpp`, `vim_mode_controller.cpp` | mode, name being typed, search | rename, create, visual, search | a commit acts on the entry the editor was opened on | the listing is frozen, the directory is not |
| Command router, `application/file_command_router.cpp` | pending chords and their timers | keys | a key reaches one mode only; a pair acts only when typed | prompts and Quick Look overlay the modes at any time |
| Sorting, `browsing/directory_proxy_model.cpp` | order, placeholder, whether a row is edited | sort, filter, place, edit | one order, the placeholder next to its anchor, edited rows at rest | the order is reversed by the base class and must stay one |
| Drag and drop, `presentation/file_drop_area.cpp`, `application/directory_controller.cpp` | pointer, target, action | drag, move, drop, tick | a drop goes where the pointer is when it happens | rows move and modes change under a resting pointer |
| Quick Look, `presentation/quick_look_presentation_model.cpp` | measures, layout, sizes | bindings, preview changes | the picture asked for is the one there is room for | bindings arrive one by one, services come and go |
| Session lifecycle, `application/session_lifecycle.cpp`, `state/` | workers still awaited, last location, state file | start, shut down, save | the window closes after four reports, the state saved once before | reports in any order, several processes, a kill at any moment |
| Places, `browsing/places_model.cpp`, `places/` | bookmarks and their availability | startup checks, recheck | a newer answer wins | checks in detached threads that may hang |
| Settings, `settings/files_preferences.cpp` | layers of files, watches | reload, debounce | every change is shown in the end | files are replaced while they are read and watched |
| Rest of presentation and settings, previews, finder | | | | text handling, or packages whose source is elsewhere |

How they interact: the controller turns keys into calls of navigation, editing
and the task manager; navigation loads the listing and arms the directory
watcher; the watcher and finished tasks refresh the listing; editing suspends
it; the listing reports accepted folders to the last-location tracker; the
lifecycle shuts the four workers down and saves what the tracker holds. The
router asks the controller who may hear a key; Quick Look follows the cursor,
or the entry it is pinned to; a drop is a transfer like a paste; the watcher of
the settings belongs to the preferences alone.

## Modules

| Module | What it is |
|---|---|
| `TaskManager` | the task manager and its worker, with properties and the inductive invariant |
| `OperationQueue` | what the task manager promises, without threads, prompt ids and semaphores |
| `TaskManagerRefinement` | `TaskManager` implements `OperationQueue` |
| `DirectoryModel` | the listing, its worker, its users (navigation, watcher, editor) and the file system |
| `FileTransfer` | one copy or move of a file or a directory tree, others writing meanwhile |
| `Trash` | calls of `trashEntry`, several at once |
| `Compaction` | entries that go from a list while the others keep their order: what the listing and the jump list share |
| `JumpList` | the list of visited directories and the traversals of it |
| `JumpHistory` | what it promises, without positions; `JumpList` implements it |
| `Places` | the sidebar's rows and the checks of their directories |
| `Navigation` | where the user is and what his cursor is on; extends `JumpList` and `Places` |
| `Editing` | Visual mode, the inline editor, search and the register over a listing that moves |
| `FileCommandRouter` | what a key does |
| `ListingOrder` | the order of the listing with the row being created in it |
| `Commands` | `FileCommandRouter` in front of `ListingOrder`; implements the latter |
| `Session` | the life of the program and the state file, over sessions and processes |
| `Preferences` | the live preference, its files and their watches |
| `QuickLookPresentation` | the layout of the Quick Look card |
| `DragAndDrop` | drags out of the listing and drops on it |
| `MC...` | instances for TLC; `MCParts` has those of `Preferences`, `JumpList`, `DragAndDrop` and `QuickLookPresentation` |
| `CompactionProofs` | lemmas about `Compaction`, used by the two that follow |
| `DirectoryModelProofs` | theorems about `DirectoryModel` |
| `NavigationProofs` | theorems about `JumpList`, `Places` and `Navigation` |
| `TaskManagerProofs` | theorems about `TaskManager`, its refinement among them |
| `FileOperationProofs` | theorems about `FileTransfer`, `Trash` and `DragAndDrop` |
| `EditingProofs` | theorems about `Editing` |
| `PresentationProofs` | theorems about `ListingOrder`, `Commands` and `QuickLookPresentation` |
| `SessionProofs` | theorems about `Session` and `Preferences` |

### TaskManager

One action is one call on the GUI thread, one delivery of a queued report, or
one step of the worker between two accesses to what the threads share. A call
on the GUI thread cannot be interrupted by another, so `Submit`,
`ConfirmTrash`, `DeclineTrash`, `ResolveConflict`, `CancelCurrentTask`,
`Shutdown` and `Deliver` run to their end, `dispatchNextTask` included
(`DispatchNext`). The worker's `runTask` is cut at every access to the flag
(`cancelled`), the semaphore (`tokens`) and the answer, and at every report it
posts (`events`). The objects are made afresh for each task; they are functions
of the task, and `ctl` says whose objects the members point to. An operation on
one source is `BeginOperation` (the check of the flag at the head of
`copyEntry`, `moveEntry` and `trashEntry`) and `EndOperation` with every result
it can report. `TransferKinds` is a constant because copying and moving differ
only in the call made. Texts, paths and the undo of a partial copy are left out.

`shown`, `consent` and `barrier` are history: which question had which id, what
the user answered about the running task, and the last task that existed when
the user cancelled.

### DirectoryModel

`Load` is `openInternal` up to and with `model_.load()`, `AddWatch` the rest:
the worker may start reading between the two, and nothing else can happen on
the GUI thread. `BeginEditing` and `EndEditing` are the editor's calls
(suspend, placeholder; remove it, resume), `DirectoryChanged` and
`TaskFinished` the two sources of a refresh. The worker's lambda is cut where
its order matters: whether a load `succeeded` is settled (`CompleteWalk`), then
the last batch is posted (`PostFinal`), then the classification arrives
(`Classify`). `walkDirectory` belongs to the HolonightFileBrowser package; it
is modelled from how it is called: it reads the entries one after the other,
delivers what it has whenever it likes, stops on an error or when cancelled.
`Change` is anybody who changes the directory. The watcher watches the directory and
not the files in it: it reports that an entry comes or goes (`notified`) once the directory
is watched, and may or may not report that a file is written in place. `missed` is
history: the entries with a change since the newest walk began that nobody reported.

Not in the module: `validateForRestore`, which runs on the same worker but
touches none of this state (its answer is in `Navigation` and `Session`), and
`locationResolved`, a signal to a model of the storage package. An entry is a name and a version, which stands for all that
can be seen of it.

### FileTransfer

`copyEntry` and `moveEntry` of `file_operation_service.cpp`, the operation that
`TaskManager` abstracts to its result. `src` and `dst` are what is below the
source and below the destination; a node is the same place in both. `temps` are the temporary siblings in
use, `stuck` those that are left because `unlink`, whose result nobody looks at, failed. The worker's
recursion is a `stack` of open directories with the children readdir has still
to return; a step is a system call others can see the effect of: the top-level
checks (`Start`), the rename (`Rename`, `CrossDevice`), the checks of a copy
begun by a move (`Restart`), making a directory (`EnterDirectory`), the check
for a collision (`NextChild`), making, filling and committing a temporary
sibling (`OpenFile`, `StreamFile`, `CommitTemporary`), unlinking one entry of a
moved source (`RemoveEntry`). Any of them may fail, and the flag is looked at
where the code looks at it. `node`, `failed`, `cancelled`, `skipped`, `nested`
and `retained` are the fields of `ItemResult` that survive to the caller;
results of children are merged as they arise, which is the same because the
code only ever adds to them.

Others write a file into the source (`WriteSource`) and create entries at the
destination (`CreateAtDestination`). They do not delete: what an entry that
disappears causes is a failure, which every step may have anyway. A symbolic
link is a file here. Paths that lie within each other are refused by
`validateEndpoints` before anything happens, so the two trees are disjoint;
modes, times and the texts of errors are left out.

`Nodes` with `Parent` is a tree. `TreeAssumption` says so without recursion: any
set that holds the root, and with every node what is below it, holds all nodes,
which every finite tree satisfies.

`given` is history, the source as others left it, and `lost`, the files removed
from it whose content was nowhere else.

### JumpList

`recordVisit` and `traverse` of `jump_list.cpp`, called by navigation on the GUI
thread. The loop of `traverse` is given by the positions it looks at
(`Examined`), those it counts (`Reached`) and those it marks missing
(`Dropped`); the compaction and its two shift counters are `Without` of
`Compaction` and `Shifted`. Which directories are missing is the caller's predicate, a set chosen
anew at every traversal. Positions begin at 1 and 0 is the code's -1.
`here` and `remembered` are history: the directory on screen, and the name the
user left each directory with. `JumpHistory` has what is behind the user, where
he is and what is before him, and the refinement maps the two halves of the list
to it.

### Navigation

`NavigationSession` with the guards and the signals of `DirectoryController`.
It extends the jump list and the sidebar, so a navigation is the real `recordVisit` or
`traverse`, and an answer about a bookmark the real `applyResult`. `UserOpens`,
`DeviceOpens`, `AcceptFinderResult`, `NavigateParent`, `TraverseHistory`,
`ActivateBookmark` and `Start` are the ways to open a directory; all go through
`OpenInternal`, which remembers the entry left and arms the restore.
`ListingChanged` is every notice of the listing, with the restore, the cursor
and the previewed entry in the order the slots are connected in. The listing
itself is a set of names that arrive in any portions; `DirectoryModel` has its
inside. `mode` and `over` are what the guards ask for: the keyboard's mode and
what is open over the listing. Names are numbers in the order of the listing,
and a row is how many names are before it.

History: `mine`, the entry the user put his cursor on himself; `stage` and
`goal`, how far the listing opened last has come and the entry the user should
find himself on when it is complete; `asked`, after which navigation each
bookmark was activated.

### Places

The rows are there from the start (`buildPlaces`), a check is a detached thread
that stats a directory (`Answer`) some time, or never, and posts what it found;
`DeliverResult` is `applyResult`, `RecheckBookmark` what activating a bookmark
starts. `Change` makes directories come and go.

### Editing

`VimModeController` and `EditingSession` on one listing and one register. `Move`,
`EnterVisual`, `SwapVisualEnds`, `YankOrCut` and `PasteRegister` are Visual
mode, `BeginRename`, `BeginCreate`, `UpdateInsertText`, `CommitInsert` and
`CancelInsertEditing` the editor, `EnterSearch` to `AdvanceSearch` the search.
`Rearrange` is a refresh or a toggle of the order, `Vanish` and `Appear` are
other programs. A commit checks the name (`CommitInsert`) and then renames or
creates (`CommitInsertEditing`); the directory can change between the two.
Which names a query matches is a constant (`Match`, the scores of the name
matcher), a greater number being the better match. Files have ids of their own, so
that a file that is replaced is told from one that is not.

### FileCommandRouter

`Key` is `handleKey`: who hears it (`Hears`), what the pairs make of it, and
what `execute` then does to mode, prompt and Quick Look. `Tick` is the time that
the timers of the pairs see. Prompts come and go (`PromptAppears`, `PromptGoes`)
since the worker asks whenever it likes. What a command does beyond that is in the other modules. Count
prefixes and `gg` belong to the navigation interpreter, a library.

`ListingOrder` has the rows these commands act on, and `Commands` puts the two
together: `HandleKey` is a key and what `execute` does to the rows, with what
there is to act on decided by the rows (`HasRows`); `UpdateListing` and
`ToggleInSidebar` change rows without a key and may end Visual mode
(`ListingChanged`); `CloseField` is a commit or a cancellation, `Navigate` a
directory opened behind it all, `Interruption` the clock and the prompts.

### Trash

`trashEntry`, one action per system call: choose a directory (`SelectTrashDir`,
home trash, `.Trash/$uid` or `.Trash-$uid`, whose validation may fail), look for
a name (`UniqueTrashName`), create the information file exclusively
(`OpenTrashInfo`), write it, look at the flag, rename without replacing, and
undo. Calls of one program and of several interleave in every way; a process may
die anywhere (`Die`). `excused` is history: information files that a dead
process left or that could not be removed.

### Session

`planStartup`, `SessionLifecycle`, `LastLocationTracker` and `StateStore`. A
process starts with or without an argument, restores and validates the location
stored, opens directories (`Open`, `Listed`, `RecordLoad`), shuts down, awaits
its workers and quits. Writing the state is a temporary file and a rename
(`WriteState`, `CommitState`). Workers whose source is elsewhere may report
twice (`Again`). `last` and `left` are history: what each session had listed
last and what the last session that saved has left.

### Preferences

`reload` is cut where others can write in between: `Select`, `ReadBase`,
`ReadProfile`, `Unwatch`, `FindExisting`, `Watch`. `Write`, `Replace`, `RemoveFile`,
`MakeDirectory` and `RemoveDirectory` are other programs; a file that is
replaced is no longer watched, as with `QFileSystemWatcher`. `Deliver` is the
watcher's signal, `Timeout` the debounce. The model begins with the reload that ends
`initialize`. `during` is history: the files that changed while the last reload ran.

### ListingOrder

`lessThan` with the placeholder, which borrows its anchor's name and kind, the
filter, and the calls that change either. The base class reverses `lessThan` for
a descending order; `Above` is the order the user sees.

### QuickLookPresentation

`ComponentComplete`, `SetPreview`, `PreviewDestroyed`, `PreviewChanged` and one
`SetMeasure` for the setters, which are alike: each classifies what the service
shows, keeps a layout for a pending selection, recomputes card and frame and
reports the size. Lengths are pixels, factors are in hundredths, and divisions
round as the code's do.

### DragAndDrop

`FileDropArea` and the controller's side of it. The pointer is a row of the view; `scroll` is how many rows
are above. `DragMove`, `Drop`, `DragLeave` and `Tick`, the 75 ms timer, are the
area's handlers, `Settle` what it does when transfers are disabled. Near the
upper or lower edge a drag scrolls; whether a pointer in the first or last row is
within these 32 pixels is left open. Listing,
modes and overlays change between any two of them. Drags of the program itself
(`StartDrag`) and of others (`StartForeignDrag`) differ in urls and in what they
are offered for.

## Runs

| Run | Shows | Bounds |
|---|---|---|
| `task_manager` | prompts match the blocked worker and name its item; nothing overwritten or trashed unasked; the summary counts every source; tasks start in turn and never after being dropped; `OperationQueue` is implemented; a task ends or asks, a cancelled task ends, shutdown ends the worker | 2 tasks, 2 sources each, 2 tokens, one kind of transfer and trash |
| `listing` | rows and index agree, stand still under an editor, and show the directory once at rest, but for what nobody reported | 1 directory, 2 entries of 2 versions, 3 walks, 1 change, 6 reports under way |
| `listing_ends` | a scan ends, a shutdown is reported; a clean close has recorded the Local folder accepted last | 2 directories, one of them Local, 2 entries, 2 walks, 1 change |
| `transfer` | nothing foreign replaced; a source stays unless all of it has arrived; the result names what has not; temporaries go, or the user is told of a failure | every tree of 4 nodes on both sides, copy and move, overwriting or not, one file system or two; 1 change at the source, 1 at the destination |
| `trash` | whatever is in the trash can be put back; no information file without its entry; names are the caller's own; nothing lost | 2 calls, 3 items at 2 paths on two devices, 2 trashes, 2 names tried |
| `navigation` | the cursor ends on the entry it should and stays where the user put it; names are remembered only from listings that were complete enough; Quick Look stays on its entry; the jump list has no directory twice, its position on the current one, its names kept | 3 directories, 3 navigations, list of 3, no bookmarks |
| `navigation_late` | a row shows the newest answer; a bookmark opens only as long as the user waits for it; the last location yields to the user; the program always shows a directory | 2 directories, 1 bookmark, 2 rechecks, 2 navigations |
| `session` | the next session finds where the last one that saved has ended; the program quits after all workers, and quits | 2 processes, 2 workers, one of which may report twice, 2 sessions, 3 directories, one not Local |
| `editing` | the editor's row stays; a commit does what was typed, or nothing; the rows found are those of the listing as it is and giving up returns to the entry; the selection reaches from where it began to the cursor while the listing stays | 2 names, 2 queries |
| `commands` | pairs act when typed in time and never else; nothing starts behind Quick Look; the order is one; the placeholder is next to its anchor; rows stay while one is edited | a key of every kind, timeout of 2 ticks, 3 names, one a folder and one hidden |
| `parts` | no change of the configuration is missed but in a reload; the jump list implements `JumpHistory`; a drop goes to the row under the pointer, as offered and asked, and not behind the finder or an editor; the size asked for is the one there is room for, card and frame fit, compact until something has settled, steady while pending | base and 2 profiles, 3 changes, in a reload too; 4 directories, list of 3, counts to 2; 2 directories of 2 entries, view of 1 row, 1 drop; 2 services, 10 kinds of selection, 3 changes of measures |
| `visual_span` | the finding below | 3 names, Visual mode alone |

A run checks several properties of one component at once; most of them are
conjunctions of named parts, which the modules state one by one.
`parts` runs one of four components in each behaviour while the others stand
still: they share no state in the program either, so that their interleavings
show nothing.

Why the bounds are enough. Two tasks let one wait while the other runs, is
cancelled or ends; two sources let a late answer meet the next source's
question; two tokens let a surplus release meet a wait. In
the listing two entries give three deliveries, one more than the worker has
slots for, and a row behind the one that goes; three walks give a load, a
refresh it is superseded by and one more after an edit; one change falls
anywhere among them. It creates a file, removes one or writes one in place, for
which an entry has two versions; what is there at first has the first. `listing`
does not look behind `Shutdown`, since no row changes there, and lets the GUI
thread be no more than six reports behind (`Explored`). In `listing_ends` all entries are there at first (`EndsSpec`): a walk may
deliver them one by one and then its end, one more than there are slots, so that
its worker has to wait, and is waited for, in a load, in the walk that supersedes it
and while the model shuts down. The change refreshes a listing or cancels the walk.
No folder is Local in `listing` and one is in `listing_ends`, where it matters.

The tree of `transfer` has a file beside a directory with a file: the smallest
with a sibling after a failing child and a failure two levels deep. One change
by others can fall before, between and behind any two steps.

Two calls of `trashEntry` are enough for every conflict about a name; two names
let both get one, and let both run out. The paths have the same file
name, and at one of them an item may follow another.

Three navigations leave a directory, come back to it and leave again, which
remembers a name, restores it and may overwrite it; each listing changes any
number of times. A bookmark activated twice has an answer that is out of date
and one that is not, and two navigations put a directory opened meanwhile before
and behind either. The two runs are apart because bookmarks multiply the
states and do not touch the cursor.

Two sessions see what the first has left, on one process one after the other or
on two at once, where one may end before or after the other. The editor's two
names are the entry and its new name, in the way or not. Two ticks
tell typed in time from typed too late. Three names, a hidden one, a folder and
a file, have a row on either side of an anchor and both kinds of it; the proofs
are for any number. Four directories overflow a list of three, which
has room for two entries on one side of the user, one missing before or behind
the other. Three changes create, replace or silence a file, remove
it or the directory, and fall before, into and behind the first reload and those
that follow. A view of one row over two entries scrolls
both ways under a resting pointer; the finder stands for everything that may be
in front, all of which the code asks about in one condition. The windows of the
card are a usual one, one too small for any card and one of a
negative size, which the setter makes zero.

Deadlock is checked where the system can always go on. It is not in the other
runs: with the bounds used up, or after a shutdown, there is nothing left to do.

Fairness. `FairSpec` lets each thread's event loop run: in `TaskManager` and
`DirectoryModel` deliveries and the
worker's steps are weakly fair, as a scheduler and Qt's event queue provide. No
user action is fair: an open prompt need never be answered. `WalksEnd` holds because
changes are finite: a directory that changes faster than it can be read cancels
each walk by the next refresh, and the code promises nothing then.
In `Navigation` the start timer and the
validation of the last location are fair, which the walks queued before it are
by `WalksEnd`; a check of a bookmark need not end, since a dead network mount may
hang it. In `Session` the workers' threads end, which `WalksEnd` and `EndsWhenTold`
show of the two that are modelled. Nothing else is fair.

## Findings

`VisualSpansToCursor` (run `visual_span`): REQ-F-021 of
`docs/sdd/vim-modal-editing/SPEC.md` has the selection reach from the entry
selected first to the cursor. Both ends are row numbers, and nothing adjusts them
when a refresh adds or removes rows: the cursor follows its entry, the selection
stays on its rows. `SpanKept` states what the code does keep: the selection
reaches to the cursor as long as the listing stays.

Other gaps between the documents and the code, which the properties state
around:

- REQ-F-019 of `docs/sdd/app-configuration/SPEC.md` has the most recent Local
  folder that loaded successfully saved on close. A refresh that overtakes the
  folder's first walk, by the watcher or by a finished task, cancels it; the
  refresh lists the folder completely, but only a load's walk is classified, so
  the folder on screen is not recorded. `ClosedWithLastLocation` says: every load
  whose last batch was accepted is recorded before the model reports its shutdown.
- REQ-F-038 of `docs/sdd/file-operations/SPEC.md` has a source removed "only when
  all descendants transferred successfully". The removal reads the source
  directories anew and removes all it finds: a file that was added behind
  readdir, or rewritten after it was streamed, is removed without a copy.
  `OnlyChangesLost` says: nothing else is ever lost.
- REQ-F-002 of `docs/sdd/header-close-preference/README.md` has changes shown
  without a restart. `reload` reads the files before it watches them anew; a
  change in between is seen by neither. The model lets others write at any time,
  and the run reaches such listings at rest with an old value. `NothingMissed`
  says: only files that changed while the last reload ran (`during`) may be
  shown as they are not; every other change is seen.
- REQ-F-007 of `docs/sdd/browse-folder/SPEC.md` has the listing follow its directory by
  one watch on the directory. A change after the worker began to read and before
  `addPath` goes unreported, and so may a file that is written in place at any time:
  its size and time stay out of date until the next refresh. `SettledListingIsCurrent`
  excuses these entries (`missed`), and no other.

## Proofs

Every invariant and every action property the passing runs check is stated by a
theorem; TLC shows it on the instances above, TLAPS for all values of the
constants the assumptions allow, and without a bound on what is only bounded for
TLC. `PROJECT.json` lists the theorems. The assumptions say what the code gives:
limits are numbers, markers such as `NoPath` are no values, nodes are a tree.

### Task manager

`TaskManagerProofs` proves, for every number of tasks, sources and tokens and
every set of transfer kinds (from `BoundsAssumption` and `KindsAssumption`):

- `Invariance`: `Spec => []IInv`, and from it `TypeCorrect`,
  `PromptsStayLive` and `Consented`;
- `StartOrder`: `Spec => TasksStartInTurn`, an action property from the same
  invariant.

None of the safety properties is inductive. That a conflict prompt faces the
blocked worker depends on what is still on its way: a conflict report in the
queue must be the last one, of the running task, of the request the worker
waits for, with no token given (`ReportsInv`), unless the task is cancelled.
That nothing is overwritten unasked depends on tokens: without a cancellation
there is one only for an answer to the very question the worker waits for
(`TokenInv`), and that the answer belongs to that question depends on prompt
ids never being reused (`PromptInv`). That tasks start in turn depends on the
queue being ordered and newer than all that ran or was dropped (`QueueInv`), and
on the running task being in exactly one place (`ThreadsInv`). The proof has a
lemma for each action, and under it a step for each part it can disturb.

`ReportsTrue` (`ReportsAreTrue`) needs `AccountInv` besides, for tasks that are not cancelled:
the beginnings and the ends of items on their way to the user are those between the last he
was told and the one the worker stands at, in order (`ProgressInv`); the tally has every item
before that one, and what it has as skipped is as many as the answers to skip, but for one
answer the worker has yet to look at (`TallyInv`); and the tally of the last report is the
whole (`SummaryInv`).

`TaskManagerKeepsPromise` is the refinement of `OperationQueue`: under the
mapping of `TaskManagerRefinement` (`Running`, `Stage`, `Touching`, `Reached`,
`Abandoned`) every step of the two threads is a step of the queue or a stutter.
It rests on the same two invariants: they say that the reports in the queue are
about the operation that is mapped.

### Listing

`DirectoryModelProofs` proves, for any directories, entries, versions, and any
number of walks and changes, `RowsMatch`, `SettledIsCurrent`,
`ClosesWithLastLocation` and `RowsHoldStill` from one invariant `IInv`. None of
the four is inductive, since batches of three walks may be under way at once. `Order`
says that generations never go back, in the inbox, at the worker and among the
reports; `NamedOnce` that one walk reports a name once; with `NewToRows`, that
what a load still has to report is not yet among the rows, appending it keeps
rows and index in agreement (`Listing`). That `finishDiff` does, which drops
some rows and shifts the others, follows from the lemmas on `Without` and
`Position` in `CompactionProofs`. `SettledIsCurrent` needs `Freshness`: for every
entry but those with an unreported change, as long as nothing has been noticed, what has
been read is as it is and what has not is still coming. It assumes nothing of the watcher but
that it reports what comes and goes in the directory watched. `ClosesWithLastLocation` needs `Recording`: a load accepted is on its
way to the tracker until the tracker knows of it, because its last batch is
posted before its classification and that before the end of the thread.

### Transfers

`FileOperationProofs` proves of `FileTransfer`, for every tree and any number of changes by others
(from `TreeAssumption` and `ContentAssumption`):

- `TypeCorrect`: source and destination remain trees (`WellFormed`), from
  `TypeInv`, which adds that a file is only on its way to a directory that is
  there;
- `ForeignEntriesKept`: `Spec => ForeignEntriesStay`, an action property;
- `IncompleteKeepsSource`: `Spec => []SourceRetained`, from `RetainInv`: the
  source is untouched up to the removal, and a rename or a removal begins only
  with a result in which nothing was skipped, failed or cancelled;
- `TemporariesAreGone`: `Spec => []TemporariesGo`, for which `RetainInv` says that no
  step behind a failure or a cancellation takes it back;
- `OnlyChangesAreLost`: `Spec => []OnlyChangesLost`, and `ResultsAreTrue`:
  `Spec => []ResultIsTrue`, from `ArrivalInv`.

The last two speak of all that is below a directory, which an induction over the
tree would prove. There is none in the prover's reach, so `Accounted` says it with
sets: every set of nodes that holds what is left to do, and with a node what is
below it, holds all whose content has not arrived. A step that finishes a
file shrinks what is left by one node whose content has arrived, a step that
enters a directory replaces it by its children, and one that gives up a directory
makes the result unsound. At the end nothing is left to do, and the empty set
has the property; at the beginning it is the root, and by `TreeAssumption` a set
that holds the root holds all. A move removes files only after a result for
which the account is complete.

### Trash

Of `Trash` it proves, for any number of calls, items and trash directories (from
`TrashAssumption`), `TypesHold`, `TrashIsConsistent` and the action properties `NothingIsLost` and
`OnlyCompletionTakes`. That an entry in the trash has an information file saying
where it was follows from what a call that is under way owns: between the
exclusive creation and its end the name is its own in `infos`, and from the
rename on in `files` (`OwnPlace`, `NameIsOwn`); no other call takes a name that
is in either. The invariant has the locals of each call besides (`Locals`).

### Drops

`DragsAreMeant` proves `DropsAreMeant` of `DragAndDrop`, for any rows, offers, modes and
overlays (from `DragAssumption`). A drop computes its action and its target anew, so what is left to show is that
nothing stale lets it happen: while transfers are disabled the area shows no action, since
whatever disables them clears it (`FeedbackIsHonest`).

### Session and settings

`SessionProofs` proves, for any number of processes, sessions and workers (from
`SessionAssumption`), `TypesHold`, `FileIsLastSession` and `SavesInOrder`, and
`WorkersEndFirst`: who is still awaited covers who has a thread still, in every
phase of a process (`Life`), so the last of the reports comes after the last thread.

Of `Preferences` it proves `PreferencesTypesHold` and `NothingIsMissed` for any list of
profiles and any number of changes, in a reload or outside (from `PreferencesAssumption`). The
invariant says what each step of `reload` has seen so far of the files that have not changed
since it began, and that of these at rest all that exist are watched, and their directory too unless it
came or went meanwhile.

### Navigation

`NavigationProofs` proves of `Places`, for all rows and any number of rechecks (from
`PlacesAssumption`), `SidebarTypesHold`, `NewestAnswerDecides`, `RowsKeepTheirOrigin` and
`OnlyRecheckChanges`. A row has one check of its newest generation at most (`OneCheck`),
and older ones never become the newest again (`PastOnly`).

Of `JumpList`, for any directories and capacity (from `JumpListAssumption`), `JumpListIsTrue`: no directory twice, the
position on the current one, the names kept, no more than the capacity. A visit drops what
is ahead, the directory itself and the oldest, a traversal what is missing; neither drops the
entry the user is on or comes to, and what is left keeps its order (`Position` grows along
the list). `JumpListKeepsHistory` is the refinement of `JumpHistory`: the positions a
traversal examines are a run of entries next to the current one, those left out of the list are
the missing ones of the run, and so the two halves of the new list are the halves of the old
one without them, each entry at the place `JumpHistory` gives it (`ForwardLeavesOut`,
`BackLeavesOut`).

Of `Navigation`: the sidebar and the jump list inside it are those of `Places` and `JumpList`, every
step being theirs or leaving their variables alone (`SidebarInside`, `NewestDecidesInside`,
`JumpListIsTrueInside`, `HistoryIsKeptInside`). `NavInv` adds that a restore is pending
exactly while the load it is for has been neither interrupted nor completed, for the entry
the navigation is to end on, with the cursor nowhere the user put it (`Pending`); that
Quick Look is open over an entry only; that the newest check of a bookmark was asked for after
the navigation kept with it (`Asked`); and that nothing is open before the first navigation
(`Starting`). From it follow `CursorIsKept`, `RestoreIsRight`, `NamesAreTrusted`,
`QuickLookIsPinned`, `BookmarksOpenAsAsked` and `StartupAlwaysYields`, for any
directories, names, bookmarks and navigations.

### Editing

`EditingProofs` proves `EditorKeepsItsRow`, `CommitDoesAllOrNothing`, `SearchStaysTrue` and
`VisualSpanIsKept` for any names, queries and files. `EditingInv` has the listing with every
entry once and the editor's row among them (`EditorStays`), what each mode has set before it
is entered (`ModesInv`), and the matches as those of the rows now, unless
the listing has just changed (`SearchInv`).

### What the user sees

`PresentationProofs` proves of `ListingOrder`, for every set of names (from
`OrderAssumption`), `TypesHold`, `PlaceholderIsInPlace` (the comparison is a strict total
order, in both directions and with the placeholder, which is next to its anchor) and
`NoRowMoves`; that `Commands`, with any keys, implements it (`CommandsImplementListingOrder`);
and that keys mean what was typed (`KeysMeanWhatWasTyped`). For the latter, a pair
is pending exactly while its first key is the one typed last, with the age of that key
(`PairInv`), in Normal mode alone, and the editor has the keys exactly while a row is edited
(`KeysInv`).

Of `QuickLookPresentation` it proves `CardFollows` (`CardIsCurrent`), for any services, sizes
and measures (from `PresentationAssumption`): card and frame are always those of the layout kept and the measures of now,
and the size asked for last is the one the service attached was asked for (`CardInv`). That a
picture scaled to its bounds fits, and the card into the window, is arithmetic with the
rounding of the code (`ScaledFits`, `FrameFits`, `CardFits`).

### What is only model-checked

The temporal properties under fairness: `EndsWhenTold`, `WalksEnd`, `StartupSettles` and
`Closes`. The prover does neither liveness under fairness nor ENABLED.

## Not modelled, and the plan

No safety property a run checks is left without a theorem. What is left to do would be
new: the editor over `DirectoryModel` in place of the listing `Editing` has of its own, and
the shutdown of `DirectoryModel` in place of the listing's worker in `Session`.

Parts of a modelled component that have no model:

- finder, previews, the navigation interpreter (counts, `gg`), the sidebar's
  cursor, the comparison of names, the hidden filter and the walk of a directory
  belong to packages whose source is not in this repository; they are modelled as
  far as the code here calls them;
- the parsers of TOML, of bookmarks and of the user directories, their
  diagnostics, and the settings read once at startup: text in, values out, without
  state;
- how a mount is classified (a constant in `DirectoryModel` and `Session`) and
  `autoRenameCandidate` (an outcome in `TaskManager`);
- icons, formatting, the translation of key events, the clamp of a scroll
  position, and the QML views.
