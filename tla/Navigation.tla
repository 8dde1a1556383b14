----------------------------- MODULE Navigation -----------------------------
(***************************************************************************)
(* Where the user is and what his cursor is on: NavigationSession of       *)
(* apps/files/application/navigation_session.cpp with the guards and the   *)
(* wiring of DirectoryController, on top of the jump list and the sidebar. *)
(* Three answers may come late: the listing of the directory opened last,  *)
(* the check of a bookmark that was activated, and that of the location    *)
(* the last session ended in.                                              *)
(***************************************************************************)
EXTENDS Places, JumpList

CONSTANTS
  HomePath,
  Parent, NameOf,              \* of each directory; NoPath above the root
  PathOf,                      \* of each bookmark
  Startups,                    \* ways to start: "resolved", "candidate" (planStartup)
  MaxNavigations               \* bound

ASSUME NavigationAssumption ==
  /\ NoName = 0 /\ Names \subseteq Nat \ {0} /\ IsFiniteSet(Names)   \* in the order of the listing
  /\ HomePath \in Paths
  /\ Parent \in [Paths -> Paths \cup {NoPath}] /\ NameOf \in [Paths -> Names \cup {NoName}]
  /\ Startups \subseteq {"resolved", "candidate"}
  /\ PathOf \in [Bookmarks -> Paths] /\ MaxNavigations \in Nat

VARIABLES
  serial, awaiting, wanted,                       \* navigation_serial_ and the pending restore
  scanning, shown, cursor,                        \* the listing, and the name under the cursor
  mode, over,                                     \* mode of the keyboard; what is open over the listing
  target,                                         \* preview_target_path_
  dispatched,                                     \* bookmark_dispatch_navigation_serial_
  startup, candidate,                             \* the session's start, and what it waits for
  mine, stage, goal, asked                        \* history, see below

\* mine: the entry the user put the cursor on himself; stage: is the listing that
\* was opened last loading, was it interrupted by the user, or has it been complete;
\* goal: the entry the user should find himself on then; asked: the navigation after
\* which each bookmark was activated last.
restore == <<awaiting, wanted>>
listing == <<scanning, shown, cursor, target, mine>>
history == <<stage, goal, asked>>
vars == <<jumps, sidebar, serial, restore, listing, mode, over, dispatched, startup, candidate, history>>

Init ==
  /\ JumpListInit /\ PlacesInit /\ Home \in reachable
  /\ serial = 0 /\ awaiting = FALSE /\ wanted = NoName
  /\ scanning = FALSE /\ shown = {} /\ cursor = NoName /\ target = NoName
  /\ mode = "normal" /\ over = {}
  /\ dispatched = [b \in Bookmarks |-> 0]
  /\ startup \in Startups /\ candidate = NoPath
  /\ mine = NoName /\ stage = "complete" /\ goal = NoName
  /\ asked = [b \in Bookmarks |-> 0]

-----------------------------------------------------------------------------
(* Rows.                                                                   *)

First(names) == IF names = {} THEN NoName ELSE Min(names)
RowOf(name, names) == Cardinality({n \in names : n < name})
AtRow(row, names) ==
  IF row >= Cardinality(names) THEN Max(names) ELSE CHOOSE n \in names : RowOf(n, names) = row

\* NavigationCursor::reconcile: the cursor stays on its entry, or else in its row.
Reconciled(names) ==
  IF cursor \in names THEN cursor
  ELSE IF names = {} \/ cursor = NoName THEN First(names)
  ELSE AtRow(RowOf(cursor, shown), names)

\* syncPreviewTarget, which every change ends in: Quick Look is closed when another
\* entry than the previewed one comes under the cursor (mutant: shows that one).
Retarget(name) == target' = name /\ over' = IF name = NoName THEN over \ {"quick look"} ELSE over
SyncPreviewTarget(name) ==
  /\ target' = name
  /\ over' = IF name = NoName \/ name # target THEN over \ {"quick look"} ELSE over

-----------------------------------------------------------------------------
(* Opening directories.                                                    *)

SidebarEnabled == mode = "normal" /\ over \cap {"prompt", "quick look"} = {}
HistoryEnabled == SidebarEnabled /\ "finder" \notin over

\* A name to come back to, unless the listing has not settled (mutant: even then).
OutgoingAnyway == IF cursor \in shown THEN cursor ELSE NoName
OutgoingCursorName == IF awaiting \/ cursor \notin shown THEN NoName ELSE cursor

\* openInternal but for the jump list: a restore that was pending is replaced
\* (mutant: one without a name leaves it), the editor and Quick Look are closed.
KeepWanted(name) == awaiting' = TRUE /\ wanted' = IF name = NoName THEN wanted ELSE name
Replace(name) == awaiting' = TRUE /\ wanted' = name

OpenInternal(name, closing) ==
  /\ serial < MaxNavigations /\ serial' = serial + 1
  /\ Replace(name)
  /\ scanning' = TRUE /\ shown' = {} /\ cursor' = NoName /\ target' = NoName
  /\ mode' = "normal" /\ over' = over \ ({"quick look"} \cup closing)
  /\ mine' = NoName /\ stage' = "loading"
  /\ UNCHANGED asked

Open(path, name, closing) ==
  Visit(path, OutgoingCursorName) /\ OpenInternal(name, closing) /\ goal' = name

\* An entry or a breadcrumb is activated; a volume is mounted or disappears, which
\* no mode and no prompt prevents.
UserOpens(path) ==
  /\ SidebarEnabled
  /\ Open(path, NoName, {})
  /\ UNCHANGED <<sidebar, dispatched, startup, candidate>>

DeviceOpens(path) ==
  /\ Open(path, NoName, {})
  /\ UNCHANGED <<sidebar, dispatched, startup, candidate>>

\* A directory that was found is opened, of a file the parent with the cursor on it.
AcceptFinderResult(path, name) ==
  /\ "finder" \in over
  /\ Open(path, name, {"finder"})
  /\ UNCHANGED <<sidebar, dispatched, startup, candidate>>

NavigateParent ==
  /\ HistoryEnabled /\ here # NoPath /\ Parent[here] # NoPath
  /\ Open(Parent[here], NameOf[here], {})
  /\ UNCHANGED <<sidebar, dispatched, startup, candidate>>

\* Back and forth, to the name kept with the entry.
TraverseHistory(direction, count, missing) ==
  /\ HistoryEnabled
  /\ Traverse(direction, count, OutgoingCursorName, missing)
  /\ LET landing == Landing(direction, count, missing) IN
       IF landing # index
       THEN OpenInternal(entries[landing].name, {}) /\ goal' = remembered[entries[landing].path]
       ELSE UNCHANGED <<serial, restore, listing, mode, over, history>>
  /\ UNCHANGED <<sidebar, dispatched, startup, candidate>>

-----------------------------------------------------------------------------
(* The listing, and the cursor in it.                                      *)

\* maybeApplyPendingRestore: once, when the listing is complete.
Settles(done) == awaiting /\ done

RestoredName(names) == IF wanted \in names THEN wanted ELSE First(names)

\* Rows come, go or are sorted anew, by the worker or by a toggle; the model
\* reports it, and whether its walk is over.  (In an editor nothing changes.)
ListingChanged(names, scans) ==
  LET done == ~scans
      name == IF Settles(done) THEN RestoredName(names) ELSE Reconciled(names) IN
  /\ here # NoPath /\ mode # "insert"
  /\ scans => scanning
  /\ shown' = names /\ scanning' = scans /\ cursor' = name
  /\ SyncPreviewTarget(name)
  /\ awaiting' = (awaiting /\ ~Settles(done)) /\ wanted' = IF Settles(done) THEN NoName ELSE wanted
  /\ mode' = IF mode = "visual" /\ names = {} THEN "normal" ELSE mode
  /\ mine' = IF mine \in names THEN mine ELSE NoName
  /\ stage' = IF done THEN "complete" ELSE stage
  /\ goal' = IF done THEN NoName ELSE goal
  /\ UNCHANGED <<jumps, sidebar, serial, dispatched, startup, candidate, asked>>

\* The watcher's and the task manager's refreshes.
Refresh ==
  /\ here # NoPath /\ mode # "insert" /\ ~scanning
  /\ scanning' = TRUE
  /\ UNCHANGED <<jumps, sidebar, serial, restore, shown, cursor, target, mine, mode, over, dispatched,
                 startup, candidate, history>>

\* cancelPendingRestore (mutant: left out).
NoCancel == UNCHANGED restore
CancelPendingRestore == awaiting' = FALSE /\ wanted' = NoName

Interrupted == IF stage = "loading" THEN "acted" ELSE stage

\* setCursorRow, by a key, a click, or a search.
MoveCursor(name) ==
  /\ name \in shown /\ mode # "insert" /\ over = {}
  /\ CancelPendingRestore
  /\ cursor' = name /\ mine' = name
  /\ SyncPreviewTarget(name)
  /\ stage' = Interrupted
  /\ UNCHANGED <<jumps, sidebar, serial, scanning, shown, mode, dispatched, startup, candidate,
                 goal, asked>>

\* Visual mode, a search or the renaming of an entry takes the cursor where it is;
\* the first and the last need an entry.
EnterMode(m) ==
  /\ mode = "normal" /\ over = {} /\ here # NoPath
  /\ CancelPendingRestore
  /\ mode' = IF m # "search" /\ cursor \notin shown THEN mode ELSE m
  /\ scanning' = (scanning /\ mode' # "insert")
  /\ mine' = cursor
  /\ stage' = Interrupted
  /\ UNCHANGED <<jumps, sidebar, serial, shown, cursor, target, over, dispatched, startup, candidate,
                 goal, asked>>

LeaveMode ==
  /\ mode # "normal"
  /\ mode' = "normal" /\ scanning' = (scanning \/ mode = "insert")
  /\ UNCHANGED <<jumps, sidebar, serial, restore, shown, cursor, target, mine, over, dispatched,
                 startup, candidate, history>>

\* What is opened and closed over the listing; a prompt closes Quick Look.
QuickLook ==
  /\ mode = "normal" /\ over = {} /\ cursor \in shown
  /\ over' = {"quick look"}
  /\ UNCHANGED <<jumps, sidebar, serial, restore, listing, mode, dispatched, startup, candidate,
                 history>>

Finder ==
  /\ mode = "normal" /\ over = {}
  /\ over' = {"finder"}
  /\ UNCHANGED <<jumps, sidebar, serial, restore, listing, mode, dispatched, startup, candidate, history>>

Prompt ==
  /\ over' = (over \cup {"prompt"}) \ {"quick look"} /\ over' # over
  /\ UNCHANGED <<jumps, sidebar, serial, restore, listing, mode, dispatched, startup, candidate, history>>

Dismiss(what) ==
  /\ what \in over
  /\ over' = over \ {what}
  /\ UNCHANGED <<jumps, sidebar, serial, restore, listing, mode, dispatched, startup, candidate, history>>

-----------------------------------------------------------------------------
(* Late answers.                                                           *)

ActivateBookmark(b) ==
  /\ SidebarEnabled
  /\ RecheckBookmark(b)
  /\ dispatched' = [dispatched EXCEPT ![b] = serial]
  /\ asked' = [asked EXCEPT ![b] = serial]
  /\ UNCHANGED <<jumps, serial, restore, listing, mode, over, startup, candidate, stage, goal>>

\* handleBookmarkRecheckResolved: has the user gone elsewhere, or is he busy?
\* (Mutant: the first is not asked.)
StillThere(b) == SidebarEnabled
StillWanted(b) == dispatched[b] = serial /\ SidebarEnabled

\* deliverResult, and what follows from it.  take() leaves 0 behind.
Deliver(c) ==
  /\ DeliverResult(c)
  /\ IF Resolves(c) THEN dispatched' = [dispatched EXCEPT ![c.row] = 0] ELSE UNCHANGED dispatched
  /\ IF Resolves(c) /\ StillWanted(c.row) /\ c.found = "yes"
     THEN Open(PathOf[c.row], NoName, {})
     ELSE UNCHANGED <<jumps, serial, restore, listing, mode, over, history>>
  /\ UNCHANGED <<startup, candidate>>

Checks ==
  /\ \/ \E b \in Bookmarks : Change(b)
     \/ \E c \in checks : c.row \in Bookmarks /\ Answer(c)
  /\ UNCHANGED <<jumps, serial, restore, listing, mode, over, dispatched, startup, candidate, history>>

\* main's timer: open what was asked for, or have the last location validated.
Start(path) ==
  /\ startup \in {"resolved", "candidate"}
  /\ IF startup = "resolved"
     THEN Open(path, NoName, {}) /\ startup' = "over" /\ UNCHANGED candidate
     ELSE /\ startup' = "validating" /\ candidate' = [path |-> path, serial |-> serial]
          /\ UNCHANGED <<jumps, serial, restore, listing, mode, over, history>>
  /\ UNCHANGED <<sidebar, dispatched>>

\* handleRestoreValidated (mutant: whatever was opened meanwhile).
NotOvertakenAnyway(path) == TRUE
NotOvertaken(path) == path = candidate.path /\ candidate.serial = serial

\* main asks once, so that the only path validated is the candidate.
RestoreValidated(path, ok) ==
  /\ startup = "validating" /\ startup' = "over"
  /\ path = candidate.path
  /\ IF NotOvertaken(path)
     THEN Open(IF ok THEN path ELSE HomePath, NoName, {}) /\ candidate' = NoPath
     ELSE UNCHANGED <<jumps, serial, restore, listing, mode, over, history, candidate>>
  /\ UNCHANGED <<sidebar, dispatched>>

\* The timer of main is the first event of the loop.
Events ==
  \/ \E path \in Paths :
       \/ UserOpens(path) \/ DeviceOpens(path)
       \/ \E name \in Names \cup {NoName} : AcceptFinderResult(path, name)
  \/ NavigateParent
  \/ \E direction \in {-1, 1}, count \in 1 .. MaxCount,
        missing \in SUBSET {entries[i].path : i \in DOMAIN entries \ {index}} :
       TraverseHistory(direction, count, missing)
  \/ \E names \in SUBSET Names, scans \in BOOLEAN : ListingChanged(names, scans)
  \/ Refresh
  \/ \E name \in Names : MoveCursor(name)
  \/ \E m \in {"visual", "search", "insert"} : EnterMode(m)
  \/ LeaveMode \/ QuickLook \/ Finder \/ Prompt
  \/ \E what \in {"quick look", "finder", "prompt"} : Dismiss(what)
  \/ \E b \in Bookmarks : ActivateBookmark(b)
  \/ \E c \in checks : c.row \in Bookmarks /\ Deliver(c)
  \/ Checks
  \/ \E path \in Paths, ok \in BOOLEAN : RestoreValidated(path, ok)

Next == (\E path \in Paths : Start(path)) \/ (startup \notin {"resolved", "candidate"} /\ Events)

\* The event loop runs the timer, and the worker gets to the validation.
Fairness ==
  /\ WF_vars(\E path \in Paths : Start(path))
  /\ WF_vars(\E path \in Paths, ok \in BOOLEAN : RestoreValidated(path, ok))

Spec == Init /\ [][Next]_vars
FairSpec == Spec /\ Fairness

-----------------------------------------------------------------------------
(* Properties.                                                             *)

TypeOK ==
  /\ JumpListTypeOK /\ PlacesTypeOK
  /\ serial \in 0 .. MaxNavigations /\ awaiting \in BOOLEAN /\ wanted \in Names \cup {NoName}
  /\ scanning \in BOOLEAN /\ shown \subseteq Names
  /\ cursor \in shown \cup {NoName} /\ target = cursor
  /\ mode \in {"normal", "visual", "search", "insert"}
  /\ over \subseteq {"prompt", "quick look", "finder"}
  /\ dispatched \in [Bookmarks -> 0 .. MaxNavigations]

\* REQ-F-015: the cursor stays on the entry the user put it on, or opened a mode
\* on, as long as it is listed.
CursorIsUsers == mine # NoName => cursor = mine

\* REQ-F-017: but for the user, and the one restore of a load, nothing takes the
\* cursor off an entry that is still listed.
CursorStays ==
  [][cursor' # cursor /\ cursor \in shown' =>
       (mine' = cursor' /\ mine' # mine) \/ (stage = "loading" /\ stage' = "complete")]_vars

\* The cursor is the user's: he finds it on the entry he left it on, whatever is
\* listed, refreshed or restored meanwhile (reconcile, maybeApplyPendingRestore).
CursorKept == [](TypeOK /\ CursorIsUsers) /\ CursorStays

\* REQ-F-013, 14, 16, 18, 19: a load nobody interrupted ends on the entry this
\* navigation is to end on, or on the first if it is not listed.
RestoreFindsTheEntry ==
  [][serial' = serial /\ stage = "loading" /\ stage' = "complete" =>
       cursor' = IF goal \in shown' THEN goal ELSE First(shown')]_vars

\* REQ-F-039: a name is kept with a directory only if the cursor was on it, and
\* not while the listing was loading.
NamesTrusted ==
  [][\A p \in Paths : remembered'[p] \notin {remembered[p], NoName} =>
       p = here /\ stage # "loading" /\ remembered'[p] = cursor /\ cursor \in shown]_vars

\* Quick Look shows the entry it was opened on, and that is under the cursor,
\* or it is closed.
QuickLookPinned ==
  [][cursor' # cursor \/ cursor' \notin shown' => "quick look" \notin over']_vars

\* REQ-F-022 of places-sources: what the newest check of a bookmark finds is acted
\* on if nothing has been opened since and the user is not busy, and only then.
BookmarkOpensAsAsked ==
  [][\A b \in Bookmarks, n \in 1 .. MaxRechecks, f \in {"yes", "no"} :
       LET c == [row |-> b, generation |-> n, found |-> f]
           expected == /\ n = recheck[b] /\ f = "yes" /\ asked[b] = serial
                       /\ mode = "normal" /\ over \cap {"prompt", "quick look"} = {} IN
       c \in checks \ checks' =>
         IF expected THEN here' = PathOf[b] /\ serial' = serial + 1 ELSE serial' = serial]_vars

\* The last location does not replace what the user has opened meanwhile.
StartupYields ==
  [][startup = "validating" /\ startup' = "over" /\ serial' # serial => here = NoPath]_vars

\* Wherever the last session ended, a directory is opened.
StartsSomewhere == <>(here # NoPath)

\* The answer about the last location is acted on unless it is overtaken, and then
\* something else has been opened (handleRestoreValidated, main).
StartupSettles == StartupYields /\ StartsSomewhere
=============================================================================
