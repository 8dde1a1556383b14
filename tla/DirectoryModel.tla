--------------------------- MODULE DirectoryModel ---------------------------
(***************************************************************************)
(* The listing of one directory: apps/files/browsing/directory_model.cpp,  *)
(* with the operations that NavigationSession, EditingSession and the      *)
(* directory watcher call on it and the last location it reports to        *)
(* LastLocationTracker.                                                    *)
(*                                                                         *)
(* The GUI thread keeps the rows; a worker thread walks directories, one   *)
(* after the other, and reports with queued invocations (`events').  Every *)
(* walk belongs to a generation and has a cancellation flag of its own.    *)
(* The file system changes under both.                                     *)
(***************************************************************************)
EXTENDS Compaction, SequencesExt

CONSTANTS
  Paths,        \* directories
  LocalPaths,   \* those LocationClassifier classifies as Local
  Names,        \* of entries
  NoPath,       \* the empty path
  NoName,       \* the name of the placeholder row
  Versions,     \* what can be seen of an entry: size, mode, time...
  MaxWalks,     \* bound on the walks ever started (generation_)
  MaxChanges    \* bound on the changes of the file system

ASSUME ConstantsAssumption ==
  /\ LocalPaths \subseteq Paths /\ NoPath \notin Paths
  /\ IsFiniteSet(Names) /\ NoName \notin Names
  /\ Versions \subseteq Nat \ {0}
  /\ MaxWalks \in Nat /\ MaxChanges \in Nat

Slots == 2      \* batches of one walk that may wait for the GUI thread

Entry == [name : Names, version : Versions]
PlaceholderRow == [name |-> NoName, version |-> 0]
Walk == [generation : 1 .. MaxWalks, path : Paths, diff : BOOLEAN]
NoWalk == [generation |-> 0, path |-> NoPath, diff |-> FALSE]

VARIABLES
  \* the members of DirectoryModel, on the GUI thread
  path, generation, rows, rowOf, seen, error, scanning, suspended, inFlight, stopping,
  \* its users: EditingSession's mode, NavigationSession's watcher, a call of
  \* openInternal in progress, and LastLocationTracker's candidate
  editing, watched, notified, opening, candidate,
  \* the cancellation flags that are up, the loads whose final batch was accepted
  cancelled, accepted,
  \* the event queues and the worker
  inbox, events, quit, pc, walk, todo, batch, succeeded, failed,
  \* the file system (version 0: no such entry) and the changes it has seen
  fs, changes,
  \* history: the Local directory whose load was accepted last, the entries with a
  \* change that went unreported since the newest walk began, shutdownFinished was emitted
  lastAccepted, missed, closed

modelVars == <<path, generation, rows, rowOf, seen, error, scanning, suspended, inFlight, stopping>>
userVars == <<editing, watched, notified, opening, candidate>>
walkVars == <<walk, todo, batch, succeeded, failed>>
fsVars == <<fs, changes>>
histVars == <<lastAccepted, missed, closed>>
guiVars == <<modelVars, userVars, accepted, histVars>>
vars == <<guiVars, cancelled, inbox, events, quit, pc, walkVars, fsVars>>

Init ==
  /\ path = NoPath /\ generation = 0 /\ rows = <<>> /\ rowOf = <<>> /\ seen = {}
  /\ error = FALSE /\ scanning = FALSE /\ suspended = FALSE /\ inFlight = FALSE
  /\ stopping = FALSE
  /\ editing = "no" /\ watched = NoPath /\ notified = FALSE /\ opening = FALSE
  /\ candidate = NoPath /\ cancelled = {} /\ accepted = {}
  /\ inbox = <<>> /\ events = <<>> /\ quit = FALSE
  /\ pc = "idle" /\ walk = NoWalk /\ todo = {} /\ batch = <<>> /\ succeeded = FALSE
  /\ failed = FALSE
  /\ fs \in [Paths -> [Names -> {0} \cup Versions]] /\ changes = 0
  /\ lastAccepted = NoPath /\ missed = {} /\ closed = FALSE

NamesOf(entries) == {entries[i].name : i \in DOMAIN entries}

-----------------------------------------------------------------------------
(* The GUI thread: navigation, refreshes, editing, shutdown.               *)

\* cancellation_->store(true), which matters while the worker has the walk
CancelWalk ==
  cancelled' = cancelled \cup
    (({generation} \cap ({walk.generation} \cup {inbox[i].generation : i \in DOMAIN inbox})) \ {0})

\* startWalk, after load and refresh have counted the generation up, cancelled
\* the walk before and reset what the new one collects (mutant: what the
\* previous walk has seen is kept).
KeepSeen == UNCHANGED seen
ClearSeen == seen' = {}

StartWalk(p, diff) ==
  /\ generation < MaxWalks
  /\ generation' = generation + 1
  /\ CancelWalk
  /\ ClearSeen /\ error' = FALSE /\ scanning' = TRUE /\ inFlight' = TRUE
  /\ inbox' = Append(inbox, [generation |-> generation', path |-> p, diff |-> diff])

\* openInternal up to model_.load(): the old watch is gone, the editor closed
\* and its placeholder removed, the new directory's walk under way.
Load(p) ==
  /\ ~stopping /\ ~opening
  /\ StartWalk(p, FALSE)
  /\ path' = p /\ rows' = <<>> /\ rowOf' = <<>> /\ suspended' = FALSE
  /\ editing' = "no" /\ watched' = NoPath /\ notified' = FALSE
  /\ opening' = TRUE /\ missed' = {}
  /\ UNCHANGED <<stopping, candidate, accepted, lastAccepted, closed, events, quit, pc,
                 walkVars, fsVars>>

\* openInternal from watcher_.addPath(), while the worker may already be reading
AddWatch ==
  /\ opening
  /\ opening' = FALSE /\ watched' = path
  /\ UNCHANGED <<modelVars, editing, notified, candidate, accepted, histVars, cancelled,
                 inbox, events, quit, pc, walkVars, fsVars>>

\* refresh() returns early while updates are suspended.
Refresh ==
  IF stopping \/ suspended \/ path = NoPath
  THEN UNCHANGED <<modelVars, cancelled, inbox, missed>>
  ELSE /\ StartWalk(path, TRUE) /\ missed' = {}
       /\ UNCHANGED <<path, rows, rowOf, suspended, stopping>>

\* The watcher's directoryChanged, and a file operation that ends in this directory.
DirectoryChanged ==
  /\ notified /\ ~opening
  /\ notified' = FALSE
  /\ Refresh
  /\ UNCHANGED <<editing, watched, opening, candidate, accepted, lastAccepted, closed, events,
                 quit, pc, walkVars, fsVars>>

TaskFinished ==
  /\ ~opening /\ ~stopping /\ path # NoPath
  /\ Refresh
  /\ UNCHANGED <<userVars, accepted, lastAccepted, closed, events, quit, pc, walkVars, fsVars>>

\* beginRename and beginCreate: suspendUpdates(), then the placeholder row.
BeginEditing(mode) ==
  /\ ~opening /\ ~stopping /\ editing = "no" /\ path # NoPath
  /\ generation < MaxWalks            \* the bound leaves room for the refresh at the end
  /\ mode = "rename" => rows # <<>>
  /\ editing' = mode /\ suspended' = TRUE /\ scanning' = FALSE
  /\ CancelWalk
  /\ rows' = IF mode = "create" THEN Append(rows, PlaceholderRow) ELSE rows
  /\ UNCHANGED <<path, generation, rowOf, seen, error, inFlight, stopping, watched, notified,
                 opening, candidate, accepted, histVars, inbox, events, quit, pc, walkVars, fsVars>>

\* commitInsertEditing and cancelInsertEditing: the placeholder goes first (the
\* last row: nothing is appended meanwhile), then resumeUpdates() refreshes.
EndEditing ==
  /\ editing # "no" /\ ~opening /\ ~stopping
  /\ StartWalk(path, TRUE)
  /\ rows' = IF editing = "create" THEN Front(rows) ELSE rows
  /\ editing' = "no" /\ suspended' = FALSE /\ missed' = {}
  /\ UNCHANGED <<path, rowOf, stopping, watched, notified, opening, candidate, accepted,
                 lastAccepted, closed, events, quit, pc, walkVars, fsVars>>

\* The thread is told to end at once unless a walk is in flight, whose end will
\* see to it (mutant: it is left to a walk in any case).
QuitLater == UNCHANGED quit
QuitNow == quit' = ~inFlight

Shutdown ==
  /\ ~stopping /\ ~opening
  /\ stopping' = TRUE /\ scanning' = FALSE
  /\ CancelWalk
  /\ QuitNow
  /\ UNCHANGED <<path, generation, rows, rowOf, seen, error, suspended, inFlight, userVars,
                 accepted, histVars, inbox, events, pc, walkVars, fsVars>>

-----------------------------------------------------------------------------
(* The GUI thread: deliveries of the worker.                               *)

\* The early returns of applyBatch (mutants: a batch of an earlier walk, or one
\* that arrives while an editor is open, is taken).
AnyBatch(b) == FALSE
Superseded(b) == b.generation # generation

OnlyWhenStopping == stopping
Withheld == suspended \/ stopping

\* appendEntries: new rows at the end, each under its identity.
AppendedRows(entries) == rows \o entries
AppendedRowOf(entries) ==
  [n \in DOMAIN rowOf \cup NamesOf(entries) |->
     IF \E i \in DOMAIN entries : entries[i].name = n
     THEN Len(rows) + CHOOSE i \in DOMAIN entries : entries[i].name = n
     ELSE rowOf[n]]

\* applyDiffEntries: known identities replace their row, the others are appended.
Additions(entries) == Without(entries, {i \in DOMAIN entries : entries[i].name \in DOMAIN rowOf})

UpdatedRows(entries) ==
  [r \in DOMAIN rows |->
     IF \E e \in Range(entries) : e.name \in DOMAIN rowOf /\ rowOf[e.name] = r
     THEN CHOOSE e \in Range(entries) : e.name \in DOMAIN rowOf /\ rowOf[e.name] = r
     ELSE rows[r]]

\* finishDiff: rows not seen go, and the identities are numbered afresh.
Kept(all, names) == Without(all, {r \in DOMAIN all : all[r].name \notin names})
Renumbered(all) ==
  [n \in NamesOf(all) |-> CHOOSE r \in DOMAIN all : all[r].name = n]

ApplyEntries(b) ==
  LET added == IF b.diff THEN Additions(b.entries) ELSE b.entries
      base == IF b.diff THEN UpdatedRows(b.entries) ELSE rows
      nowSeen == IF b.diff THEN seen \cup NamesOf(b.entries) ELSE seen
  IN IF b.diff /\ b.finished /\ ~b.error
     THEN /\ rows' = Kept(base \o added, nowSeen)
          /\ rowOf' = Renumbered(rows')
          /\ seen' = {}
     ELSE /\ rows' = base \o added
          /\ rowOf' = AppendedRowOf(added)
          /\ seen' = nowSeen

\* applyBatch, and before it the acceptance of a load whose listing is complete.
OnBatch(b) ==
  /\ IF b.finished /\ ~b.diff /\ ~b.error /\ b.generation = generation /\ ~Withheld
     THEN /\ accepted' = accepted \cup {b.generation}
          /\ lastAccepted' = IF path \in LocalPaths THEN path ELSE lastAccepted
     ELSE UNCHANGED <<accepted, lastAccepted>>
  /\ IF Superseded(b)
     THEN UNCHANGED <<rows, rowOf, seen, error, scanning, inFlight, quit>>
     ELSE /\ inFlight' = (inFlight /\ ~b.finished)
          /\ quit' = (quit \/ (b.finished /\ stopping))
          /\ IF Withheld
             THEN UNCHANGED <<rows, rowOf, seen, error, scanning>>
             ELSE /\ ApplyEntries(b)
                  /\ error' = (error \/ b.error)
                  /\ scanning' = (scanning /\ ~b.finished)
  /\ UNCHANGED <<path, generation, suspended, stopping, candidate, closed>>

\* loadSucceeded, for LastLocationTracker::recordLoad
OnClassified(e) ==
  /\ candidate' = IF e.generation \in accepted /\ e.path \in LocalPaths THEN e.path ELSE candidate
  /\ UNCHANGED <<modelVars, accepted, lastAccepted, quit, closed>>

\* walkFinished: with the model stopping, the end of any walk ends the thread
OnWalkFinished(e) ==
  /\ inFlight' = (inFlight /\ e.generation # generation)
  /\ quit' = (quit \/ stopping)
  /\ accepted' = accepted \ {e.generation}     \* shared with nobody any more
  /\ UNCHANGED <<path, generation, rows, rowOf, seen, error, scanning, suspended, stopping,
                 candidate, lastAccepted, closed>>

\* shutdownFinished, when the thread has ended
OnThreadFinished ==
  /\ closed' = TRUE
  /\ UNCHANGED <<modelVars, candidate, accepted, lastAccepted, quit>>

Delivered(type) ==
  /\ ~opening /\ events # <<>> /\ Head(events).type = type
  /\ events' = Tail(events)
  /\ UNCHANGED <<editing, watched, notified, opening, missed, cancelled, inbox, pc, walkVars, fsVars>>

Deliver ==
  \/ Delivered("batch") /\ OnBatch(Head(events))
  \/ Delivered("classified") /\ OnClassified(Head(events))
  \/ Delivered("walkFinished") /\ OnWalkFinished(Head(events))
  \/ Delivered("threadFinished") /\ OnThreadFinished

-----------------------------------------------------------------------------
(* The worker thread.                                                      *)

Post(e) == events' = Append(events, e)
WorkerStep == UNCHANGED <<guiVars, cancelled, quit, fsVars>>
Cancelled == walk.generation \in cancelled

\* acquireBatchSlot: tried again and again until a delivery frees a slot or the
\* walk is cancelled.
Undelivered == {i \in DOMAIN events :
                  events[i].type = "batch" /\ events[i].generation = walk.generation}
SlotFree == Cardinality(Undelivered) < Slots

BeginWalk ==
  /\ pc = "idle" /\ inbox # <<>>
  /\ walk' = Head(inbox) /\ inbox' = Tail(inbox) /\ pc' = "read"
  /\ todo' = Names /\ batch' = <<>>
  /\ UNCHANGED <<succeeded, failed, events>> /\ WorkerStep

\* walkDirectory reads the entries one by one while others change them...
ReadEntry(n) ==
  /\ pc = "read" /\ n \in todo
  /\ todo' = todo \ {n}
  /\ batch' = IF fs[walk.path][n] = 0 THEN batch
              ELSE Append(batch, [name |-> n, version |-> fs[walk.path][n]])
  /\ UNCHANGED <<pc, walk, succeeded, failed, inbox, events>> /\ WorkerStep

\* ... delivers what it has read from time to time...
Batch(finished, err) ==
  [type |-> "batch", generation |-> walk.generation, path |-> walk.path, diff |-> walk.diff,
   entries |-> batch, finished |-> finished, error |-> err]

PostBatch ==
  /\ pc = "read" /\ batch # <<>> /\ SlotFree
  /\ Post(Batch(FALSE, FALSE))
  /\ batch' = <<>>
  /\ UNCHANGED <<pc, walk, todo, succeeded, failed, inbox>> /\ WorkerStep

\* The lambda ends: the worker is free, and nobody reads the walk's flag any more.
\* Nothing happens on the worker between its last report and walkFinished, so
\* the two are posted together.
EndWalk(reports) ==
  /\ events' = events \o reports \o
       <<[type |-> "walkFinished", generation |-> walk.generation, path |-> walk.path]>>
  /\ pc' = "idle" /\ walk' = NoWalk /\ todo' = {} /\ batch' = <<>>
  /\ succeeded' = FALSE /\ failed' = FALSE
  /\ cancelled' = cancelled \ {walk.generation}
  /\ UNCHANGED <<guiVars, inbox, quit, fsVars>>

\* ... and stops when it is cancelled, when it is through, or on an error.
AbandonWalk == pc = "read" /\ Cancelled /\ EndWalk(<<>>)

\* Before the final delivery it is settled whether the load is to be classified.
CompleteWalk(err) ==
  /\ pc = "read" /\ (err \/ todo = {}) /\ (SlotFree \/ Cancelled)
  /\ succeeded' = (~walk.diff /\ ~err /\ ~Cancelled)
  /\ failed' = err
  /\ pc' = "final"
  /\ UNCHANGED <<walk, todo, batch, inbox, events>> /\ WorkerStep

PostFinal ==
  /\ pc = "final"
  /\ \/ /\ ~succeeded /\ EndWalk(<<Batch(TRUE, failed)>>)
     \/ /\ succeeded /\ Post(Batch(TRUE, failed))
        /\ pc' = "classify" /\ batch' = <<>>
        /\ UNCHANGED <<walk, todo, succeeded, failed, inbox>> /\ WorkerStep

\* The classification takes its time; whether it matters is decided on delivery
\* (mutant: a walk cancelled by now is not reported).
OnlyIfStillWanted == ~Cancelled
Reported == TRUE

Classify ==
  /\ pc = "classify"
  /\ EndWalk(IF Reported
             THEN <<[type |-> "classified", generation |-> walk.generation, path |-> walk.path]>>
             ELSE <<>>)

\* After quit() the event loop ends; QThread::finished is queued behind the rest.
ExitThread ==
  /\ pc = "idle" /\ quit
  /\ pc' = "exited"
  /\ Post([type |-> "threadFinished", generation |-> 0, path |-> NoPath])
  /\ UNCHANGED <<walkVars, inbox>> /\ WorkerStep

-----------------------------------------------------------------------------
(* The file system, changed by anyone.  The watcher watches the directory,  *)
(* not the files in it: that an entry comes or goes is reported, that its   *)
(* contents change need not be, and nothing is between load() and           *)
(* addPath().  A change the worker has yet to begin to look for matters to  *)
(* nobody.                                                                  *)
Change(p, n, v) ==
  /\ changes < MaxChanges /\ fs[p][n] # v
  /\ fs' = [fs EXCEPT ![p][n] = v]
  /\ changes' = changes + 1
  /\ \E told \in BOOLEAN :
       /\ told => p = watched
       /\ p = watched /\ 0 \in {v, fs[p][n]} => told
       /\ notified' = (notified \/ told)
       /\ missed' = IF /\ ~told /\ p = path
                       /\ \A i \in DOMAIN inbox : inbox[i].generation # generation
                    THEN missed \cup {n} ELSE missed
  /\ UNCHANGED <<modelVars, editing, watched, opening, candidate, accepted, lastAccepted,
                 closed, cancelled, inbox, events, quit, pc, walkVars>>

User ==
  \/ \E p \in Paths : Load(p)
  \/ TaskFinished
  \/ BeginEditing("rename") \/ BeginEditing("create") \/ EndEditing
  \/ Shutdown

Worker ==
  \/ BeginWalk
  \/ \E n \in Names : ReadEntry(n)
  \/ PostBatch \/ AbandonWalk \/ CompleteWalk(FALSE) \/ CompleteWalk(TRUE) \/ PostFinal
  \/ Classify \/ ExitThread

Next ==
  \/ User \/ AddWatch \/ DirectoryChanged \/ Deliver
  \/ Worker
  \/ \E p \in Paths, n \in Names, v \in {0} \cup Versions : Change(p, n, v)

Spec == Init /\ [][Next]_vars

\* Both threads run; nobody has to navigate, edit or close.
Fairness == WF_vars(AddWatch) /\ WF_vars(Deliver) /\ WF_vars(Worker)
FairSpec == Spec /\ Fairness

-----------------------------------------------------------------------------
(* Properties.                                                             *)

Row == Entry \cup {PlaceholderRow}
Walks == 1 .. MaxWalks

\* The variables of both threads keep their types; there is at most one row an
\* entry, and the placeholder.
TypeOK ==
  /\ path \in Paths \cup {NoPath} /\ watched \in Paths \cup {NoPath}
  /\ candidate \in Paths \cup {NoPath} /\ lastAccepted \in Paths \cup {NoPath}
  /\ generation \in 0 .. MaxWalks /\ rows \in Seq(Row) /\ seen \subseteq Names
  /\ Len(rows) <= Cardinality(Names) + 1
  /\ DOMAIN rowOf \subseteq Names /\ \A n \in DOMAIN rowOf : rowOf[n] \in Nat
  /\ {error, scanning, suspended, inFlight, stopping, notified, opening, quit, succeeded,
      failed, closed} \subseteq BOOLEAN
  /\ missed \subseteq Names
  /\ editing \in {"no", "rename", "create"}
  /\ cancelled \subseteq Walks /\ accepted \subseteq Walks
  /\ inbox \in Seq(Walk) /\ walk \in Walk \cup {NoWalk}
  /\ pc \in {"idle", "read", "final", "classify", "exited"}
  /\ todo \subseteq Names /\ batch \in Seq(Entry)
  /\ fs \in [Paths -> [Names -> {0} \cup Versions]]

\* Every entry has one row and identity_to_row_ points to it, whatever mix of
\* batches, diffs, cancelled walks and placeholder rows came before; the
\* placeholder is the last row and there only while a new name is typed.
RowsMatchIdentities ==
  /\ TypeOK
  /\ \A r \in DOMAIN rows :
       IF rows[r] = PlaceholderRow THEN r = Len(rows) /\ editing = "create"
       ELSE rows[r].name \in DOMAIN rowOf /\ rowOf[rows[r].name] = r
  /\ \A n \in DOMAIN rowOf : rowOf[n] \in DOMAIN rows /\ rows[rowOf[n]].name = n

\* REQ-F-007: a listing that has come to rest without an error shows every entry
\* as it is, but those with a change nobody reported since the newest walk began:
\* refreshes, cancelled walks and edits lose no change.
Contents(p) == {[name |-> n, version |-> fs[p][n]] : n \in {m \in Names : fs[p][m] # 0}}
Told(entries) == {e \in entries : e.name \notin missed}
AtRest ==
  /\ path # NoPath /\ ~scanning /\ ~error /\ ~suspended /\ ~stopping
  /\ ~opening /\ ~notified
SettledListingIsCurrent == AtRest => Told(Range(rows)) = Told(Contents(path))

\* REQ-R-003: no delivery moves the rows under an open editor.
RowsHoldStillUnderEditor == [][suspended /\ suspended' => rows' = rows]_vars

\* REQ-F-019: when the model reports its shutdown, the Local directory whose
\* listing was accepted last has been recorded, although it is classified after
\* the listing is shown and a refresh, a navigation or the close may overtake it.
ClosedWithLastLocation == closed => candidate = lastAccepted

\* A scan comes to its end, with a result or an error, once the directory holds
\* still: the worker waiting for a slot is not waited for in turn (acquireBatchSlot).
ScanningEnds == scanning ~> ~scanning

\* The model reports its shutdown whatever the worker was doing: reading, waiting
\* for a slot, classifying, or nothing (shutdown, walkFinished, applyBatch).
ShutdownEnds == stopping ~> closed

\* Neither thread waits for the other for ever, whatever a walk is cancelled by.
WalksEnd == ScanningEnds /\ ShutdownEnds
=============================================================================
