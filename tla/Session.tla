------------------------------- MODULE Session -------------------------------
(***************************************************************************)
(* The life of the program and what one session leaves to the next:        *)
(* planStartup, SessionLifecycle, LastLocationTracker and StateStore of    *)
(* apps/files.  Several processes may run at once; any may be killed at    *)
(* any moment.  They share one file.                                       *)
(***************************************************************************)
EXTENDS Integers, FiniteSets

CONSTANTS
  Processes,
  Paths, LocalPaths, HomePath, None,
  Workers,                \* what has a thread; the listing is one of them
  Listing,
  Again,                  \* workers that may report twice, being outside this code
  MaxSessions, MaxOpens   \* bounds: starts of the program, directories opened in each

ASSUME SessionAssumption ==
  /\ HomePath \in LocalPaths /\ LocalPaths \subseteq Paths /\ None \notin Paths
  /\ Listing \in Workers /\ Again \subseteq Workers
  /\ MaxSessions \in Nat /\ MaxOpens \in Nat

VARIABLES
  file,         \* last_location in the state file: None without a file, "partial" in between
  phase,        \* of each process
  enabled,      \* restore_enabled_
  pending,      \* restore_candidate_, while it is validated
  here, opens,  \* current_path_, and how many directories were opened
  accepted,     \* the load whose class the listing's worker finds out about
  candidate,    \* candidate_ of the tracker
  threads,      \* the workers that have a thread still, or a notice under way
  awaited,      \* pending_workers_
  saved,        \* state_saved_
  sessions,     \* how many there have been
  last, left    \* history: the local directory each session had listed last,
                \* and that of the last session whose state was saved

vars == <<file, phase, enabled, pending, here, opens, accepted, candidate, threads, awaited, saved,
          sessions, last, left>>

Init ==
  /\ file = None /\ sessions = 0 /\ left = None
  /\ phase = [p \in Processes |-> "off"] /\ enabled = [p \in Processes |-> FALSE]
  /\ pending = [p \in Processes |-> None] /\ here = [p \in Processes |-> None]
  /\ opens = [p \in Processes |-> 0] /\ accepted = [p \in Processes |-> None]
  /\ candidate = [p \in Processes |-> None] /\ threads = [p \in Processes |-> {}]
  /\ awaited = [p \in Processes |-> {}] /\ saved = [p \in Processes |-> FALSE]
  /\ last = [p \in Processes |-> None]

-----------------------------------------------------------------------------
(* Start.                                                                  *)

\* StateStore::load: what cannot be read counts as nothing.
Load == IF file = "partial" THEN None ELSE file

\* planStartup: the stored location if restoring is on and no argument was given.
StoredLocation(restore, argument) == IF restore /\ argument = None THEN Load ELSE None

\* resolveInitialDirectory: the argument if it can be listed, or else home.
InitialDirectory(argument, usable) == IF argument # None /\ usable THEN argument ELSE HomePath

Start(p, restore, argument, usable) ==
  LET stored == StoredLocation(restore, argument) IN
  /\ phase[p] = "off" /\ sessions < MaxSessions
  /\ sessions' = sessions + 1
  /\ phase' = [phase EXCEPT ![p] = "running"]
  /\ enabled' = [enabled EXCEPT ![p] = restore]
  /\ pending' = [pending EXCEPT ![p] = stored]
  /\ here' = [here EXCEPT ![p] = IF stored = None THEN InitialDirectory(argument, usable) ELSE None]
  /\ opens' = [opens EXCEPT ![p] = 0] /\ accepted' = [accepted EXCEPT ![p] = None]
  /\ candidate' = [candidate EXCEPT ![p] = None] /\ last' = [last EXCEPT ![p] = None]
  /\ threads' = [threads EXCEPT ![p] = Workers] /\ awaited' = [awaited EXCEPT ![p] = {}]
  /\ saved' = [saved EXCEPT ![p] = FALSE]
  /\ UNCHANGED <<file, left>>

\* handleRestoreValidated: the stored location, or home; while closing neither.
Validated(p, ok) ==
  /\ pending[p] # None /\ phase[p] = "running"
  /\ here' = [here EXCEPT ![p] = IF ok THEN pending[p] ELSE HomePath]
  /\ pending' = [pending EXCEPT ![p] = None]
  /\ UNCHANGED <<file, phase, enabled, opens, accepted, candidate, threads, awaited, saved, sessions, last, left>>

-----------------------------------------------------------------------------
(* Directories come and go.                                                *)

\* By the user, or by the answer for a bookmark, which may come while closing.
Open(p, path) ==
  /\ phase[p] \in {"running", "closing"} /\ opens[p] < MaxOpens
  /\ here' = [here EXCEPT ![p] = path] /\ opens' = [opens EXCEPT ![p] = @ + 1]
  /\ pending' = [pending EXCEPT ![p] = None]     \* its serial has gone by
  /\ UNCHANGED <<file, phase, enabled, accepted, candidate, threads, awaited, saved, sessions, last, left>>

\* The listing is complete, which it never is once closing has begun; the worker
\* goes on to find out its class.
Listed(p) ==
  /\ phase[p] = "running" /\ here[p] # None /\ accepted[p] = None
  /\ accepted' = [accepted EXCEPT ![p] = here[p]]
  /\ last' = [last EXCEPT ![p] = IF here[p] \in LocalPaths THEN here[p] ELSE @]
  /\ UNCHANGED <<file, phase, enabled, pending, here, opens, candidate, threads, awaited, saved, sessions, left>>

\* recordLoad, on loadSucceeded.
Recorded(path) == path \in LocalPaths

RecordLoad(p) ==
  /\ accepted[p] # None
  /\ candidate' = [candidate EXCEPT ![p] = IF Recorded(accepted[p]) THEN accepted[p] ELSE @]
  /\ accepted' = [accepted EXCEPT ![p] = None]
  /\ UNCHANGED <<file, phase, enabled, pending, here, opens, threads, awaited, saved, sessions, last, left>>

-----------------------------------------------------------------------------
(* The end.                                                                *)

\* The state is due if restoring is on and something was listed, once.
Due(p) == ~saved[p] /\ enabled[p] /\ candidate[p] # None

\* shutdown, when the window has gone.
Shutdown(p) ==
  /\ phase[p] = "running"
  /\ phase' = [phase EXCEPT ![p] = "closing"] /\ awaited' = [awaited EXCEPT ![p] = Workers]
  /\ pending' = [pending EXCEPT ![p] = None]
  /\ UNCHANGED <<file, enabled, here, opens, accepted, candidate, threads, saved, sessions, last, left>>

\* workerFinished, for a thread that has ended: is it the last?  (Mutants: any is;
\* the question is asked before the worker has been taken out.)
AnyFinishes(p, w) == w \in awaited[p]
FinishesEarlier(p, w) == w \in awaited[p] /\ awaited[p] = {}
Finishes(p, w) == w \in awaited[p] /\ awaited[p] \ {w} = {}

\* The listing's thread ends after the deliveries it has posted.
WorkerFinished(p, w) ==
  /\ phase[p] = "closing" /\ w \in threads[p]
  /\ w = Listing => accepted[p] = None
  /\ threads' = [threads EXCEPT ![p] = @ \ {w}]
  /\ awaited' = [awaited EXCEPT ![p] = @ \ {w}]
  /\ phase' = IF Finishes(p, w) THEN [phase EXCEPT ![p] = IF Due(p) THEN "saving" ELSE "closed"] ELSE phase
  /\ saved' = IF Finishes(p, w) /\ Due(p) THEN [saved EXCEPT ![p] = TRUE] ELSE saved
  /\ UNCHANGED <<file, enabled, pending, here, opens, accepted, candidate, sessions, last, left>>

WorkerFinishedAgain(p, w) ==
  /\ phase[p] = "closing" /\ w \in Again \ threads[p]
  /\ phase' = IF Finishes(p, w) THEN [phase EXCEPT ![p] = "closed"] ELSE phase
  /\ UNCHANGED <<file, enabled, pending, here, opens, accepted, candidate, threads, awaited, saved,
                 sessions, last, left>>

\* StateStore::save writes beside the file what will replace it (mutant: into it).
InPlace == file' = "partial"
Beside == UNCHANGED file

\* Whatever fails, the program ends.
WriteState(p, ok) ==
  /\ phase[p] = "saving"
  /\ IF ok THEN Beside ELSE UNCHANGED file
  /\ phase' = [phase EXCEPT ![p] = IF ok THEN "committing" ELSE "closed"]
  /\ UNCHANGED <<enabled, pending, here, opens, accepted, candidate, threads, awaited, saved, sessions, last, left>>

CommitState(p, ok) ==
  /\ phase[p] = "committing"
  /\ phase' = [phase EXCEPT ![p] = "closed"]
  /\ file' = IF ok THEN candidate[p] ELSE file
  /\ left' = IF ok THEN last[p] ELSE left
  /\ UNCHANGED <<enabled, pending, here, opens, accepted, candidate, threads, awaited, saved, sessions, last>>

\* quit, or the end of a process that was killed.
Stop(p) ==
  /\ phase' = [phase EXCEPT ![p] = "off"] /\ threads' = [threads EXCEPT ![p] = {}]
  /\ pending' = [pending EXCEPT ![p] = None] /\ accepted' = [accepted EXCEPT ![p] = None]
  /\ UNCHANGED <<file, enabled, here, opens, candidate, awaited, saved, sessions, last, left>>

Quit(p) == phase[p] = "closed" /\ Stop(p)
Kill(p) == phase[p] # "off" /\ Stop(p)

Ends(p) ==
  \/ \E w \in Workers : WorkerFinished(p, w)
  \/ RecordLoad(p)
  \/ \E ok \in BOOLEAN : WriteState(p, ok) \/ CommitState(p, ok)
  \/ Quit(p)

Next ==
  \E p \in Processes :
    \/ \E restore, usable \in BOOLEAN, argument \in Paths \cup {None} : Start(p, restore, argument, usable)
    \/ \E path \in Paths : Open(p, path)
    \/ \E ok \in BOOLEAN : Validated(p, ok)
    \/ Listed(p) \/ Shutdown(p) \/ Kill(p)
    \/ \E w \in Workers : WorkerFinishedAgain(p, w)
    \/ Ends(p)

Spec == Init /\ [][Next]_vars

\* The workers' threads end: TaskManager and DirectoryModel show it of theirs.
FairSpec == Spec /\ \A p \in Processes : WF_vars(Ends(p))

-----------------------------------------------------------------------------
(* Properties.                                                             *)

TypeOK ==
  /\ file \in Paths \cup {None, "partial"} /\ sessions \in 0 .. MaxSessions
  /\ phase \in [Processes -> {"off", "running", "closing", "saving", "committing", "closed"}]
  /\ enabled \in [Processes -> BOOLEAN] /\ saved \in [Processes -> BOOLEAN]
  /\ opens \in [Processes -> 0 .. MaxOpens]
  /\ pending \in [Processes -> Paths \cup {None}] /\ here \in [Processes -> Paths \cup {None}]
  /\ accepted \in [Processes -> Paths \cup {None}] /\ candidate \in [Processes -> LocalPaths \cup {None}]
  /\ threads \in [Processes -> SUBSET Workers] /\ awaited \in [Processes -> SUBSET Workers]
  /\ last \in [Processes -> LocalPaths \cup {None}] /\ left \in LocalPaths \cup {None}

\* What a session that starts finds is where the last session that saved its state
\* was, whoever else is writing, was killed or could not write.
StateIsLastSession == file = left

\* REQ-F-010, REQ-F-018: the file changes when a session with restoring on ends in
\* order, and then says the local directory that session had listed last.
SavedInOrder ==
  [][file' # file =>
       \E p \in Processes : /\ phase[p] = "committing" /\ phase'[p] = "closed"
                            /\ enabled[p] /\ file' = last[p]]_vars

\* The program does not quit while a thread of its own is running, whichever worker
\* reports twice, and the state has been saved by then if it was due.
QuitsAfterWorkers ==
  \A p \in Processes :
    phase[p] \in {"saving", "committing", "closed"} => threads[p] = {} /\ ~Due(p)

\* A window that was closed leaves no process behind.
Closes == \A p \in Processes : (phase[p] = "closing") ~> (phase[p] = "off")
=============================================================================
