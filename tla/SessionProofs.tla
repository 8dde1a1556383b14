---------------------------- MODULE SessionProofs ----------------------------
(***************************************************************************)
(* Proofs about what the program keeps in files and reads from them: the   *)
(* last location (Session), for any processes, directories and workers,    *)
(* and the close button (Preferences), for any profiles.                   *)
(***************************************************************************)
EXTENDS Session, Preferences, WellFoundedInduction, TLAPS

-----------------------------------------------------------------------------
(* The session.  What its end rests on is that the lifecycle waits for     *)
(* exactly the threads that are still there, and that the listing's thread *)
(* ends only when the tracker knows of all that was listed.                *)

Ending == {"saving", "committing", "closed"}

\* What is true of one process at every step of its life.
Running(p) == phase[p] = "running" => threads[p] = Workers
Waiting(p) == phase[p] = "closing" => awaited[p] = threads[p]
Ended(p) == phase[p] \in Ending => threads[p] = {} /\ ~Due(p)
Saving(p) == phase[p] \in {"saving", "committing"} => enabled[p]
Told(p) == phase[p] # "off" /\ Listing \notin threads[p] => accepted[p] = None

\* What the tracker knows, or is about to learn, is what was listed.
Known(p) ==
  phase[p] # "off" =>
    last[p] = IF accepted[p] # None /\ accepted[p] \in LocalPaths THEN accepted[p] ELSE candidate[p]

Life(p) == Running(p) /\ Waiting(p) /\ Ended(p) /\ Saving(p) /\ Told(p) /\ Known(p)

IInv == TypeOK /\ StateIsLastSession /\ \A p \in Processes : Life(p)

\* What the actions of one process change of others.
LEMMA OthersStay ==
  ASSUME IInv, NEW q \in Processes,
         phase'[q] = phase[q], enabled'[q] = enabled[q], accepted'[q] = accepted[q],
         candidate'[q] = candidate[q], threads'[q] = threads[q], awaited'[q] = awaited[q],
         saved'[q] = saved[q], last'[q] = last[q]
  PROVE  Life(q)'
BY DEF IInv, Life, Running, Waiting, Ended, Saving, Told, Known, Due

\* At the start no process runs.
LEMMA InitGood == Init => IInv
BY SessionAssumption DEF Init, IInv, TypeOK, StateIsLastSession, Life, Running, Waiting, Ended, Saving, Told,
   Known, Ending, Due

\* The start of a session.
LEMMA StartKeeps ==
  ASSUME IInv, NEW p \in Processes, NEW restore \in BOOLEAN, NEW usable \in BOOLEAN,
         NEW argument \in Paths \cup {None}, Start(p, restore, argument, usable)
  PROVE  IInv'
<1> DEFINE stored == StoredLocation(restore, argument)
<1>1. stored \in Paths \cup {None} /\ InitialDirectory(argument, usable) \in Paths
  BY SessionAssumption DEF StoredLocation, InitialDirectory, Load, IInv, TypeOK
<1>2. TypeOK'
  <2>1. sessions' \in 0 .. MaxSessions /\ 0 \in 0 .. MaxOpens
    BY SessionAssumption DEF IInv, TypeOK, Start
  <2>2. /\ opens' \in [Processes -> 0 .. MaxOpens]
        /\ phase' \in [Processes -> {"off", "running", "closing", "saving", "committing", "closed"}]
        /\ enabled' \in [Processes -> BOOLEAN] /\ saved' \in [Processes -> BOOLEAN]
    BY <2>1 DEF IInv, TypeOK, Start
  <2>3. /\ pending' \in [Processes -> Paths \cup {None}] /\ here' \in [Processes -> Paths \cup {None}]
        /\ accepted' \in [Processes -> Paths \cup {None}]
        /\ candidate' \in [Processes -> LocalPaths \cup {None}]
    BY <1>1 DEF IInv, TypeOK, Start
  <2>4. /\ threads' \in [Processes -> SUBSET Workers] /\ awaited' \in [Processes -> SUBSET Workers]
        /\ last' \in [Processes -> LocalPaths \cup {None}]
    BY DEF IInv, TypeOK, Start
  <2> QED
    BY <2>1, <2>2, <2>3, <2>4 DEF IInv, TypeOK, Start
<1>3. StateIsLastSession'
  BY DEF IInv, StateIsLastSession, Start
<1>4. Life(p)'
  BY SessionAssumption DEF IInv, TypeOK, Start, Life, Running, Waiting, Ended, Saving, Told, Known, Ending
<1>5. ASSUME NEW q \in Processes, q # p PROVE Life(q)'
  BY <1>5, OthersStay DEF IInv, TypeOK, Start
<1> QED
  BY <1>2, <1>3, <1>4, <1>5 DEF IInv

\* Directories come and go.
LEMMA BrowsingKeeps ==
  ASSUME IInv, NEW p \in Processes,
         \/ \E path \in Paths : Open(p, path)
         \/ \E ok \in BOOLEAN : Validated(p, ok)
         \/ Listed(p) \/ RecordLoad(p)
  PROVE  IInv'
<1>1. CASE \E path \in Paths : Open(p, path)
  <2>1. TypeOK'
    <3>1. opens[p] + 1 \in 0 .. MaxOpens
      BY <1>1, SessionAssumption DEF IInv, TypeOK, Open
    <3> QED
      BY <1>1, <3>1 DEF IInv, TypeOK, Open
  <2>2. \A q \in Processes : Life(q)'
    BY <1>1, OthersStay DEF Open
  <2> QED
    BY <1>1, <2>1, <2>2 DEF IInv, StateIsLastSession, Open
<1>2. CASE \E ok \in BOOLEAN : Validated(p, ok)
  <2>1. TypeOK'
    BY <1>2, SessionAssumption DEF IInv, TypeOK, Validated
  <2>2. \A q \in Processes : Life(q)'
    BY <1>2, OthersStay DEF Validated
  <2> QED
    BY <1>2, <2>1, <2>2 DEF IInv, StateIsLastSession, Validated
<1>3. CASE Listed(p)
  <2>1. TypeOK'
    BY <1>3 DEF IInv, TypeOK, Listed
  <2>2. Life(p)'
    BY <1>3, SessionAssumption DEF IInv, TypeOK, Listed, Life, Running, Waiting, Ended, Saving, Told,
       Known, Ending
  <2>3. ASSUME NEW q \in Processes, q # p PROVE Life(q)'
    BY <1>3, <2>3, OthersStay DEF IInv, TypeOK, Listed
  <2> QED
    BY <1>3, <2>1, <2>2, <2>3 DEF IInv, StateIsLastSession, Listed
<1>4. CASE RecordLoad(p)
  <2>1. TypeOK'
    BY <1>4 DEF IInv, TypeOK, RecordLoad, Recorded
  <2>2. Life(p)'
    <3>1. phase[p] \notin Ending
      BY <1>4, SessionAssumption DEF IInv, RecordLoad, Life, Ended, Told, Ending
    <3>2. Ended(p)'
      BY <1>4, <3>1 DEF RecordLoad, Ended
    <3>3. Known(p)'
      BY <1>4, SessionAssumption DEF IInv, TypeOK, RecordLoad, Recorded, Life, Known
    <3>4. (Running(p) /\ Waiting(p) /\ Saving(p) /\ Told(p))'
      BY <1>4 DEF IInv, TypeOK, RecordLoad, Life, Running, Waiting, Saving, Told
    <3> QED
      BY <3>2, <3>3, <3>4 DEF Life
  <2>3. ASSUME NEW q \in Processes, q # p PROVE Life(q)'
    BY <1>4, <2>3, OthersStay DEF IInv, TypeOK, RecordLoad
  <2> QED
    BY <1>4, <2>1, <2>2, <2>3 DEF IInv, StateIsLastSession, RecordLoad
<1> QED
  BY <1>1, <1>2, <1>3, <1>4

\* The close, and the threads that end.
LEMMA ClosingKeeps ==
  ASSUME IInv, NEW p \in Processes,
         Shutdown(p) \/ \E w \in Workers : WorkerFinished(p, w) \/ WorkerFinishedAgain(p, w)
  PROVE  IInv'
<1>1. CASE Shutdown(p)
  <2>1. TypeOK'
    BY <1>1 DEF IInv, TypeOK, Shutdown
  <2>2. Life(p)'
    BY <1>1 DEF IInv, TypeOK, Shutdown, Life, Running, Waiting, Ended, Saving, Told, Known, Ending
  <2>3. ASSUME NEW q \in Processes, q # p PROVE Life(q)'
    BY <1>1, <2>3, OthersStay DEF IInv, TypeOK, Shutdown
  <2> QED
    BY <1>1, <2>1, <2>2, <2>3 DEF IInv, StateIsLastSession, Shutdown
<1>2. ASSUME NEW w \in Workers, WorkerFinished(p, w) PROVE IInv'
  <2>1. TypeOK'
    BY <1>2 DEF IInv, TypeOK, WorkerFinished
  <2>2. /\ phase[p] = "closing" /\ awaited[p] = threads[p] /\ w \in threads[p]
        /\ threads'[p] = threads[p] \ {w} /\ awaited'[p] = threads[p] \ {w}
        /\ w = Listing => accepted[p] = None
        /\ UNCHANGED <<file, enabled, pending, here, opens, accepted, candidate, sessions, last, left>>
    BY <1>2 DEF IInv, TypeOK, Life, Waiting, WorkerFinished
  <2>3. /\ Finishes(p, w) => /\ threads[p] \ {w} = {}
                             /\ phase'[p] = IF Due(p) THEN "saving" ELSE "closed"
                             /\ saved'[p] = IF Due(p) THEN TRUE ELSE saved[p]
        /\ ~Finishes(p, w) => phase'[p] = "closing" /\ saved'[p] = saved[p]
    BY <1>2, <2>2 DEF IInv, TypeOK, WorkerFinished, Finishes
  <2>4. Life(p)'
    <3>1. (Running(p) /\ Waiting(p) /\ Told(p) /\ Known(p))'
      BY <2>2, <2>3 DEF IInv, Life, Told, Known, Running, Waiting
    <3>2. Ended(p)' /\ Saving(p)'
      BY <2>2, <2>3 DEF Ended, Saving, Ending, Due
    <3> QED
      BY <3>1, <3>2 DEF Life
  <2>5. ASSUME NEW q \in Processes, q # p PROVE Life(q)'
    BY <1>2, <2>5, OthersStay DEF IInv, TypeOK, WorkerFinished
  <2> QED
    BY <2>1, <2>2, <2>4, <2>5 DEF IInv, StateIsLastSession
<1>3. ASSUME NEW w \in Workers, WorkerFinishedAgain(p, w) PROVE IInv'
  <2>1. ~Finishes(p, w)
    BY <1>3 DEF IInv, Life, Waiting, WorkerFinishedAgain, Finishes
  <2>2. UNCHANGED vars
    BY <1>3, <2>1 DEF WorkerFinishedAgain, vars
  <2> QED
    BY <2>2, OthersStay DEF vars, IInv, TypeOK, StateIsLastSession
<1> QED
  BY <1>1, <1>2, <1>3

\* The state is written, and the process goes.
LEMMA EndKeeps ==
  ASSUME IInv, NEW p \in Processes,
         \/ \E ok \in BOOLEAN : WriteState(p, ok) \/ CommitState(p, ok)
         \/ Quit(p) \/ Kill(p)
  PROVE  IInv'
<1>1. ASSUME NEW ok \in BOOLEAN, WriteState(p, ok) PROVE IInv'
  <2>1. TypeOK'
    BY <1>1 DEF IInv, TypeOK, WriteState, Beside
  <2>2. Life(p)'
    BY <1>1 DEF IInv, TypeOK, WriteState, Life, Running, Waiting, Ended, Saving, Told, Known, Ending, Due
  <2>3. ASSUME NEW q \in Processes, q # p PROVE Life(q)'
    BY <1>1, <2>3, OthersStay DEF IInv, TypeOK, WriteState
  <2> QED
    BY <1>1, <2>1, <2>2, <2>3 DEF IInv, StateIsLastSession, WriteState, Beside
<1>2. ASSUME NEW ok \in BOOLEAN, CommitState(p, ok) PROVE IInv'
  <2>1. candidate[p] = last[p]
    BY <1>2, SessionAssumption DEF IInv, Life, Ended, Told, Known, Ending, CommitState
  <2>2. StateIsLastSession'
    BY <1>2, <2>1 DEF IInv, StateIsLastSession, CommitState
  <2>3. TypeOK'
    BY <1>2, SessionAssumption DEF IInv, TypeOK, CommitState
  <2>4. Life(p)'
    BY <1>2 DEF IInv, TypeOK, CommitState, Life, Running, Waiting, Ended, Saving, Told, Known, Ending, Due
  <2>5. ASSUME NEW q \in Processes, q # p PROVE Life(q)'
    BY <1>2, <2>5, OthersStay DEF IInv, TypeOK, CommitState
  <2> QED
    BY <2>2, <2>3, <2>4, <2>5 DEF IInv
<1>3. CASE Stop(p)
  <2>1. TypeOK'
    BY <1>3 DEF IInv, TypeOK, Stop
  <2>2. Life(p)'
    BY <1>3 DEF IInv, TypeOK, Stop, Life, Running, Waiting, Ended, Saving, Told, Known, Ending
  <2>3. ASSUME NEW q \in Processes, q # p PROVE Life(q)'
    BY <1>3, <2>3, OthersStay DEF IInv, TypeOK, Stop
  <2> QED
    BY <1>3, <2>1, <2>2, <2>3 DEF IInv, StateIsLastSession, Stop
<1> QED
  BY <1>1, <1>2, <1>3 DEF Quit, Kill

\* Every step of every process.
LEMMA NextKeeps == IInv /\ [Next]_vars => IInv'
<1>1. ASSUME IInv, UNCHANGED vars PROVE IInv'
  BY <1>1, OthersStay DEF vars, IInv, TypeOK, StateIsLastSession
<1> QED
  BY <1>1, StartKeeps, BrowsingKeeps, ClosingKeeps, EndKeeps DEF Next, Ends

\* The invariant holds at every moment.
LEMMA IInvHolds == Spec => []IInv
BY InitGood, NextKeeps, PTL DEF Spec

-----------------------------------------------------------------------------
(* The theorems.                                                           *)

\* The variables keep their types.
THEOREM TypesHold == Spec => []TypeOK
<1>1. IInv => TypeOK
  BY DEF IInv
<1> QED
  BY <1>1, IInvHolds, PTL

\* The file says where the last session that saved its state was, whoever else is
\* writing, is killed or fails.
THEOREM FileIsLastSession == Spec => []StateIsLastSession
<1>1. IInv => StateIsLastSession
  BY DEF IInv
<1> QED
  BY <1>1, IInvHolds, PTL

\* SessionLifecycle quits when every thread has ended, however often the workers that
\* are outside this code report, and the state that is due has been saved.
THEOREM WorkersEndFirst == Spec => []QuitsAfterWorkers
<1>1. IInv => QuitsAfterWorkers
  BY DEF IInv, Life, Ended, Ending, QuitsAfterWorkers
<1> QED
  BY <1>1, IInvHolds, PTL

\* REQ-F-010, REQ-F-018: only the end of a session with restoring on changes the file,
\* and then to the local directory that session had listed last.
THEOREM SavesInOrder == Spec => SavedInOrder
<1> DEFINE Saves == file' # file =>
                      \E p \in Processes : /\ phase[p] = "committing" /\ phase'[p] = "closed"
                                           /\ enabled[p] /\ file' = last[p]
<1>1. ASSUME IInv, NEW p \in Processes, NEW ok \in BOOLEAN, CommitState(p, ok) PROVE Saves
  <2>1. candidate[p] = last[p] /\ enabled[p]
    BY <1>1, SessionAssumption DEF IInv, Life, Ended, Saving, Told, Known, Ending, CommitState
  <2> QED
    BY <1>1, <2>1 DEF IInv, TypeOK, CommitState
<1>2. ASSUME [Next]_vars, \A p \in Processes, ok \in BOOLEAN : ~CommitState(p, ok) PROVE file' = file
  BY <1>2 DEF Next, vars, Start, Open, Validated, Listed, Shutdown, Kill, Quit, Stop, WorkerFinishedAgain,
              Ends, WorkerFinished, RecordLoad, WriteState, Beside
<1>3. IInv /\ [Next]_vars => [Saves]_vars
  BY <1>1, <1>2
<1> QED
  BY <1>3, IInvHolds, PTL DEF Spec, SavedInOrder

-----------------------------------------------------------------------------
(* The preferences: the types, with changes at any time.                   *)

\* The first candidate is one: there is a least number of any.
LEMMA LeastIsThere == ASSUME NEW T, T \subseteq Nat, T # {} PROVE \E i \in T : \A j \in T : i <= j
<1>1. PICK i \in T : \A j \in T : <<j, i>> \notin OpToRel(<, Nat)
  BY NatLessThanWellFounded, WFMin, Zenon
<1>2. \A j \in T : ~(j < i)
  BY <1>1 DEF OpToRel
<1> QED
  BY <1>2

\* Selected is a file or none.
LEMMA SelectedIsFile == Selected(disk) \in (Files \ {Base}) \cup {NoFile}
<1>1. CASE Present(disk) = {}
  BY <1>1 DEF Selected
<1>2. CASE Present(disk) # {}
  <2>1. Present(disk) \subseteq Nat /\ \A i \in Present(disk) : Profiles[i] \in Files \ {Base}
    BY PreferencesAssumption DEF Present
  <2>2. \E i \in Present(disk) : \A j \in Present(disk) : i <= j
    BY <1>2, <2>1, LeastIsThere
  <2> QED
    BY <1>2, <2>1, <2>2 DEF Selected
<1> QED
  BY <1>1, <1>2

\* A layer leaves on or off what is on or off.
LEMMA AppliedIsOnOrOff ==
  ASSUME NEW value \in {"on", "off"}, NEW content PROVE Applied(value, content) \in {"on", "off"}
BY DEF Applied

\* The variables keep their types, the files change whenever they do.
THEOREM PreferencesTypesHold == PreferencesSpec => []PreferencesTypeOK
<1>1. PreferencesInit => PreferencesTypeOK
  <2>1. ASSUME PreferencesInit PROVE disk \in [Files -> Contents \cup {NoFile}] /\ changes \in 0 .. MaxChanges
    BY <2>1, PreferencesAssumption DEF PreferencesInit, Contents
  <2>2. ASSUME PreferencesInit
        PROVE  /\ directory \in BOOLEAN /\ event \in BOOLEAN /\ debounce \in BOOLEAN
               /\ ~directory => \A f \in Files : disk[f] = NoFile
    BY <2>2 DEF PreferencesInit
  <2> QED
    BY <2>1, <2>2 DEF PreferencesInit, PreferencesTypeOK
<1>2. PreferencesTypeOK /\ [PreferencesNext]_preferences => PreferencesTypeOK'
  <2> SUFFICES ASSUME PreferencesTypeOK, [PreferencesNext]_preferences PROVE PreferencesTypeOK'
    OBVIOUS
  <2> USE DEF PreferencesTypeOK
  <2>1. ASSUME NEW changed \in SUBSET Files, Change(changed)
        PROVE  /\ changes' \in 0 .. MaxChanges /\ during' \subseteq Files
               /\ UNCHANGED <<debounce, pc, selected, read, unseen, found, shown>>
    BY <2>1, PreferencesAssumption DEF Change, locals
  <2>2. ASSUME NEW f \in Files, NEW content \in Contents, Write(f, content) PROVE PreferencesTypeOK'
    BY <2>1, <2>2, PreferencesAssumption DEF Write, Report, Contents
  <2>3. ASSUME NEW f \in Files, NEW content \in Contents, Replace(f, content) PROVE PreferencesTypeOK'
    BY <2>1, <2>3, PreferencesAssumption DEF Replace, Report, Contents
  <2>4. ASSUME NEW f \in Files, RemoveFile(f) PROVE PreferencesTypeOK'
    BY <2>1, <2>4, PreferencesAssumption DEF RemoveFile, Report, Contents
  <2>5. CASE MakeDirectory
    BY <2>1, <2>5 DEF MakeDirectory, Report
  <2>6. CASE RemoveDirectory
    BY <2>1, <2>6 DEF RemoveDirectory, Report
  <2>7. CASE Deliver
    BY <2>7 DEF Deliver, files, locals
  <2>8. CASE Timeout
    BY <2>8 DEF Timeout, files, locals
  <2>9. CASE Select
    BY <2>9, SelectedIsFile DEF Select
  <2>10. CASE ReadBase
    BY <2>10, AppliedIsOnOrOff DEF ReadBase, files
  <2>11. CASE ReadProfile
    BY <2>11, AppliedIsOnOrOff DEF ReadProfile, files, locals
  <2>12. CASE Unwatch
    BY <2>12, PreferencesAssumption DEF Unwatch, files
  <2>13. ASSUME NEW p \in Files \cup {Directory, Above}, FindExisting(p) PROVE PreferencesTypeOK'
    BY <2>13 DEF FindExisting, files
  <2>14. ASSUME NEW p \in Files \cup {Directory, Above}, Watch(p) PROVE PreferencesTypeOK'
    <3>1. /\ watched' \subseteq {f \in Files : disk[f] # NoFile} \cup {Directory, Above}
          /\ Directory \in watched' => directory
      BY <2>14, PreferencesAssumption DEF Watch, Existing
    <3> QED
      BY <2>14, <3>1 DEF Watch, files
  <2>15. CASE UNCHANGED preferences
    BY <2>15 DEF preferences, files, locals
  <2> QED
    BY <2>2, <2>3, <2>4, <2>5, <2>6, <2>7, <2>8, <2>9, <2>10, <2>11, <2>12, <2>13, <2>14, <2>15
       DEF PreferencesNext, Reload
<1> QED
  BY <1>1, <1>2, PTL DEF PreferencesSpec

-----------------------------------------------------------------------------
(* What is shown.  Once nothing is under way, the watcher watches all that *)
(* exists but for what changed during the reload, so that the next change  *)
(* of any other file, or of the directory, is reported; and once one is,   *)
(* reload reads everything anew, whatever else changes before.             *)

Quiet == pc = "idle" /\ ~event /\ ~debounce

\* What reload has read so far is what the files said, but for those that changed since.
Selecting == pc = "base" => \E old \in Past : selected = Selected(old)
Reading ==
  pc = "profile" => \E old \in Past : selected = Selected(old) /\ read = Applied("on", old[Base])
Showing == pc \in {"unwatch", "find", "watch"} \/ Quiet => \E old \in Past : shown = Effective(old)

\* All that exists is still to be looked at, to be watched, or watched; but for the files
\* that changed meanwhile, and the directory if it did.
Minded == unseen \cup found \cup watched
AllMinded ==
  pc \in {"find", "watch"} \/ Quiet =>
    /\ Above \in Minded
    /\ directory => Directory \in Minded \/ during = Files
    /\ \A f \in Files \ during : disk[f] # NoFile => f \in Minded
Stages ==
  /\ pc # "find" => unseen = {}
  /\ pc \notin {"find", "watch"} => found = {}

PreferencesInv == Selecting /\ Reading /\ Showing /\ AllMinded /\ Stages

Changing ==
  \/ \E f \in Files, content \in Contents : Write(f, content) \/ Replace(f, content)
  \/ \E f \in Files : RemoveFile(f)
  \/ MakeDirectory \/ RemoveDirectory

\* What the files said is told by the profiles that exist and what two files contain.
LEMMA SelectedByPresence ==
  ASSUME NEW old, NEW new, Present(old) = Present(new) PROVE Selected(old) = Selected(new)
BY DEF Selected

\* What is selected exists, and is not the base.
LEMMA SelectedIsThere ==
  ASSUME NEW old, Selected(old) # NoFile
  PROVE  Selected(old) \in Files \ {Base} /\ old[Selected(old)] # NoFile
<1>1. Present(old) # {}
  BY DEF Selected
<1>2. Present(old) \subseteq Nat /\ \A i \in Present(old) : Profiles[i] \in Files \ {Base}
  BY PreferencesAssumption DEF Present
<1>3. \E i \in Present(old) : \A j \in Present(old) : i <= j
  BY <1>1, <1>2, LeastIsThere
<1>4. \E i \in Present(old) : Selected(old) = Profiles[i]
  BY <1>1, <1>3 DEF Selected
<1> QED
  BY <1>2, <1>4 DEF Present

\* Where there is no file, the layer says nothing.
LEMMA NoFileIsSilent ==
  \A value : Applied(value, NoFile) = value /\ Applied(value, "silent") = value
BY PreferencesAssumption DEF Applied, Contents

\* A change leaves the other files and what reload has found out, and takes no watch from
\* what is not changed.
LEMMA ChangesAreLocal ==
  ASSUME PreferencesTypeOK, Changing
  PROVE  \E changed \in SUBSET Files :
           /\ \A f \in Files \ changed : disk'[f] = disk[f] /\ (f \in watched => f \in watched')
           /\ during' = IF pc \in {"idle", "select"} THEN during ELSE during \cup changed
           /\ UNCHANGED <<pc, debounce, selected, read, unseen, found, shown>>
           /\ event => event'
           /\ Above \in watched => Above \in watched'
           /\ \/ directory' = directory /\ (Directory \in watched => Directory \in watched')
              \/ changed = Files /\ (~directory' \/ MakeDirectory)
<1> USE DEF Change, Report, locals
<1>1. ASSUME NEW f \in Files, NEW content \in Contents, Write(f, content)
      PROVE  /\ \A g \in Files \ {f} : disk'[g] = disk[g] /\ (g \in watched => g \in watched')
             /\ during' = IF pc \in {"idle", "select"} THEN during ELSE during \cup {f}
             /\ UNCHANGED <<pc, debounce, selected, read, unseen, found, shown, directory, watched>>
             /\ event => event'
  BY <1>1 DEF Write, PreferencesTypeOK
<1>2. ASSUME NEW f \in Files,
             RemoveFile(f) \/ \E content \in Contents : Replace(f, content)
      PROVE  /\ \A g \in Files \ {f} : disk'[g] = disk[g] /\ (g \in watched => g \in watched')
             /\ during' = IF pc \in {"idle", "select"} THEN during ELSE during \cup {f}
             /\ UNCHANGED <<pc, debounce, selected, read, unseen, found, shown, directory>>
             /\ event => event'
             /\ \A p \in {Directory, Above} : p \in watched => p \in watched'
  BY <1>2, PreferencesAssumption DEF RemoveFile, Replace, PreferencesTypeOK
<1>3. CASE MakeDirectory
  <2> WITNESS Files \in SUBSET Files
  <2> QED
    BY <1>3 DEF MakeDirectory
<1>4. CASE RemoveDirectory
  <2> WITNESS Files \in SUBSET Files
  <2> QED
    BY <1>4, PreferencesAssumption DEF RemoveDirectory
<1>5. CASE \E f \in Files, content \in Contents : Write(f, content)
  <2>1. PICK f \in Files : \E content \in Contents : Write(f, content)
    BY <1>5
  <2>2. {f} \in SUBSET Files
    OBVIOUS
  <2> QED
    BY <1>1, <2>1, <2>2
<1>6. CASE \E f \in Files : RemoveFile(f) \/ \E content \in Contents : Replace(f, content)
  <2>1. PICK f \in Files : RemoveFile(f) \/ \E content \in Contents : Replace(f, content)
    BY <1>6
  <2>2. {f} \in SUBSET Files
    OBVIOUS
  <2> QED
    BY <1>2, <2>1, <2>2
<1> QED
  BY <1>3, <1>4, <1>5, <1>6 DEF Changing

\* When all was quiet, a change of a file that did not change during the reload is
\* reported, and so is that the directory comes or goes.
LEMMA ChangesAreReported ==
  ASSUME PreferencesTypeOK, AllMinded, Stages, Quiet, Changing, ~event'
  PROVE  /\ ~MakeDirectory /\ directory' = directory
         /\ \A f \in Files \ during : disk'[f] = disk[f] /\ (f \in watched => f \in watched')
<1>1. /\ Above \in watched /\ (directory => Directory \in watched \/ during = Files)
      /\ \A f \in Files \ during : disk[f] # NoFile => f \in watched
  BY DEF Quiet, AllMinded, Stages, Minded
<1> USE DEF Report, PreferencesTypeOK
<1>2. ~MakeDirectory /\ ~RemoveDirectory
  BY <1>1 DEF MakeDirectory, RemoveDirectory
<1>3. ASSUME NEW f \in Files, NEW content \in Contents, Write(f, content)
      PROVE  /\ f \in during /\ directory' = directory
             /\ \A g \in Files \ {f} : disk'[g] = disk[g] /\ (g \in watched => g \in watched')
  BY <1>1, <1>3 DEF Write
<1>4. ASSUME NEW f \in Files, NEW content \in Contents, Replace(f, content)
      PROVE  /\ f \in during /\ directory' = directory
             /\ \A g \in Files \ {f} : disk'[g] = disk[g] /\ (g \in watched => g \in watched')
  BY <1>1, <1>4 DEF Replace
<1>5. ASSUME NEW f \in Files, RemoveFile(f)
      PROVE  /\ f \in during /\ directory' = directory
             /\ \A g \in Files \ {f} : disk'[g] = disk[g] /\ (g \in watched => g \in watched')
  BY <1>1, <1>5 DEF RemoveFile
<1> QED
  BY <1>2, <1>3, <1>4, <1>5 DEF Changing

\* A change keeps the invariant: it is excused, reported or still to be read.
LEMMA ChangesKeep ==
  ASSUME PreferencesTypeOK, PreferencesTypeOK', PreferencesInv, Changing PROVE PreferencesInv'
<1> USE DEF PreferencesInv
<1>1. PICK changed \in SUBSET Files :
           /\ \A f \in Files \ changed : disk'[f] = disk[f] /\ (f \in watched => f \in watched')
           /\ during' = IF pc \in {"idle", "select"} THEN during ELSE during \cup changed
           /\ UNCHANGED <<pc, debounce, selected, read, unseen, found, shown>>
           /\ event => event'
           /\ Above \in watched => Above \in watched'
           /\ \/ directory' = directory /\ (Directory \in watched => Directory \in watched')
              \/ changed = Files /\ (~directory' \/ MakeDirectory)
  BY ChangesAreLocal
<1>2. Stages'
  BY <1>1 DEF Stages
<1>3. CASE pc = "select" \/ (pc = "idle" /\ ~Quiet')
  BY <1>1, <1>2, <1>3 DEF Selecting, Reading, Showing, AllMinded, Quiet
<1>4. CASE pc \notin {"idle", "select"}
  <2>1. during' = during \cup changed
    BY <1>1, <1>4
  <2>2. Past \subseteq Past'
    BY <1>1, <2>1 DEF Past
  <2>3. Selecting' /\ Reading' /\ Showing'
    BY <1>1, <1>4, <2>2 DEF Selecting, Reading, Showing, Quiet
  <2>4. ASSUME pc \in {"find", "watch"}
        PROVE  /\ Above \in Minded'
               /\ directory' => Directory \in Minded' \/ during' = Files
               /\ \A f \in Files \ during' : disk'[f] # NoFile => f \in Minded'
    <3>1. /\ Above \in Minded
          /\ directory => Directory \in Minded \/ during = Files
          /\ \A f \in Files \ during : disk[f] # NoFile => f \in Minded
      BY <2>4 DEF AllMinded
    <3>2. Above \in Minded'
      BY <1>1, <3>1 DEF Minded
    <3>3. directory' => Directory \in Minded' \/ during' = Files
      BY <1>1, <2>1, <3>1 DEF Minded, PreferencesTypeOK
    <3>4. \A f \in Files \ during' : disk'[f] # NoFile => f \in Minded'
      BY <1>1, <2>1, <3>1 DEF Minded
    <3> QED
      BY <3>2, <3>3, <3>4
  <2>5. AllMinded'
    BY <1>1, <1>4, <2>4 DEF AllMinded, Quiet
  <2> QED
    BY <1>2, <2>3, <2>5
<1>5. CASE pc = "idle" /\ Quiet'
  <2>1. Quiet /\ ~event' /\ during' = during
    BY <1>1, <1>5 DEF Quiet
  <2>2. /\ ~MakeDirectory /\ directory' = directory
        /\ \A f \in Files \ during : disk'[f] = disk[f] /\ (f \in watched => f \in watched')
    BY <2>1, ChangesAreReported
  <2>3. Past' = Past
    BY <2>1, <2>2 DEF Past
  <2>4. Selecting' /\ Reading' /\ Showing'
    BY <1>1, <1>5, <2>1, <2>3 DEF Selecting, Reading, Showing
  <2>5. /\ Above \in Minded
        /\ directory => Directory \in Minded \/ during = Files
        /\ \A f \in Files \ during : disk[f] # NoFile => f \in Minded
    BY <2>1 DEF AllMinded
  <2>6. Directory \in Minded' \/ during' = Files \/ ~directory'
    BY <1>1, <2>1, <2>2, <2>5 DEF Minded
  <2>7. AllMinded'
    BY <1>1, <2>1, <2>2, <2>5, <2>6 DEF AllMinded, Minded
  <2> QED
    BY <1>2, <2>4, <2>7
<1> QED
  BY <1>3, <1>4, <1>5

\* The invariant holds from the start, and each step keeps it.
LEMMA PreferencesInvHolds == PreferencesSpec => []PreferencesInv
<1>1. PreferencesInit => PreferencesInv
  BY DEF PreferencesInit, PreferencesInv, Selecting, Reading, Showing, AllMinded, Stages, Quiet
<1>2. PreferencesTypeOK /\ PreferencesTypeOK' /\ PreferencesInv /\ [PreferencesNext]_preferences
        => PreferencesInv'
  <2> SUFFICES ASSUME PreferencesTypeOK, PreferencesTypeOK', PreferencesInv, [PreferencesNext]_preferences
               PROVE  PreferencesInv'
    OBVIOUS
  <2> USE DEF PreferencesInv
  <2>1. CASE Changing
    BY <2>1, ChangesKeep
  <2>2. CASE Deliver \/ Timeout
    BY <2>2 DEF Deliver, Timeout, files, locals, Selecting, Reading, Showing, AllMinded, Stages, Quiet
  <2>3. CASE Select
    <3>1. disk \in Past'
      BY <2>3 DEF Select, Past, PreferencesTypeOK
    <3>2. Selecting'
      BY <2>3, <3>1 DEF Select, Selecting
    <3> QED
      BY <2>3, <3>2 DEF Select, Reading, Showing, AllMinded, Stages, Quiet
  <2>4. CASE ReadBase
    <3>1. PICK old \in Past : selected = Selected(old)
      BY <2>4 DEF ReadBase, Selecting
    <3> DEFINE new == [old EXCEPT ![Base] = disk[Base]]
    <3>2. Base \in Files /\ old \in [Files -> Contents \cup {NoFile}] /\ disk[Base] \in Contents \cup {NoFile}
      BY DEF Past, PreferencesTypeOK, Files
    <3>3. new \in Past /\ new[Base] = disk[Base]
      BY <3>2 DEF Past
    <3>4. \A i \in DOMAIN Profiles : new[Profiles[i]] = old[Profiles[i]]
      BY <3>2, PreferencesAssumption
    <3>5. Selected(new) = Selected(old)
      <4> HIDE DEF new
      <4>1. Present(new) = Present(old)
        BY <3>4 DEF Present
      <4> QED
        BY <4>1, SelectedByPresence
    <3>6. Past' = Past /\ selected' = selected /\ read' = Applied("on", disk[Base]) /\ pc' = "profile"
      BY <2>4 DEF ReadBase, Past, files
    <3> HIDE DEF new
    <3>7. Reading'
      BY <3>1, <3>3, <3>5, <3>6 DEF Reading
    <3> QED
      BY <2>4, <3>7 DEF ReadBase, Selecting, Showing, AllMinded, Stages, Quiet
  <2>5. CASE ReadProfile
    <3>1. PICK old \in Past : selected = Selected(old) /\ read = Applied("on", old[Base])
      BY <2>5 DEF ReadProfile, Reading
    <3>2. \E new \in Past : shown' = Effective(new)
      <4>1. CASE selected = NoFile
        BY <2>5, <3>1, <4>1, NoFileIsSilent DEF ReadProfile, Effective
      <4>2. CASE selected # NoFile
        <5> DEFINE now == IF disk[selected] = NoFile THEN "silent" ELSE disk[selected]
                   new == [old EXCEPT ![selected] = now]
        <5>1. selected \in Files \ {Base} /\ old[selected] # NoFile
          BY <3>1, <4>2, SelectedIsThere
        <5>2. /\ old \in [Files -> Contents \cup {NoFile}] /\ now \in Contents /\ now # NoFile
              /\ selected \in during \/ disk[selected] = old[selected]
          BY <3>1, <5>1, PreferencesAssumption DEF Past, PreferencesTypeOK, Contents
        <5>3. new \in Past /\ new[selected] = now /\ new[Base] = old[Base]
          BY <3>1, <5>1, <5>2 DEF Past
        <5>4. Selected(new) = selected
          <6>1. Present(new) = Present(old)
            BY <5>1, <5>2, PreferencesAssumption DEF Present
          <6> HIDE DEF new
          <6> QED
            BY <3>1, <6>1, SelectedByPresence
        <5>5. Applied(read, disk[selected]) = Applied(read, now)
          BY NoFileIsSilent DEF Applied
        <5> HIDE DEF new, now
        <5> QED
          BY <2>5, <3>1, <4>2, <5>3, <5>4, <5>5 DEF ReadProfile, Effective
      <4> QED
        BY <4>1, <4>2
    <3>3. Past' = Past /\ pc' = "unwatch" /\ UNCHANGED <<unseen, found>>
      BY <2>5 DEF ReadProfile, Past, files, locals
    <3>4. Showing'
      BY <3>2, <3>3 DEF Showing, Effective, Selected, Present
    <3> QED
      BY <2>5, <3>3, <3>4 DEF ReadProfile, Selecting, Reading, AllMinded, Stages, Quiet
  <2>6. CASE Unwatch
    <3>1. Past' = Past /\ pc = "unwatch" /\ pc' = "find" /\ shown' = shown
          /\ unseen' = Files \cup {Directory, Above} /\ found' = found
      BY <2>6 DEF Unwatch, Past, files
    <3> QED
      BY <3>1 DEF Selecting, Reading, Showing, AllMinded, Stages, Quiet, Minded
  <2>7. ASSUME NEW p \in Files \cup {Directory, Above}, FindExisting(p) PROVE PreferencesInv'
    <3>1. /\ Past' = Past /\ pc = "find" /\ pc' \in {"find", "watch"} /\ shown' = shown
          /\ UNCHANGED <<disk, directory, during, watched>>
          /\ unseen' = unseen \ {p} /\ found' = found \cup ({p} \cap Existing(disk, directory))
          /\ pc' # "find" => unseen' = {}
      BY <2>7 DEF FindExisting, Past, files
    <3>2. AllMinded'
      BY <3>1 DEF AllMinded, Minded, Existing
    <3> QED
      BY <3>1, <3>2 DEF Selecting, Reading, Showing, Stages, Quiet
  <2>8. ASSUME NEW p \in Files \cup {Directory, Above}, Watch(p) PROVE PreferencesInv'
    <3>1. /\ Past' = Past /\ pc = "watch" /\ pc' \in {"watch", "idle"} /\ shown' = shown
          /\ UNCHANGED <<disk, directory, during, unseen>>
          /\ found' = found \ {p} /\ watched' = watched \cup ({p} \cap Existing(disk, directory))
          /\ pc' # "watch" => found' = {}
      BY <2>8 DEF Watch, Past, files
    <3>2. AllMinded'
      BY <3>1 DEF AllMinded, Minded, Existing
    <3> QED
      BY <3>1, <3>2 DEF Selecting, Reading, Showing, Stages, Quiet
  <2>9. CASE UNCHANGED preferences
    <3>1. Past' = Past
      BY <2>9 DEF preferences, files, Past
    <3> QED
      BY <2>9, <3>1 DEF preferences, files, locals, Selecting, Reading, Showing, AllMinded, Stages, Quiet, Minded
  <2> QED
    BY <2>1, <2>2, <2>3, <2>4, <2>5, <2>6, <2>7, <2>8, <2>9 DEF PreferencesNext, Reload, Changing
<1> QED
  BY <1>1, <1>2, PreferencesTypesHold, PTL DEF PreferencesSpec

\* REQ-F-002: when nothing is left to do, what is shown is what the files say, except those
\* that changed while the last reload ran, whenever others write, replace or remove them.
THEOREM NothingIsMissed == PreferencesSpec => []NothingMissed
<1>1. PreferencesInv => NothingMissed
  BY DEF PreferencesInv, Showing, Quiet, NothingMissed
<1> QED
  BY <1>1, PreferencesInvHolds, PTL
==============================================================================
