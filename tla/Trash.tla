------------------------------- MODULE Trash -------------------------------
(***************************************************************************)
(* Moving entries to the freedesktop trash: trashEntry of                  *)
(* apps/files/operations/trash_service.cpp, run by several tasks or        *)
(* instances of the program at once on the same trash directories.  A      *)
(* trashed file `name' in files/ has an information file of its name in    *)
(* info/, written first, that says where it was.  Every system call is a   *)
(* step; a process may be cancelled or die between any two of them.      *)
(***************************************************************************)
EXTENDS Integers, FiniteSets, Functions

CONSTANTS
  Processes,       \* calls of trashEntry that may run at the same time
  Paths,           \* of entries that may be trashed
  Items,           \* what may be at a path: files with their contents
  PathOf,          \* the path an item is created at
  BaseName,        \* the file name of a path
  HomePaths,       \* the paths on the device of the home trash
  HomeTrash,       \* $XDG_DATA_HOME/Trash
  TopTrashes,      \* .Trash/$uid, if it qualifies, and .Trash-$uid of the others' topdir
  MaxAttempts,     \* bound on the numbers tried for a free name
  None

Trashes == {HomeTrash} \cup TopTrashes
Names == Range(BaseName) \X (1 .. MaxAttempts)     \* <<"a", 1>> is a, <<"a", 2>> is a_2...

ASSUME TrashAssumption ==
  /\ PathOf \in [Items -> Paths] /\ BaseName \in [Paths -> Range(BaseName)]
  /\ HomePaths \subseteq Paths /\ HomeTrash \notin TopTrashes
  /\ None \notin Items /\ None \notin Paths /\ None \notin Trashes
  /\ MaxAttempts \in Nat

VARIABLES
  source,        \* what is at each path
  files, infos,  \* of each trash: the trashed item, and the path it is said to be from, by name
  phase, path, trash, name, flagged, \* of each process: its next step, its locals, its flag
  excused        \* history: information files a dead process left, or that could not be removed

trashVars == <<source, files, infos, phase, path, trash, name, flagged, excused>>
diskVars == <<source, files, infos, excused>>

Torn == None     \* what an information file says before it is written

TrashInit ==
  /\ source \in [Paths -> {None} \cup Items]
  /\ \A p \in Paths : source[p] # None => PathOf[source[p]] = p
  /\ files = [t \in Trashes |-> <<>>] /\ infos = [t \in Trashes |-> <<>>]
  /\ phase = [p \in Processes |-> "idle"] /\ path = [p \in Processes |-> None]
  /\ trash = [p \in Processes |-> None] /\ name = [p \in Processes |-> None]
  /\ flagged = {} /\ excused = {}

Goto(p, step) == phase' = [phase EXCEPT ![p] = step]
With(f, t, n, value) ==
  [f EXCEPT ![t] = [m \in DOMAIN f[t] \cup {n} |-> IF m = n THEN value ELSE f[t][m]]]
Lacking(f, t, n) == [f EXCEPT ![t] = Restrict(f[t], DOMAIN f[t] \ {n})]

-----------------------------------------------------------------------------
(* One call of trashEntry.                                                 *)

Call(p) ==
  /\ phase[p] = "idle"
  /\ \E e \in Paths : path' = [path EXCEPT ![p] = e]
  /\ IF p \in flagged THEN Goto(p, "cancelled") ELSE Goto(p, "select")
  /\ UNCHANGED <<diskVars, trash, name, flagged>>

\* selectTrashDir.  The home trash has no fallback; either of the others may be
\* unusable: not a directory of this user with mode 0700, not to be created...
SelectTrashDir(p) ==
  /\ phase[p] = "select"
  /\ \/ /\ \E t \in IF path[p] \in HomePaths THEN {HomeTrash} ELSE TopTrashes :
             trash' = [trash EXCEPT ![p] = t]
        /\ source[path[p]] # None
        /\ Goto(p, "choose")
     \/ Goto(p, "failed") /\ UNCHANGED trash
  /\ UNCHANGED <<diskVars, path, name, flagged>>

\* uniqueTrashName: the first number free in both directories.
Free(t, n) == n \notin DOMAIN files[t] /\ n \notin DOMAIN infos[t]

UniqueTrashName(p) ==
  /\ phase[p] = "choose"
  /\ \E k \in 1 .. MaxAttempts :
       /\ Free(trash[p], <<BaseName[path[p]], k>>)
       /\ \A j \in 1 .. k - 1 : ~Free(trash[p], <<BaseName[path[p]], j>>)
       /\ name' = [name EXCEPT ![p] = <<BaseName[path[p]], k>>]
  /\ Goto(p, "open")
  /\ UNCHANGED <<diskVars, path, trash, flagged>>

\* writeTrashInfo: the information file is created only if there is none (mutant:
\* whatever is there).
CreateAnyway(t, n) == TRUE
NewOnly(t, n) == n \notin DOMAIN infos[t]

OpenTrashInfo(p) ==
  /\ phase[p] = "open"
  /\ \/ /\ NewOnly(trash[p], name[p])
        /\ infos' = With(infos, trash[p], name[p], Torn)
        /\ Goto(p, "write")
     \/ Goto(p, "failed") /\ UNCHANGED infos
  /\ UNCHANGED <<source, files, excused, path, trash, name, flagged>>

\* Path= says where the item was; then write, flush and fsync, or what is written
\* is unlinked again.
WriteTrashInfo(p) ==
  /\ phase[p] = "write"
  /\ \/ infos' = With(infos, trash[p], name[p], path[p]) /\ Goto(p, "check")
     \/ Goto(p, "remove") /\ UNCHANGED infos
  /\ UNCHANGED <<source, files, excused, path, trash, name, flagged>>

CheckCancel(p) ==
  /\ phase[p] = "check"
  /\ IF p \in flagged THEN Goto(p, "undo") ELSE Goto(p, "rename")
  /\ UNCHANGED <<diskVars, path, trash, name, flagged>>

\* renameat2 with RENAME_NOREPLACE, which may fail for many reasons.  A cancel that
\* comes now is too late (mutant: it is looked at once more).
LookAgain(p) == IF p \in flagged THEN "undo" ELSE "complete"
AfterRename(p) == "complete"

NoReplace(t, n) == n \notin DOMAIN files[t]

RenameIntoTrash(p) ==
  /\ phase[p] = "rename"
  /\ \/ /\ source[path[p]] # None /\ NoReplace(trash[p], name[p])
        /\ files' = With(files, trash[p], name[p], source[path[p]])
        /\ source' = [source EXCEPT ![path[p]] = None]
        /\ Goto(p, AfterRename(p))
     \/ Goto(p, "remove") /\ UNCHANGED <<files, source>>
  /\ UNCHANGED <<infos, excused, path, trash, name, flagged>>

\* removeTrashInfo, whose failure nobody notices
RemoveTrashInfo(p) ==
  /\ phase[p] \in {"remove", "undo"}
  /\ \/ infos' = Lacking(infos, trash[p], name[p]) /\ UNCHANGED excused
     \/ excused' = excused \cup {<<trash[p], name[p]>>} /\ UNCHANGED infos
  /\ Goto(p, IF phase[p] = "undo" THEN "cancelled" ELSE "failed")
  /\ UNCHANGED <<source, files, path, trash, name, flagged>>

Forget(p) ==
  /\ path' = [path EXCEPT ![p] = None] /\ trash' = [trash EXCEPT ![p] = None]
  /\ name' = [name EXCEPT ![p] = None] /\ flagged' = flagged \ {p}

\* The answer is taken, and the process trashes something else.
Return(p) ==
  /\ phase[p] \in {"complete", "failed", "cancelled"}
  /\ Goto(p, "idle")
  /\ Forget(p)
  /\ UNCHANGED diskVars

-----------------------------------------------------------------------------
(* Around it.                                                              *)

\* TaskManager::cancel sets the flag at any time (after the rename, to no
\* effect).
CancelTrashing(p) ==
  /\ p \notin flagged
  /\ phase[p] \in {"idle", "select", "choose", "open", "write", "check", "rename"}
  /\ flagged' = flagged \cup {p}
  /\ UNCHANGED <<diskVars, phase, path, trash, name>>

Writing == {"write", "check", "rename", "remove", "undo"}

Die(p) ==
  /\ phase[p] \notin {"idle", "dead"}
  /\ Goto(p, "dead")
  /\ excused' = IF phase[p] \in Writing THEN excused \cup {<<trash[p], name[p]>>} ELSE excused
  /\ Forget(p)
  /\ UNCHANGED <<source, files, infos>>

\* Another program creates an item that is nowhere yet.
InTrash(i) == \E t \in Trashes : i \in Range(files[t])
Appear(i) ==
  /\ source[PathOf[i]] = None /\ ~InTrash(i)
  /\ source' = [source EXCEPT ![PathOf[i]] = i]
  /\ UNCHANGED <<files, infos, excused, phase, path, trash, name, flagged>>

Step(p) ==
  \/ SelectTrashDir(p) \/ UniqueTrashName(p) \/ OpenTrashInfo(p) \/ WriteTrashInfo(p)
  \/ CheckCancel(p) \/ RenameIntoTrash(p) \/ RemoveTrashInfo(p)

TrashNext ==
  \/ \E p \in Processes : Call(p) \/ Step(p) \/ Return(p) \/ CancelTrashing(p) \/ Die(p)
  \/ \E i \in Items : Appear(i)

TrashSpec == TrashInit /\ [][TrashNext]_trashVars

-----------------------------------------------------------------------------
(* Properties.                                                             *)

Steps == {"idle", "select", "choose", "open", "dead", "complete", "failed", "cancelled"} \cup Writing

Stored(dirs, values) ==
  /\ dirs \in [Trashes -> Range(dirs)]
  /\ \A t \in Trashes : dirs[t] \in [DOMAIN dirs[t] -> values] /\ DOMAIN dirs[t] \subseteq Names

TrashTypeOK ==
  /\ source \in [Paths -> {None} \cup Items]
  /\ Stored(files, Items) /\ Stored(infos, {Torn} \cup Paths)
  /\ phase \in [Processes -> Steps] /\ path \in [Processes -> {None} \cup Paths]
  /\ trash \in [Processes -> {None} \cup Trashes] /\ name \in [Processes -> {None} \cup Names]
  /\ flagged \subseteq Processes /\ excused \subseteq Trashes \X Names

\* REQ-F-040: everything in the trash can be put back: its information file is
\* there, complete, and says where it was.
Restorable ==
  \A t \in Trashes : \A n \in DOMAIN files[t] :
    n \in DOMAIN infos[t] /\ infos[t][n] = PathOf[files[t][n]]

\* An information file without a file is in use by one process that is about to
\* write, rename or remove; or a process died, or could not remove it.
NoOrphanInfo ==
  \A t \in Trashes : \A n \in DOMAIN infos[t] \ DOMAIN files[t] :
    \/ <<t, n>> \in excused
    \/ \E p \in Processes : phase[p] \in Writing /\ trash[p] = t /\ name[p] = n

\* No two processes hold the same information file.
NameIsOwn ==
  \A p, q \in Processes :
    p # q /\ {phase[p], phase[q]} \subseteq Writing => <<trash[p], name[p]>> # <<trash[q], name[q]>>

\* The trash is consistent, whatever processes do at once, fail at, are cancelled
\* or killed in: every file has its information file, every information file has
\* a file or a process that sees to it, and no process uses that of another.
InfosMatch == Restorable /\ NoOrphanInfo /\ NameIsOwn

\* "Failure never authorizes permanent deletion": what was somewhere stays at its
\* path or goes to the trash, and what is in the trash stays there under its name,
\* with its information file, whatever the others do.
NothingLost ==
  [][/\ \A e \in Paths : source[e] # None =>
          source'[e] = source[e] \/ \E t \in Trashes : source[e] \in Range(files'[t])
     /\ \A t \in Trashes : \A n \in DOMAIN files[t] :
          /\ n \in DOMAIN files'[t] /\ files'[t][n] = files[t][n]
          /\ n \in DOMAIN infos'[t] /\ infos'[t][n] = infos[t][n]]_trashVars

\* A process that answers that it failed or was cancelled has left the source
\* alone, and one that answers that it is complete has not: only the step that
\* answers `complete' takes anything from a path.
OnlyCompleteTakes ==
  [][\A e \in Paths : source[e] # None /\ source'[e] # source[e] =>
       \E p \in Processes : /\ path[p] = e /\ phase'[p] = "complete" /\ phase[p] # "complete"]_trashVars
=============================================================================
