----------------------------- MODULE Preferences -----------------------------
(***************************************************************************)
(* The close button's preference: FilesPreferences of apps/files rereads   *)
(* config.toml and the profile of the desktop whenever the watcher reports *)
(* a change, and then watches anew.  Others write, replace and remove the  *)
(* files and their directory at any time, while they are read and watched   *)
(* too.                                                                    *)
(***************************************************************************)
EXTENDS Integers, Sequences

CONSTANTS
  Base,               \* config.toml
  Profiles,           \* candidates_, the first that exists is read
  NoFile,               \* no file
  Directory, Above,   \* the directory of the files, and one above it that is always there
  MaxChanges          \* changes to the files

Files == {Base} \cup {Profiles[i] : i \in DOMAIN Profiles}
\* What a file says of the button: silent also if it is malformed or has no bool.
Contents == {"on", "off", "silent"}

ASSUME PreferencesAssumption ==
  /\ Profiles \in Seq(Files \ {Base})
  /\ Directory # Above /\ {Directory, Above} \cap Files = {} /\ NoFile \notin Files \cup Contents
  /\ MaxChanges \in Nat

VARIABLES
  disk, directory,          \* the files, and whether their directory is there
  changes,                  \* how often they have changed
  watched, event,           \* the watcher: its paths, and whether it has something to report
  debounce,                 \* whether the timer runs
  pc, selected, read, unseen, found, shown,   \* reload: its next step, its locals; showCloseButton
  during                    \* history: files that changed while the last reload ran

files == <<disk, directory, changes, during>>
locals == <<selected, read, unseen, found>>
preferences == <<files, watched, event, debounce, pc, locals, shown>>

-----------------------------------------------------------------------------
(* The layers.                                                             *)

\* The first candidate that exists.
Present(now) == {i \in DOMAIN Profiles : now[Profiles[i]] # NoFile}
Selected(now) ==
  IF Present(now) = {} THEN NoFile
  ELSE Profiles[CHOOSE i \in Present(now) : \A j \in Present(now) : i <= j]

\* AppSettings::load: from the default, each file that says something overrides.
Applied(value, content) == IF content \in {"on", "off"} THEN content ELSE value
Effective(now) ==
  Applied(Applied("on", now[Base]), IF Selected(now) = NoFile THEN NoFile ELSE now[Selected(now)])

\* All files and directories that exist, the ancestors included (mutant: only the files).
FilesAlone(now, there) == {f \in Files : now[f] # NoFile}
Existing(now, there) ==
  {f \in Files : now[f] # NoFile} \cup {Above} \cup (IF there THEN {Directory} ELSE {})

\* initialize ends with a reload.
PreferencesInit ==
  /\ disk \in [Files -> {NoFile, "off"}] /\ directory \in BOOLEAN
  /\ ~directory => \A f \in Files : disk[f] = NoFile
  /\ changes = 0
  /\ watched = {} /\ event = FALSE /\ debounce = FALSE
  /\ pc = "select" /\ selected = NoFile /\ read = "on" /\ unseen = {} /\ found = {}
  /\ shown = "on" /\ during = {}

-----------------------------------------------------------------------------
(* The files.                                                              *)

Change(changed) ==
  /\ changes < MaxChanges /\ changes' = changes + 1
  /\ during' = IF pc \in {"idle", "select"} THEN during ELSE during \cup changed
  /\ UNCHANGED <<debounce, pc, locals, shown>>

\* A change to one of the paths is reported if it is watched.
Report(paths) == event' = (event \/ paths \cap watched # {})

Write(f, content) ==
  /\ disk[f] # NoFile /\ disk[f] # content
  /\ Change({f})
  /\ disk' = [disk EXCEPT ![f] = content]
  /\ Report({f})
  /\ UNCHANGED <<directory, watched>>

\* A new file, or one renamed over the old one, which is no longer watched.
Replace(f, content) ==
  /\ directory
  /\ Change({f})
  /\ disk' = [disk EXCEPT ![f] = content]
  /\ Report({f, Directory})
  /\ watched' = watched \ {f}
  /\ UNCHANGED directory

RemoveFile(f) ==
  /\ disk[f] # NoFile
  /\ Change({f})
  /\ disk' = [disk EXCEPT ![f] = NoFile]
  /\ Report({f, Directory})
  /\ watched' = watched \ {f}
  /\ UNCHANGED directory

MakeDirectory ==
  /\ ~directory
  /\ Change(Files)
  /\ directory' = TRUE
  /\ Report({Above})
  /\ UNCHANGED <<disk, watched>>

RemoveDirectory ==
  /\ directory
  /\ Change(Files)
  /\ directory' = FALSE /\ disk' = [f \in Files |-> NoFile]
  /\ Report(Files \cup {Directory, Above})
  /\ watched' = watched \ (Files \cup {Directory})

-----------------------------------------------------------------------------
(* The program.                                                            *)

\* Every report starts the timer anew.
Deliver ==
  /\ pc = "idle" /\ event
  /\ event' = FALSE /\ debounce' = TRUE
  /\ UNCHANGED <<files, watched, pc, locals, shown>>

Timeout ==
  /\ pc = "idle" /\ debounce
  /\ debounce' = FALSE /\ pc' = "select"
  /\ UNCHANGED <<files, watched, event, locals, shown>>

Select ==
  /\ pc = "select"
  /\ selected' = Selected(disk) /\ pc' = "base" /\ during' = {}
  /\ UNCHANGED <<disk, directory, changes, watched, event, debounce, read, unseen, found, shown>>

ReadBase ==
  /\ pc = "base"
  /\ read' = Applied("on", disk[Base]) /\ pc' = "profile"
  /\ UNCHANGED <<files, watched, event, debounce, selected, unseen, found, shown>>

ReadProfile ==
  /\ pc = "profile"
  /\ shown' = IF selected = NoFile THEN read ELSE Applied(read, disk[selected])
  /\ pc' = "unwatch"
  /\ UNCHANGED <<files, watched, event, debounce, locals>>

\* refreshWatches; what has not been reported of a path that is removed never is.
Unwatch ==
  /\ pc = "unwatch"
  /\ watched' = {} /\ event' = FALSE /\ pc' = "find"
  /\ unseen' = Files \cup {Directory, Above}
  /\ UNCHANGED <<files, debounce, selected, read, found, shown>>

\* Which paths exist, one after the other...
FindExisting(p) ==
  /\ pc = "find" /\ p \in unseen
  /\ unseen' = unseen \ {p}
  /\ found' = found \cup ({p} \cap Existing(disk, directory))
  /\ pc' = IF unseen' = {} THEN "watch" ELSE "find"
  /\ UNCHANGED <<files, watched, event, debounce, selected, read, shown>>

\* ... and the watcher is told of them, which fails if a path is gone.
Watch(p) ==
  /\ pc = "watch" /\ p \in found
  /\ found' = found \ {p}
  /\ watched' = watched \cup ({p} \cap Existing(disk, directory))
  /\ pc' = IF found' = {} THEN "idle" ELSE "watch"
  /\ selected' = NoFile /\ read' = "on"
  /\ UNCHANGED <<files, event, debounce, unseen, shown>>

Reload ==
  \/ Select \/ ReadBase \/ ReadProfile \/ Unwatch
  \/ \E p \in Files \cup {Directory, Above} : FindExisting(p) \/ Watch(p)

PreferencesNext ==
  \/ \E f \in Files, content \in Contents : Write(f, content) \/ Replace(f, content)
  \/ \E f \in Files : RemoveFile(f)
  \/ MakeDirectory \/ RemoveDirectory
  \/ Deliver \/ Timeout \/ Reload

PreferencesSpec == PreferencesInit /\ [][PreferencesNext]_preferences

-----------------------------------------------------------------------------
(* Properties.                                                             *)

PreferencesTypeOK ==
  /\ disk \in [Files -> Contents \cup {NoFile}] /\ directory \in BOOLEAN /\ changes \in 0 .. MaxChanges
  /\ ~directory => \A f \in Files : disk[f] = NoFile
  /\ watched \subseteq {f \in Files : disk[f] # NoFile} \cup {Directory, Above}
  /\ Directory \in watched => directory
  /\ event \in BOOLEAN /\ debounce \in BOOLEAN
  /\ pc \in {"idle", "select", "base", "profile", "unwatch", "find", "watch"}
  /\ selected \in Files \cup {NoFile} /\ unseen \cup found \subseteq Files \cup {Directory, Above}
  /\ {read, shown} \subseteq {"on", "off"} /\ during \subseteq Files

\* What the files may have said to the last reload: what they say now, but for those
\* that changed while it ran.
Past == {old \in [Files -> Contents \cup {NoFile}] : \A f \in Files \ during : old[f] = disk[f]}

\* Whenever there is nothing left to do, what is shown is what the files say, except those
\* that changed while the last reload ran: no other creation, replacement or removal, of
\* files or their directory, goes unseen (docs/sdd, header-close-preference, REQ-F-002).
NothingMissed == pc = "idle" /\ ~event /\ ~debounce => \E old \in Past : shown = Effective(old)
=============================================================================
