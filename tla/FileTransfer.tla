---------------------------- MODULE FileTransfer ----------------------------
(***************************************************************************)
(* Copying or moving one entry, a file or a directory with all it holds:   *)
(* copyEntry and moveEntry of                                              *)
(* apps/files/operations/file_operation_service.cpp, run on the task       *)
(* manager's worker thread while the user may cancel and others write to   *)
(* the source and to the destination.                                      *)
(*                                                                         *)
(* A tree is a function from Nodes to what is there: nothing, a directory, *)
(* or a file (or symbolic link) of some content.  A node names the same    *)
(* place below the source and below the destination.  One step is one      *)
(* system call that others can observe, or several between which nobody    *)
(* can tell them apart.                                                    *)
(***************************************************************************)
EXTENDS Integers, Sequences

CONSTANTS
  Nodes, Root,         \* the entry transferred is the root
  Parent(_),           \* of every other node
  Own, New, Foreign,   \* contents: of the source, written to it meanwhile, at the destination
  MaxSourceChanges,    \* bounds on what others do meanwhile
  MaxDestChanges

\* Nodes are a tree: what holds the root and with every node what is below it
\* holds them all.
ASSUME TreeAssumption ==
  /\ Root \in Nodes
  /\ \A n \in Nodes \ {Root} : Parent(n) \in Nodes \ {n}
  /\ \A S \in SUBSET Nodes :
       Root \in S /\ (\A n \in Nodes \ {Root} : Parent(n) \in S => n \in S) => S = Nodes
ASSUME ContentAssumption ==
  /\ Own # New /\ Own # Foreign /\ New # Foreign
  /\ {"absent", "dir"} \cap {Own, New, Foreign} = {}
  /\ MaxSourceChanges \in Nat /\ MaxDestChanges \in Nat

Contents == {Own, New, Foreign}
Children(n) == {m \in Nodes \ {Root} : Parent(m) = n}

\* What there is below something is below a directory.
WellFormed(t) ==
  \A n \in Nodes \ {Root} : t[n] # "absent" => t[Parent(n)] = "dir"
Trees(content) == {t \in [Nodes -> {"absent", "dir", content}] : WellFormed(t)}

VARIABLES
  move, overwrite, sameDevice,  \* the call, and whether rename(2) can serve it
  src, dst, temps, stuck,       \* the two trees, and temporary siblings at the destination: in
                                \* use, and those that unlink failed to remove
  cancel,                       \* the cancellation flag
  pc, node, stack, buffer,      \* the worker: entry at hand, open directories, data read
  failed, cancelled, skipped, nested, retained, removalFailed,  \* ItemResult
  doomed,                       \* nodes removeCompletedSource has still to visit
  changes,                      \* how often others wrote to the source and the destination
  given, lost                   \* history: the source as others left it; files removed
                                \* from it of whose content there was no copy

callVars == <<move, overwrite, sameDevice>>
treeVars == <<src, dst, temps, stuck>>
resultVars == <<failed, cancelled, skipped, nested, retained, removalFailed>>
vars == <<callVars, treeVars, cancel, pc, node, stack, buffer, resultVars, doomed, changes, given, lost>>

\* validateEndpoints has refused what lies within itself: the trees are disjoint.
Init ==
  /\ move \in BOOLEAN /\ overwrite \in BOOLEAN /\ sameDevice \in BOOLEAN
  /\ src \in {t \in Trees(Own) : t[Root] # "absent"}
  /\ dst \in Trees(Foreign)
  /\ temps = {} /\ stuck = {} /\ cancel = FALSE
  /\ pc = "start" /\ node = Root /\ stack = <<>> /\ buffer = "absent"
  /\ failed = FALSE /\ cancelled = FALSE /\ skipped = {} /\ nested = {}
  /\ retained = FALSE /\ removalFailed = FALSE
  /\ doomed = {} /\ changes = [source |-> 0, destination |-> 0]
  /\ given = src /\ lost = {}

-----------------------------------------------------------------------------
(* Results.                                                                *)

\* ItemResult::complete (mutant: skipped children do not count against it)
CompleteDespiteSkips == ~failed /\ ~cancelled /\ nested = {}
Complete == ~failed /\ ~cancelled /\ nested = {} /\ skipped = {}

\* What failed is the entry itself or one of its descendants.
Fail(n) ==
  /\ failed' = (failed \/ n = Root)
  /\ nested' = IF n = Root THEN nested ELSE nested \cup {n}

NothingFailed == UNCHANGED <<failed, nested>>

\* Where the copy goes on behind an entry: in the directory it was found in, or
\* nowhere.
After(st) == IF st = <<>> THEN "copied" ELSE "loop"

Exists(t, n) == t[n] # "absent"
ReplacedAt(n) == overwrite /\ n = Root      \* the overwrite argument of copyEntryImpl

Worker == UNCHANGED <<callVars, cancel, changes, given>>

-----------------------------------------------------------------------------
(* moveEntry and copyEntry, up to the copy.                                *)

\* The flag, then validateEndpoints.
Refused ==
  \/ ~Exists(src, Root)
  \/ Exists(dst, Root) /\ ~overwrite
  \/ Exists(dst, Root) /\ ((src[Root] = "dir") # (dst[Root] = "dir"))

Start ==
  /\ pc = "start"
  /\ IF cancel
     THEN pc' = "done" /\ cancelled' = TRUE /\ UNCHANGED failed
     ELSE IF Refused
     THEN pc' = "done" /\ failed' = TRUE /\ UNCHANGED cancelled
     ELSE /\ pc' = IF ~move THEN "enter"
                   ELSE IF src[Root] = "dir" /\ dst[Root] = "dir" THEN "restart"
                   ELSE "rename"
          /\ UNCHANGED <<failed, cancelled>>
  /\ UNCHANGED <<treeVars, node, stack, buffer, skipped, nested, retained,
                 removalFailed, doomed, lost>>
  /\ Worker

\* What renameat2 accepts, with RENAME_NOREPLACE unless overwriting: nothing is
\* at the destination, or a file to be replaced by a file, or an empty directory
\* by a directory.
RenameAllowed ==
  /\ Exists(src, Root)
  /\ \A n \in Nodes \ {Root} : ~Exists(dst, n)
  /\ Exists(dst, Root) => overwrite /\ ((src[Root] = "dir") = (dst[Root] = "dir"))

\* A move within a file system is one rename.
Rename ==
  /\ pc = "rename"
  /\ pc' = "done"
  /\ IF cancel
     THEN cancelled' = TRUE /\ UNCHANGED <<failed, src, dst>>
     ELSE \/ /\ sameDevice /\ RenameAllowed
             /\ src' = [n \in Nodes |-> "absent"] /\ dst' = src
             /\ UNCHANGED <<failed, cancelled>>
          \/ failed' = TRUE /\ UNCHANGED <<cancelled, src, dst>>
  /\ UNCHANGED <<temps, stuck, node, stack, buffer, skipped, nested, retained,
                 removalFailed, doomed, lost>>
  /\ Worker

\* EXDEV: the entry is copied, which copyEntry begins as any copy.
CrossDevice ==
  /\ pc = "rename" /\ ~cancel /\ ~sameDevice
  /\ pc' = "restart"
  /\ UNCHANGED <<treeVars, node, stack, buffer, resultVars, doomed, lost>>
  /\ Worker

Restart ==
  /\ pc = "restart"
  /\ IF cancel
     THEN pc' = "copied" /\ cancelled' = TRUE /\ UNCHANGED failed
     ELSE IF Refused
     THEN pc' = "copied" /\ failed' = TRUE /\ UNCHANGED cancelled
     ELSE pc' = "enter" /\ UNCHANGED <<failed, cancelled>>
  /\ UNCHANGED <<treeVars, node, stack, buffer, skipped, nested, retained,
                 removalFailed, doomed, lost>>
  /\ Worker

-----------------------------------------------------------------------------
(* copyEntryImpl.                                                          *)

\* A cancelled child ends every directory it is in.
CancelEverything ==
  /\ cancelled' = TRUE /\ pc' = "copied" /\ stack' = <<>>

EnterCancelled ==
  /\ pc = "enter" /\ cancel
  /\ CancelEverything
  /\ UNCHANGED <<treeVars, node, buffer, failed, skipped, nested, retained,
                 removalFailed, doomed, lost>>
  /\ Worker

\* The entry is gone, of another type, or cannot be opened; or there is no room.
EnterFails ==
  /\ pc = "enter" /\ ~cancel
  /\ Fail(node) /\ pc' = After(stack)
  /\ UNCHANGED <<treeVars, node, stack, buffer, cancelled, skipped, retained,
                 removalFailed, doomed, lost>>
  /\ Worker

\* prepareDestinationDirectory: a directory made or, at the top, merged into.
Prepared(n) ==
  \/ ~Exists(dst, n) /\ (n = Root \/ dst[Parent(n)] = "dir")
  \/ ReplacedAt(n) /\ dst[n] = "dir"

EnterDirectory ==
  /\ pc = "enter" /\ ~cancel /\ src[node] = "dir" /\ Prepared(node)
  /\ dst' = [dst EXCEPT ![node] = "dir"]
  /\ \/ /\ stack' = <<[node |-> node, todo |-> Children(node)]>> \o stack
        /\ pc' = "loop" /\ NothingFailed
     \/ Fail(node) /\ pc' = After(stack) /\ UNCHANGED stack   \* opendir failed
  /\ UNCHANGED <<src, temps, stuck, node, buffer, cancelled, skipped, retained, removalFailed,
                 doomed, lost>>
  /\ Worker

\* What is already there is left alone, and reported (mutant: is not reported).
SkipQuietly(n) == UNCHANGED skipped
Skip(n) == skipped' = skipped \cup {n}

\* copyDirectoryTree's loop over what readdir returns.
NextChild(n) ==
  /\ pc = "loop" /\ n \in stack[1].todo
  /\ Exists(src, n) => ~cancel
  /\ stack' = [stack EXCEPT ![1].todo = @ \ {n}]
  /\ \/ /\ Exists(src, n) /\ ~Exists(dst, n)
        /\ node' = n /\ pc' = "enter" /\ UNCHANGED skipped
     \/ Exists(src, n) /\ Exists(dst, n) /\ Skip(n) /\ UNCHANGED <<node, pc>>
     \/ ~Exists(src, n) /\ UNCHANGED <<node, pc, skipped>>
  /\ UNCHANGED <<treeVars, buffer, failed, cancelled, nested, retained, removalFailed,
                 doomed, lost>>
  /\ Worker

\* The flag is looked at for everything readdir returns, the directory itself
\* and its parent included.
LoopCancelled ==
  /\ pc = "loop" /\ cancel
  /\ CancelEverything
  /\ UNCHANGED <<treeVars, node, buffer, failed, skipped, nested, retained, removalFailed,
                 doomed, lost>>
  /\ Worker

\* The directory is read to its end or as far as it goes; a new one gets the
\* times and the mode of the source.  Either may fail.
LeaveDirectory ==
  /\ pc = "loop"
  /\ \/ stack[1].todo = {} /\ NothingFailed
     \/ nested' = nested \cup {stack[1].node} /\ UNCHANGED failed
  /\ stack' = Tail(stack) /\ pc' = After(Tail(stack))
  /\ UNCHANGED <<treeVars, node, buffer, cancelled, skipped, retained, removalFailed,
                 doomed, lost>>
  /\ Worker

\* copyRegularFile, copySymlink: the file is opened and found to be the one
\* looked at, and a temporary sibling is made...
OpenFile ==
  /\ pc = "enter" /\ ~cancel /\ src[node] \in Contents
  /\ node = Root \/ dst[Parent(node)] = "dir"
  /\ temps' = temps \cup {node}
  /\ buffer' = src[node]
  /\ pc' = "stream"
  /\ UNCHANGED <<src, dst, stuck, node, stack, resultVars, doomed, lost>>
  /\ Worker

\* ... it is streamed: what somebody writes to the file meanwhile is read or not
\* (a link is read before its temporary is made), or the temporary is removed again
\* (unlink's result is ignored; mutant: the temporary is left)...
LeaveTemp(n) == UNCHANGED <<temps, stuck>>
UnlinkTemp(n) == temps' = temps \ {n} /\ stuck' \in {stuck, stuck \cup {n}}

StreamFile ==
  /\ pc = "stream"
  /\ \/ /\ buffer' \in {buffer} \cup ({src[node]} \cap Contents)
        /\ pc' = "commit" /\ UNCHANGED <<temps, stuck, cancelled, stack>> /\ NothingFailed
     \/ /\ UnlinkTemp(node) /\ buffer' = "absent"
        /\ \/ cancel /\ CancelEverything /\ NothingFailed
           \/ Fail(node) /\ pc' = After(stack) /\ UNCHANGED <<cancelled, stack>>
  /\ UNCHANGED <<src, dst, node, skipped, retained, removalFailed, doomed, lost>>
  /\ Worker

\* ... and the temporary is renamed to its destination, which it replaces at the
\* top only (mutant: it replaces whatever has come up there).
ReplaceAny(n) == dst[n] # "dir"
MayPlace(n) == ~Exists(dst, n) \/ (ReplacedAt(n) /\ dst[n] # "dir")

CommitTemporary ==
  /\ pc = "commit"
  /\ buffer' = "absent"
  /\ \/ /\ cancel /\ CancelEverything
        /\ UnlinkTemp(node)
        /\ UNCHANGED dst /\ NothingFailed
     \/ /\ ~cancel /\ MayPlace(node)
        /\ dst' = [dst EXCEPT ![node] = buffer]
        /\ temps' = temps \ {node} /\ UNCHANGED stuck
        /\ pc' = After(stack)
        /\ UNCHANGED <<cancelled, stack>> /\ NothingFailed
     \/ /\ ~cancel
        /\ UnlinkTemp(node)
        /\ Fail(node) /\ pc' = After(stack)
        /\ UNCHANGED <<dst, cancelled, stack>>
  /\ UNCHANGED <<src, node, skipped, retained, removalFailed, doomed, lost>>
  /\ Worker

-----------------------------------------------------------------------------
(* moveEntry, behind the copy.                                             *)

\* A copy is done; a move keeps its source unless everything went well and the
\* user has not cancelled.
EndCopy ==
  /\ pc = "copied"
  /\ cancelled' = (cancelled \/ (move /\ cancel))
  /\ IF move /\ Complete /\ ~cancelled'
     THEN pc' = "remove" /\ doomed' = Nodes /\ UNCHANGED retained
     ELSE pc' = "done" /\ retained' = move /\ UNCHANGED doomed
  /\ UNCHANGED <<treeVars, node, stack, buffer, failed, skipped, nested, removalFailed, lost>>
  /\ Worker

\* What unlink and rmdir remove.
Removes(n) ==
  \/ src[n] \in Contents
  \/ src[n] = "dir" /\ \A m \in Children(n) : ~Exists(src, m)

\* removeCompletedSource: every entry it finds below the source, the innermost
\* first; it goes on past what cannot be removed.
RemoveEntry(n) ==
  /\ pc = "remove" /\ n \in doomed /\ Children(n) \cap doomed = {}
  /\ doomed' = doomed \ {n}
  /\ \/ /\ Removes(n)
        /\ src' = [src EXCEPT ![n] = "absent"]
        /\ lost' = IF src[n] \in Contents /\ dst[n] # src[n] THEN lost \cup {n} ELSE lost
        /\ UNCHANGED removalFailed
     \/ ~Exists(src, n) /\ n # Root /\ UNCHANGED <<src, lost, removalFailed>>
     \/ removalFailed' = TRUE /\ UNCHANGED <<src, lost>>
  /\ UNCHANGED <<dst, temps, stuck, pc, node, stack, buffer, failed, cancelled, skipped, nested,
                 retained>>
  /\ Worker

EndRemoval ==
  /\ pc = "remove" /\ doomed = {}
  /\ pc' = "done" /\ failed' = removalFailed
  /\ UNCHANGED <<treeVars, node, stack, buffer, cancelled, skipped, nested, retained,
                 removalFailed, doomed, lost>>
  /\ Worker

-----------------------------------------------------------------------------
(* The user and others.                                                    *)

Cancel ==
  /\ ~cancel /\ pc # "done"
  /\ cancel' = TRUE
  /\ UNCHANGED <<callVars, treeVars, pc, node, stack, buffer, resultVars, doomed, changes, given, lost>>

\* Somebody writes a file into the source, or over one that is there.
WriteSource(n) ==
  /\ changes.source < MaxSourceChanges /\ pc # "done"
  /\ n # Root /\ src[Parent(n)] = "dir" /\ src[n] \notin {"dir", New}
  /\ src' = [src EXCEPT ![n] = New] /\ given' = [given EXCEPT ![n] = New]
  /\ changes' = [changes EXCEPT !.source = @ + 1]
  /\ UNCHANGED <<callVars, dst, temps, stuck, cancel, pc, node, stack, buffer, resultVars, doomed, lost>>

\* Somebody creates an entry at the destination.
CreateAtDestination(n, what) ==
  /\ changes.destination < MaxDestChanges /\ pc # "done"
  /\ ~Exists(dst, n) /\ (n = Root \/ dst[Parent(n)] = "dir")
  /\ dst' = [dst EXCEPT ![n] = what]
  /\ changes' = [changes EXCEPT !.destination = @ + 1]
  /\ UNCHANGED <<callVars, src, temps, stuck, cancel, pc, node, stack, buffer, resultVars, doomed, given, lost>>

Transfer ==
  \/ Start \/ Rename \/ CrossDevice \/ Restart
  \/ EnterCancelled \/ LoopCancelled \/ EnterFails \/ EnterDirectory \/ OpenFile
  \/ \E n \in Nodes : NextChild(n)
  \/ LeaveDirectory \/ StreamFile \/ CommitTemporary
  \/ EndCopy \/ EndRemoval
  \/ \E n \in Nodes : RemoveEntry(n)

Others ==
  \/ Cancel
  \/ \E n \in Nodes : WriteSource(n)
  \/ \E n \in Nodes, what \in {"dir", Foreign} : CreateAtDestination(n, what)

Next == Transfer \/ Others

Spec == Init /\ [][Next]_vars

-----------------------------------------------------------------------------
(* Properties.                                                             *)

Frame == [node : Nodes, todo : SUBSET Nodes]
Tree == [Nodes -> {"absent", "dir"} \cup Contents]

\* The variables keep their types, and the trees remain trees.
TypeOK ==
  /\ move \in BOOLEAN /\ overwrite \in BOOLEAN /\ sameDevice \in BOOLEAN
  /\ cancel \in BOOLEAN /\ failed \in BOOLEAN /\ cancelled \in BOOLEAN
  /\ retained \in BOOLEAN /\ removalFailed \in BOOLEAN
  /\ src \in Tree /\ dst \in Tree /\ WellFormed(src) /\ WellFormed(dst) /\ given \in Tree
  /\ temps \subseteq Nodes /\ stuck \subseteq Nodes /\ node \in Nodes /\ stack \in Seq(Frame)
  /\ buffer \in {"absent"} \cup Contents
  /\ skipped \subseteq Nodes /\ nested \subseteq Nodes /\ doomed \subseteq Nodes
  /\ lost \subseteq Nodes
  /\ pc \in {"start", "rename", "restart", "enter", "loop", "stream", "commit", "copied",
             "remove", "done"}

\* REQ-F-023, REQ-F-048: what was at the destination before, or is created there
\* while the transfer runs, is never replaced, except the entry the user chose
\* to overwrite, and that only by a file or by a whole directory over an empty one.
ForeignEntriesStay ==
  [][\A n \in Nodes : Exists(dst, n) /\ dst'[n] # dst[n] =>
       n = Root /\ overwrite /\ (dst[n] = "dir" => src[Root] = "dir")]_vars

\* REQ-F-038: a move never removes a file whose content has not arrived, unless
\* it was written to the source while the move ran: removeCompletedSource reads
\* the source anew, and removes that too.
OnlyChangesLost == \A n \in lost : given[n] = New

\* REQ-F-032, REQ-F-038: a transfer that was skipped in part, failed in part or
\* cancelled leaves the whole source in place, with what others wrote to it, and
\* a copy always does.
SourceRetained ==
  \/ src = given
  \/ move /\ skipped = {} /\ nested = {} /\ ~cancelled /\ (failed => removalFailed)

\* REQ-F-048: what the result names, and what is below it, is all that has not
\* arrived, if nobody wrote to the source meanwhile and nobody cancelled.
Named[n \in Nodes] == n \in skipped \cup nested \/ (n # Root /\ Named[Parent(n)])
EverythingAccounted ==
  pc = "done" /\ ~cancelled /\ (failed => removalFailed) /\ changes.source = 0 =>
    \A n \in Nodes : dst[n] = given[n] \/ ~Exists(given, n) \/ Named[n]

\* A transfer reported complete did all of it, if nobody wrote to the source
\* meanwhile: every entry has arrived, and a move has left nothing behind.
SuccessIsReal ==
  pc = "done" /\ Complete /\ changes.source = 0 =>
    /\ \A n \in Nodes : given[n] # "absent" => dst[n] = given[n]
    /\ move => \A n \in Nodes : ~Exists(src, n)

\* What the user is told of a transfer is what has happened to every entry of the
\* tree (ItemResult, mergeEntry, removeCompletedSource).
ResultIsTrue == EverythingAccounted /\ SuccessIsReal

\* REQ-F-032: no temporary entry outlives the step it was made for, and there is one at
\* most, unless unlink fails: then the user is told that the entry failed or was cancelled.
TemporariesGo ==
  /\ temps \subseteq {node}
  /\ temps # {} <=> pc \in {"stream", "commit"}
  /\ stuck # {} => ~Complete
=============================================================================
