------------------------- MODULE FileOperationProofs -------------------------
(***************************************************************************)
(* What TLAPS proves of the components that change files or have them      *)
(* changed: FileTransfer, for every tree and every number of changes by    *)
(* others, Trash, for any processes, paths, items and trash directories,   *)
(* and DragAndDrop, for any entries, rows, offers and modes.               *)
(*                                                                         *)
(* Of a transfer: the types, that temporary entries go, that a source is   *)
(* removed only behind a transfer of all of it, that nothing at the        *)
(* destination is replaced unasked, that a move removes nothing that has   *)
(* not arrived, and that the result says what has happened.  Of the trash: *)
(* that it can always be restored from, that nothing is lost, and that only *)
(* a complete answer has taken anything.  Of a drop: that it queues the    *)
(* transfer that was meant when the button was let go.                     *)
(***************************************************************************)
EXTENDS FileTransfer, Trash, DragAndDrop, TLAPS

-----------------------------------------------------------------------------
(* Transfers.                                                              *)

\* A file is on its way only to a directory that is there; a directory is
\* being read only while one is open.
Placed ==
  /\ pc \in {"stream", "commit"} => node = Root \/ dst[Parent(node)] = "dir"
  /\ pc = "loop" => stack # <<>>
TypeInv == TypeOK /\ Placed

LEMMA ParentInNodes == \A n \in Nodes \ {Root} : Parent(n) \in Nodes /\ Parent(n) # n
BY TreeAssumption

LEMMA ContentsApart == "absent" \notin Contents /\ "dir" \notin Contents
BY ContentAssumption DEF Contents

\* A tree stays one when a place without children is set, below a directory.
LEMMA SetKeepsTree ==
  ASSUME NEW t \in Tree, WellFormed(t), NEW n \in Nodes, t[n] # "dir",
         NEW v \in {"absent", "dir"} \cup Contents,
         n = Root \/ t[Parent(n)] = "dir"
  PROVE  [t EXCEPT ![n] = v] \in Tree /\ WellFormed([t EXCEPT ![n] = v])
<1> DEFINE u == [t EXCEPT ![n] = v]
<1>1. u \in Tree
  BY DEF Tree
<1>2. ASSUME NEW m \in Nodes \ {Root}, u[m] # "absent"
      PROVE  u[Parent(m)] = "dir"
  <2>1. CASE m = n
    BY <1>2, <2>1, ParentInNodes DEF Tree
  <2>2. CASE m # n
    <3>1. t[Parent(m)] = "dir"
      BY <1>2, <2>2 DEF Tree, WellFormed
    <3> QED
      BY <3>1, ParentInNodes DEF Tree
  <2> QED
    BY <2>1, <2>2
<1> QED
  BY <1>1, <1>2 DEF WellFormed

\* Removing what has nothing below it leaves a tree.
LEMMA RemoveKeepsTree ==
  ASSUME NEW t \in Tree, WellFormed(t), NEW n \in Nodes,
         t[n] # "dir" \/ \A m \in Children(n) : ~Exists(t, m)
  PROVE  [t EXCEPT ![n] = "absent"] \in Tree /\ WellFormed([t EXCEPT ![n] = "absent"])
<1> DEFINE u == [t EXCEPT ![n] = "absent"]
<1>1. u \in Tree
  BY DEF Tree
<1>2. ASSUME NEW m \in Nodes \ {Root}, u[m] # "absent"
      PROVE  u[Parent(m)] = "dir"
  <2>1. m # n /\ t[m] # "absent"
    BY <1>2 DEF Tree
  <2>2. t[Parent(m)] = "dir"
    BY <2>1 DEF WellFormed
  <2>3. Parent(m) # n
    BY <2>1, <2>2 DEF Children, Exists
  <2> QED
    BY <2>2, <2>3, ParentInNodes DEF Tree
<1> QED
  BY <1>1, <1>2 DEF WellFormed

LEMMA TypeInit == Init => TypeInv
<1> SUFFICES ASSUME Init PROVE TypeInv
  OBVIOUS
<1>1. src \in Tree /\ dst \in Tree /\ WellFormed(src) /\ WellFormed(dst)
  BY DEF Init, Trees, Tree, Contents
<1>2. Root \in Nodes
  BY TreeAssumption
<1>3. pc = "start" /\ stack = <<>> /\ buffer = "absent" /\ given = src
  BY DEF Init
<1>4. stack \in Seq(Frame)
  BY <1>3
<1>5. TypeOK
  BY <1>1, <1>2, <1>3, <1>4 DEF Init, TypeOK
<1> QED
  BY <1>3, <1>5 DEF TypeInv, Placed

LEMMA StackFacts ==
  ASSUME stack \in Seq(Frame)
  PROVE  /\ stack # <<>> => /\ Tail(stack) \in Seq(Frame)
                            /\ stack[1] \in Frame
         /\ After(stack) \in {"copied", "loop"}
         /\ After(stack) = "loop" => stack # <<>>
BY DEF After

\* The steps before the copy, and the ones that end the call.
LEMMA TypeCall ==
  ASSUME TypeInv, Start \/ Rename \/ CrossDevice \/ Restart \/ EndCopy \/ EndRemoval \/ Cancel
  PROVE  TypeInv'
<1> USE DEF TypeInv, TypeOK, Placed, WellFormed, Worker, callVars, treeVars, resultVars
<1>1. CASE Start
  BY <1>1 DEF Start
<1>2. CASE Rename
  <2>1. dst' \in Tree /\ WellFormed(dst)' /\ src' \in Tree /\ WellFormed(src)'
    BY <1>2 DEF Rename, Tree
  <2> QED
    BY <1>2, <2>1 DEF Rename
<1>3. CASE CrossDevice
  BY <1>3 DEF CrossDevice
<1>4. CASE Restart
  BY <1>4 DEF Restart
<1>5. CASE EndCopy
  BY <1>5 DEF EndCopy
<1>6. CASE EndRemoval
  BY <1>6 DEF EndRemoval
<1>7. CASE Cancel
  BY <1>7 DEF Cancel
<1> QED
  BY <1>1, <1>2, <1>3, <1>4, <1>5, <1>6, <1>7

\* The steps on directories.
LEMMA TypeDirectories ==
  ASSUME TypeInv,
         EnterCancelled \/ EnterFails \/ EnterDirectory \/ LoopCancelled \/ LeaveDirectory
  PROVE  TypeInv'
<1> USE DEF TypeInv, TypeOK, Placed, Worker, callVars, treeVars, resultVars
<1> USE StackFacts
<1>1. CASE EnterCancelled
  BY <1>1 DEF EnterCancelled, CancelEverything, WellFormed
<1>2. CASE EnterFails
  BY <1>2 DEF EnterFails, Fail, WellFormed
<1>3. CASE EnterDirectory
  <2>1. dst' \in Tree /\ WellFormed(dst)'
    <3>1. CASE dst[node] = "dir"
      <4>1. dst' = dst
        BY <1>3, <3>1 DEF EnterDirectory, Tree
      <4> QED
        BY <4>1 DEF WellFormed
    <3>2. CASE dst[node] # "dir"
      <4>1. node = Root \/ dst[Parent(node)] = "dir"
        BY <1>3, <3>2 DEF EnterDirectory, Prepared
      <4>2. dst' = [dst EXCEPT ![node] = "dir"]
        BY <1>3 DEF EnterDirectory
      <4>3. [dst EXCEPT ![node] = "dir"] \in Tree /\ WellFormed([dst EXCEPT ![node] = "dir"])
        BY <3>2, <4>1, SetKeepsTree
      <4> QED
        BY <4>2, <4>3 DEF WellFormed
    <3> QED
      BY <3>1, <3>2
  <2>2. src' = src /\ UNCHANGED <<given, temps, stuck, node, buffer, skipped, doomed, lost>>
    BY <1>3 DEF EnterDirectory
  <2>3. /\ stack' \in Seq(Frame) /\ nested' \subseteq Nodes /\ failed' \in BOOLEAN
        /\ pc' \in {"loop", "copied"} /\ (pc' = "loop" => stack' # <<>>)
    <3>1. CASE stack' = <<[node |-> node, todo |-> Children(node)]>> \o stack
               /\ pc' = "loop" /\ NothingFailed
      <4>1. [node |-> node, todo |-> Children(node)] \in Frame
        BY DEF Frame, Children
      <4> QED
        BY <3>1, <4>1 DEF NothingFailed
    <3>2. CASE Fail(node) /\ pc' = After(stack) /\ UNCHANGED stack
      BY <3>2 DEF Fail
    <3> QED
      BY <1>3, <3>1, <3>2 DEF EnterDirectory
  <2> QED
    BY <1>3, <2>1, <2>2, <2>3 DEF EnterDirectory, WellFormed
<1>4. CASE LoopCancelled
  BY <1>4 DEF LoopCancelled, CancelEverything, WellFormed
<1>5. CASE LeaveDirectory
  <2>1. stack # <<>> /\ Tail(stack) \in Seq(Frame)
    BY <1>5 DEF LeaveDirectory
  <2>2. pc' \in {"loop", "copied"} /\ (pc' = "loop" => stack' # <<>>)
    BY <1>5 DEF LeaveDirectory, After
  <2>3. nested' \subseteq Nodes /\ failed' = failed
    BY <1>5, <2>1 DEF LeaveDirectory, Frame, NothingFailed
  <2> QED
    BY <1>5, <2>1, <2>2, <2>3 DEF LeaveDirectory, WellFormed
<1> QED
  BY <1>1, <1>2, <1>3, <1>4, <1>5

LEMMA TypeNextChild ==
  ASSUME TypeInv, NEW n \in Nodes, NextChild(n)
  PROVE  TypeInv'
<1> USE DEF TypeInv, TypeOK, Placed, Worker, callVars, treeVars, resultVars
<1>1. stack # <<>> /\ stack[1] \in Frame
  BY StackFacts DEF NextChild
<1>2. stack' \in Seq(Frame) /\ stack' # <<>>
  <2>1. stack' = [stack EXCEPT ![1] = [stack[1] EXCEPT !.todo = @ \ {n}]]
    BY DEF NextChild
  <2>2. [stack[1] EXCEPT !.todo = @ \ {n}] \in Frame
    BY <1>1 DEF Frame
  <2>3. 1 \in DOMAIN stack
    BY <1>1
  <2> QED
    BY <2>1, <2>2, <2>3, <1>1
<1>3. skipped' \subseteq Nodes /\ node' \in Nodes /\ pc' \in {"enter", "loop"}
  BY DEF NextChild, Skip
<1> QED
  BY <1>2, <1>3 DEF NextChild, WellFormed

\* The steps on files.
LEMMA TypeFiles ==
  ASSUME TypeInv, OpenFile \/ StreamFile \/ CommitTemporary
  PROVE  TypeInv'
<1> USE DEF TypeInv, TypeOK, Placed, Worker, callVars, treeVars, resultVars
<1> USE StackFacts
<1>1. CASE OpenFile
  BY <1>1 DEF OpenFile, WellFormed
<1>2. CASE StreamFile
  <2>1. /\ buffer' \in {"absent"} \cup Contents /\ temps' \subseteq Nodes /\ stuck' \subseteq Nodes
        /\ failed' \in BOOLEAN /\ cancelled' \in BOOLEAN /\ nested' \subseteq Nodes
    BY <1>2 DEF StreamFile, CancelEverything, Fail, NothingFailed, UnlinkTemp
  <2>2. /\ stack' \in Seq(Frame)
        /\ pc' \in {"commit", "copied", "loop"} /\ (pc' = "loop" => stack' # <<>>)
    <3>1. \/ stack' = <<>> /\ pc' = "copied"
          \/ stack' = stack /\ pc' \in {"commit", After(stack)}
      BY <1>2 DEF StreamFile, CancelEverything
    <3>2. CASE stack' = <<>>
      BY <3>1, <3>2
    <3>3. CASE stack' = stack
      BY <3>1, <3>3
    <3> QED
      BY <3>1, <3>2, <3>3
  <2>3. UNCHANGED <<src, dst, node, skipped, retained, removalFailed, doomed, lost>>
    BY <1>2 DEF StreamFile
  <2> QED
    BY <1>2, <2>1, <2>2, <2>3 DEF StreamFile, WellFormed
<1>3. CASE CommitTemporary
  <2>1. dst' \in Tree /\ WellFormed(dst)'
    <3>1. CASE dst' = dst
      BY <3>1 DEF WellFormed
    <3>2. CASE dst' # dst
      <4>1. MayPlace(node) /\ dst' = [dst EXCEPT ![node] = buffer]
        BY <1>3, <3>2 DEF CommitTemporary
      <4>2. dst[node] # "dir"
        BY <4>1 DEF MayPlace, Exists
      <4>3. node = Root \/ dst[Parent(node)] = "dir"
        BY <1>3 DEF CommitTemporary
      <4>4. [dst EXCEPT ![node] = buffer] \in Tree /\ WellFormed([dst EXCEPT ![node] = buffer])
        BY <4>2, <4>3, SetKeepsTree
      <4> QED
        BY <4>1, <4>4 DEF WellFormed
    <3> QED
      BY <3>1, <3>2
  <2>2. /\ temps' \subseteq Nodes /\ stuck' \subseteq Nodes /\ failed' \in BOOLEAN
        /\ cancelled' \in BOOLEAN /\ nested' \subseteq Nodes
    BY <1>3 DEF CommitTemporary, CancelEverything, Fail, NothingFailed, UnlinkTemp
  <2>3. /\ stack' \in Seq(Frame)
        /\ pc' \in {"copied", "loop"} /\ (pc' = "loop" => stack' # <<>>)
    <3>1. \/ stack' = <<>> /\ pc' = "copied"
          \/ stack' = stack /\ pc' = After(stack)
      BY <1>3 DEF CommitTemporary, CancelEverything
    <3>2. CASE stack' = <<>>
      BY <3>1, <3>2
    <3>3. CASE stack' = stack
      BY <3>1, <3>3
    <3> QED
      BY <3>1, <3>2, <3>3
  <2> QED
    BY <1>3, <2>1, <2>2, <2>3 DEF CommitTemporary, WellFormed
<1> QED
  BY <1>1, <1>2, <1>3

LEMMA TypeRemoveEntry ==
  ASSUME TypeInv, NEW n \in Nodes, RemoveEntry(n)
  PROVE  TypeInv'
<1> USE DEF TypeInv, TypeOK, Placed, Worker, callVars, treeVars, resultVars
<1>1. src' \in Tree /\ WellFormed(src)'
  <2>1. CASE src' = src
    BY <2>1 DEF WellFormed
  <2>2. CASE src' # src
    <3>1. Removes(n) /\ src' = [src EXCEPT ![n] = "absent"]
      BY <2>2 DEF RemoveEntry
    <3>2. src[n] # "dir" \/ \A m \in Children(n) : ~Exists(src, m)
      BY <3>1, ContentsApart DEF Removes
    <3>3. [src EXCEPT ![n] = "absent"] \in Tree /\ WellFormed([src EXCEPT ![n] = "absent"])
      BY <3>2, RemoveKeepsTree
    <3> QED
      BY <3>1, <3>3 DEF WellFormed
  <2> QED
    BY <2>1, <2>2
<1>2. lost' \subseteq Nodes /\ removalFailed' \in BOOLEAN
  BY DEF RemoveEntry
<1> QED
  BY <1>1, <1>2 DEF RemoveEntry, WellFormed

\* What others do.
LEMMA TypeOthers ==
  ASSUME TypeInv, NEW n \in Nodes,
         WriteSource(n) \/ \E what \in {"dir", Foreign} : CreateAtDestination(n, what)
  PROVE  TypeInv'
<1> USE DEF TypeInv, TypeOK, Placed, callVars, treeVars, resultVars
<1>1. CASE WriteSource(n)
  <2>1. src' \in Tree /\ WellFormed(src)'
    <3>1. /\ src' = [src EXCEPT ![n] = New] /\ src[n] # "dir" /\ src[Parent(n)] = "dir"
      BY <1>1 DEF WriteSource
    <3>2. New \in {"absent", "dir"} \cup Contents
      BY DEF Contents
    <3>3. [src EXCEPT ![n] = New] \in Tree /\ WellFormed([src EXCEPT ![n] = New])
      BY <3>1, <3>2, SetKeepsTree
    <3> QED
      BY <3>1, <3>3 DEF WellFormed
  <2>2. given' \in Tree
    BY <1>1 DEF WriteSource, Tree, Contents
  <2> QED
    BY <1>1, <2>1, <2>2 DEF WriteSource, WellFormed
<1>2. ASSUME NEW what \in {"dir", Foreign}, CreateAtDestination(n, what)
      PROVE  TypeInv'
  <2>1. dst' \in Tree /\ WellFormed(dst)'
    <3>1. /\ dst' = [dst EXCEPT ![n] = what] /\ dst[n] # "dir"
          /\ n = Root \/ dst[Parent(n)] = "dir"
      BY <1>2 DEF CreateAtDestination, Exists
    <3>2. what \in {"absent", "dir"} \cup Contents
      BY DEF Contents
    <3>3. [dst EXCEPT ![n] = what] \in Tree /\ WellFormed([dst EXCEPT ![n] = what])
      BY <3>1, <3>2, SetKeepsTree
    <3> QED
      BY <3>1, <3>3 DEF WellFormed
  <2>2. pc \in {"stream", "commit"} => node = Root \/ dst'[Parent(node)] = "dir"
    BY <1>2, ParentInNodes DEF CreateAtDestination, Exists, Tree
  <2> QED
    BY <1>2, <2>1, <2>2 DEF CreateAtDestination, WellFormed
<1> QED
  BY <1>1, <1>2

LEMMA TypeStep == TypeInv /\ [Next]_vars => TypeInv'
<1> SUFFICES ASSUME TypeInv, [Next]_vars PROVE TypeInv'
  OBVIOUS
<1>1. CASE Transfer
  BY <1>1, TypeCall, TypeDirectories, TypeNextChild, TypeFiles, TypeRemoveEntry DEF Transfer
<1>2. CASE Others
  BY <1>2, TypeCall, TypeOthers DEF Others
<1>3. CASE UNCHANGED vars
  BY <1>3 DEF vars, callVars, treeVars, resultVars, TypeInv, TypeOK, Placed, WellFormed
<1> QED
  BY <1>1, <1>2, <1>3 DEF Next

\* The trees of source and destination remain trees, whatever the transfer, its
\* failures and others do.
THEOREM TypeCorrect == Spec => []TypeOK
<1>1. TypeInv => TypeOK
  BY DEF TypeInv
<1> QED
  BY <1>1, TypeInit, TypeStep, PTL DEF Spec

-----------------------------------------------------------------------------
(* Nothing at the destination is replaced unasked.                         *)

LEMMA StepKeepsForeign ==
  ASSUME TypeInv, [Next]_vars, NEW n \in Nodes, Exists(dst, n), dst'[n] # dst[n]
  PROVE  n = Root /\ overwrite /\ (dst[n] = "dir" => src[Root] = "dir")
<1> USE DEF TypeInv, TypeOK, Tree, Exists
<1>1. CASE Rename
  BY <1>1 DEF Rename, RenameAllowed
<1>2. CASE EnterDirectory
  BY <1>2 DEF EnterDirectory, Prepared
<1>3. CASE CommitTemporary
  BY <1>3 DEF CommitTemporary, MayPlace, ReplacedAt
<1>4. ASSUME NEW m \in Nodes, NEW what \in {"dir", Foreign}, CreateAtDestination(m, what)
      PROVE  FALSE
  BY <1>4 DEF CreateAtDestination
<1>5. CASE Start \/ CrossDevice \/ Restart \/ EndCopy \/ EndRemoval \/ Cancel
  BY <1>5 DEF Start, CrossDevice, Restart, EndCopy, EndRemoval, Cancel, treeVars
<1>6. CASE EnterCancelled \/ LoopCancelled \/ EnterFails \/ OpenFile \/ LeaveDirectory \/ StreamFile
  BY <1>6 DEF EnterCancelled, LoopCancelled, EnterFails, OpenFile, LeaveDirectory, StreamFile, treeVars
<1>7. CASE \E m \in Nodes : NextChild(m) \/ RemoveEntry(m) \/ WriteSource(m)
  BY <1>7 DEF NextChild, RemoveEntry, WriteSource, treeVars
<1>8. CASE UNCHANGED vars
  BY <1>8 DEF vars, treeVars
<1> QED
  BY <1>1, <1>2, <1>3, <1>4, <1>5, <1>6, <1>7, <1>8 DEF Next, Transfer, Others

\* REQ-F-023, REQ-F-048: no step of the transfer or of others replaces what is at
\* the destination, whenever it came there, except the entry the user chose to
\* overwrite.
THEOREM ForeignEntriesKept == Spec => ForeignEntriesStay
<1> DEFINE Keeps ==
      \A n \in Nodes : Exists(dst, n) /\ dst'[n] # dst[n] =>
        n = Root /\ overwrite /\ (dst[n] = "dir" => src[Root] = "dir")
<1>1. TypeInv /\ [Next]_vars => Keeps
  BY StepKeepsForeign
<1> HIDE DEF Keeps
<1>2. Spec => [][Keeps]_vars
  BY <1>1, TypeInit, TypeStep, PTL DEF Spec
<1> QED
  BY <1>2 DEF Keeps, ForeignEntriesStay

-----------------------------------------------------------------------------
(* The source of an incomplete move stays.                                 *)

\* Up to the removal the source is what others made of it; a rename is tried
\* before anything has gone wrong, and the removal begins only if nothing has.
RetainInv ==
  /\ pc \notin {"remove", "done"} => src = given
  /\ pc \in {"start", "rename", "remove"} => /\ skipped = {} /\ nested = {}
                                             /\ ~cancelled /\ ~failed
  /\ pc \in {"rename", "remove"} => move
  /\ SourceRetained

LEMMA RetainStep ==
  ASSUME TypeInv, RetainInv, [Next]_vars
  PROVE  RetainInv'
<1> USE DEF RetainInv, SourceRetained, treeVars, callVars, resultVars, Worker
<1>1. CASE Start \/ CrossDevice \/ Restart
  BY <1>1 DEF Start, CrossDevice, Restart
<1>2. CASE Rename
  BY <1>2 DEF Rename
<1>3. CASE EnterCancelled \/ LoopCancelled \/ EnterFails \/ LeaveDirectory
  BY <1>3 DEF EnterCancelled, LoopCancelled, EnterFails, LeaveDirectory, CancelEverything, After
<1>4. CASE EnterDirectory
  BY <1>4 DEF EnterDirectory, After
<1>5. CASE OpenFile \/ StreamFile \/ CommitTemporary
  BY <1>5 DEF OpenFile, StreamFile, CommitTemporary, CancelEverything, After
<1>6. CASE EndCopy
  BY <1>6 DEF EndCopy, Complete
<1>7. CASE EndRemoval
  BY <1>7 DEF EndRemoval
<1>8. ASSUME NEW m \in Nodes, NextChild(m) \/ RemoveEntry(m)
      PROVE  RetainInv'
  BY <1>8 DEF NextChild, RemoveEntry
<1>9. ASSUME NEW m \in Nodes, WriteSource(m)
      PROVE  RetainInv'
  BY <1>9 DEF WriteSource
<1>10. CASE Cancel
  BY <1>10 DEF Cancel
<1>11. ASSUME NEW m \in Nodes, NEW what \in {"dir", Foreign}, CreateAtDestination(m, what)
       PROVE  RetainInv'
  BY <1>11 DEF CreateAtDestination
<1>12. CASE UNCHANGED vars
  BY <1>12 DEF vars
<1> QED
  BY <1>1, <1>2, <1>3, <1>4, <1>5, <1>6, <1>7, <1>8, <1>9, <1>10, <1>11, <1>12
     DEF Next, Transfer, Others

\* REQ-F-038: nothing is taken from a source unless it is that of a move with
\* nothing skipped, failed or cancelled up to there.
THEOREM IncompleteKeepsSource == Spec => []SourceRetained
<1>1. Init => RetainInv
  BY DEF Init, RetainInv, SourceRetained
<1>2. TypeInv /\ RetainInv /\ [Next]_vars => RetainInv'
  BY RetainStep
<1>3. RetainInv => SourceRetained
  BY DEF RetainInv
<1> QED
  BY <1>1, <1>2, <1>3, TypeInit, TypeStep, PTL DEF Spec

-----------------------------------------------------------------------------
(* Temporary entries go.                                                   *)

\* One is removed, or cannot be, behind a failure or a cancellation.
LEMMA TemporaryUnlinked ==
  ASSUME TemporariesGo, UnlinkTemp(node), pc' \notin {"stream", "commit"},
         cancelled' \/ failed' \/ nested' # {}
  PROVE  TemporariesGo'
<1>1. temps' = {}
  BY DEF TemporariesGo, UnlinkTemp
<1>2. ~Complete'
  BY DEF Complete
<1> QED
  BY <1>1, <1>2 DEF TemporariesGo

\* What ends the work on an entry that was not copied.
LEMMA FailureIsTold ==
  /\ CancelEverything => cancelled' /\ pc' \notin {"stream", "commit"}
  /\ Fail(node) /\ pc' = After(stack) => /\ failed' \/ nested' # {}
                                        /\ pc' \notin {"stream", "commit"}
BY DEF CancelEverything, Fail, After

LEMMA TemporariesStep ==
  ASSUME TypeInv, RetainInv, TemporariesGo, [Next]_vars
  PROVE  TemporariesGo'
<1> USE DEF TemporariesGo, Complete, treeVars, resultVars
<1>1. CASE Start \/ Rename \/ CrossDevice \/ Restart \/ EndCopy \/ EndRemoval \/ Cancel
  BY <1>1 DEF Start, Rename, CrossDevice, Restart, EndCopy, EndRemoval, Cancel, RetainInv
<1>2. CASE EnterCancelled \/ LoopCancelled \/ EnterFails \/ EnterDirectory \/ LeaveDirectory
  BY <1>2 DEF EnterCancelled, LoopCancelled, EnterFails, EnterDirectory, LeaveDirectory,
              CancelEverything, After, Fail, NothingFailed
<1>3. CASE OpenFile
  BY <1>3 DEF OpenFile
<1>4. CASE StreamFile
  <2>1. CASE pc' = "commit" /\ UNCHANGED <<temps, stuck, cancelled, stack>> /\ NothingFailed
    BY <1>4, <2>1 DEF StreamFile, NothingFailed
  <2>2. CASE UnlinkTemp(node) /\ (CancelEverything \/ (Fail(node) /\ pc' = After(stack)))
    BY <2>2, FailureIsTold, TemporaryUnlinked
  <2> QED
    BY <1>4, <2>1, <2>2 DEF StreamFile
<1>5. CASE CommitTemporary
  <2>1. CASE temps' = temps \ {node} /\ UNCHANGED <<stuck, cancelled>> /\ NothingFailed /\ pc' = After(stack)
    BY <1>5, <2>1 DEF CommitTemporary, NothingFailed, After
  <2>2. CASE UnlinkTemp(node) /\ (CancelEverything \/ (Fail(node) /\ pc' = After(stack)))
    BY <2>2, FailureIsTold, TemporaryUnlinked
  <2> QED
    BY <1>5, <2>1, <2>2 DEF CommitTemporary
<1>6. CASE \E m \in Nodes : NextChild(m) \/ RemoveEntry(m) \/ WriteSource(m)
  BY <1>6 DEF NextChild, RemoveEntry, WriteSource, Skip
<1>7. ASSUME NEW m \in Nodes, NEW what \in {"dir", Foreign}, CreateAtDestination(m, what)
      PROVE  TemporariesGo'
  BY <1>7 DEF CreateAtDestination
<1>8. CASE UNCHANGED vars
  BY <1>8 DEF vars
<1> QED
  BY <1>1, <1>2, <1>3, <1>4, <1>5, <1>6, <1>7, <1>8 DEF Next, Transfer, Others

\* REQ-F-032: a temporary entry is at the destination only while its file is streamed
\* and committed; no failure and no cancellation leaves one, unless unlink fails, and
\* then the transfer is not reported complete.
THEOREM TemporariesAreGone == Spec => []TemporariesGo
<1>1. Init => TemporariesGo
  BY DEF Init, TemporariesGo
<1>2. Init => RetainInv
  BY DEF Init, RetainInv, SourceRetained
<1>3. TypeInv /\ RetainInv /\ [Next]_vars => RetainInv'
  BY RetainStep
<1>4. TypeInv /\ RetainInv /\ TemporariesGo /\ [Next]_vars => TemporariesGo'
  BY TemporariesStep
<1> QED
  BY <1>1, <1>2, <1>3, <1>4, TypeInit, TypeStep, PTL DEF Spec

-----------------------------------------------------------------------------
(* What has not arrived is named, and what a move removes has arrived.     *)

\* With every node what is below it.
Closed(S) == \A n \in Nodes \ {Root} : Parent(n) \in S => n \in S

\* What the copy has still before it, and what it has reported: everything else
\* has arrived, except what is below one of these.
AtHand == IF pc \in {"start", "rename", "restart", "enter", "stream", "commit"}
          THEN {node} ELSE {}
ToDo == {n \in Nodes : \E i \in DOMAIN stack : n \in stack[i].todo}
Remaining == AtHand \cup ToDo \cup skipped \cup nested

\* A result that is neither cancelled nor failed as a whole.
Sound == ~cancelled /\ (failed => removalFailed)
Spared(n) == given[n] \in {"absent", New}
Accounted ==
  \A S \in SUBSET Nodes :
    Closed(S) /\ Remaining \subseteq S =>
      \A n \in Nodes : n \in S \/ Spared(n) \/ dst[n] = given[n]

\* What is left to do in an open directory is below it.
OpenInv == \A i \in DOMAIN stack : stack[i].todo \subseteq Children(stack[i].node)

\* Where the worker is in the tree, and what it holds of it.
PositionInv ==
  /\ pc \in {"start", "rename", "restart"} => node = Root
  /\ pc \notin {"enter", "loop", "stream", "commit"} => stack = <<>>
  /\ OpenInv
  /\ pc \in {"stream", "commit"} => /\ src[node] \in Contents
                                    /\ buffer = given[node] \/ given[node] = New
  /\ pc \notin {"remove", "done"} => ~removalFailed

\* The source is what others left of it, less what has been removed.
SourceInv ==
  /\ changes \in [source : Nat, destination : Nat]
  /\ changes.source = 0 => \A n \in Nodes : given[n] # New
  /\ \A n \in Nodes : src[n] \in {given[n], "absent"}
  /\ pc = "remove" /\ ~removalFailed /\ changes.source = 0 =>
       \A n \in Nodes \ doomed : src[n] = "absent"
  /\ pc = "done" /\ move /\ Complete /\ changes.source = 0 =>
       \A n \in Nodes : src[n] = "absent"

ArrivalInv ==
  /\ PositionInv
  /\ SourceInv
  /\ Sound => Accounted
  /\ OnlyChangesLost

LEMMA ChildrenAreNodes == \A n : Children(n) \subseteq Nodes
BY DEF Children

\* Before the removal, what is below something spared is spared: nothing is below a
\* file, or below nothing.
LEMMA SparedBelow ==
  ASSUME TypeInv, src = given, NEW n \in Nodes \ {Root},
         given[Parent(n)] \in {"absent"} \cup Contents
  PROVE  Spared(n)
<1>1. given[Parent(n)] # "dir"
  BY ContentsApart
<1>2. given[n] = "absent"
  BY <1>1 DEF TypeInv, TypeOK, WellFormed
<1> QED
  BY <1>2 DEF Spared

\* The account survives a step that puts aside D, of which everything has arrived.
LEMMA AccountKept ==
  ASSUME Accounted, NEW D \in SUBSET Nodes,
         \A n \in D : Spared(n)' \/ dst'[n] = given'[n],
         \A n \in Nodes : Spared(n) => Spared(n)',
         \A n \in Nodes : dst[n] = given[n] => Spared(n)' \/ dst'[n] = given'[n],
         \A S \in SUBSET Nodes :
           Closed(S) /\ Remaining' \subseteq S => Closed(S \cup D) /\ Remaining \subseteq S \cup D
  PROVE  Accounted'
<1> SUFFICES ASSUME NEW S \in SUBSET Nodes, Closed(S), Remaining' \subseteq S, NEW n \in Nodes
             PROVE  n \in S \/ Spared(n)' \/ dst'[n] = given'[n]
  BY DEF Accounted, Closed
<1>1. Closed(S \cup D) /\ Remaining \subseteq S \cup D
  OBVIOUS
<1>2. n \in S \cup D \/ Spared(n) \/ dst[n] = given[n]
  BY <1>1 DEF Accounted
<1> QED
  BY <1>2

\* In particular one that only adds to what is before it and reported.
LEMMA AccountGrows ==
  ASSUME Accounted, Remaining \subseteq Remaining', UNCHANGED <<dst, given>>
  PROVE  Accounted'
<1>1. \A n \in Nodes : Spared(n) => Spared(n)'
  BY DEF Spared
<1>2. \A S \in SUBSET Nodes :
        Closed(S) /\ Remaining' \subseteq S => Closed(S \cup {}) /\ Remaining \subseteq S \cup {}
  <2> TAKE S \in SUBSET Nodes
  <2>1. S \cup {} = S
    OBVIOUS
  <2> QED
    BY <2>1
<1>3. \A n \in {} : Spared(n)' \/ dst'[n] = given'[n]
  OBVIOUS
<1>4. \A n \in Nodes : dst[n] = given[n] => Spared(n)' \/ dst'[n] = given'[n]
  OBVIOUS
<1>5. {} \in SUBSET Nodes
  OBVIOUS
<1> QED
  BY <1>1, <1>2, <1>3, <1>4, <1>5, AccountKept, Zenon

\* What is to do behind the steps on the stack of open directories.
LEMMA ToDoOfStack ==
  ASSUME stack \in Seq(Frame), stack # <<>>
  PROVE  /\ stack' = Tail(stack) => \A m \in ToDo : m \in ToDo' \/ m \in stack[1].todo
         /\ \A n : stack' = [stack EXCEPT ![1].todo = @ \ {n}]
                     => \A m \in ToDo : m \in ToDo' \/ m = n
<1>1. ASSUME stack' = Tail(stack), NEW m \in ToDo, m \notin stack[1].todo
      PROVE  m \in ToDo'
  <2>1. PICK i \in DOMAIN stack : m \in stack[i].todo
    BY DEF ToDo
  <2>2. i - 1 \in DOMAIN stack' /\ stack'[i - 1] = stack[i]
    BY <1>1, <2>1
  <2> QED
    BY <2>1, <2>2 DEF ToDo
<1>2. ASSUME NEW n, stack' = [stack EXCEPT ![1].todo = @ \ {n}], NEW m \in ToDo, m # n
      PROVE  m \in ToDo'
  <2>1. PICK i \in DOMAIN stack : m \in stack[i].todo
    BY DEF ToDo
  <2>2. stack[i] \in Frame /\ stack[1] \in Frame
    BY <2>1
  <2>3. i \in DOMAIN stack' /\ m \in stack'[i].todo
    BY <1>2, <2>1, <2>2 DEF Frame
  <2> QED
    BY <2>1, <2>3 DEF ToDo
<1> QED
  BY <1>1, <1>2

LEMMA OpenOfStack ==
  ASSUME stack \in Seq(Frame), OpenInv
  PROVE  /\ stack' = stack \/ stack' = <<>> => OpenInv'
         /\ stack' = Tail(stack) /\ stack # <<>> => OpenInv'
         /\ \A n : stack' = <<[node |-> n, todo |-> Children(n)]>> \o stack => OpenInv'
         /\ \A n : stack' = [stack EXCEPT ![1].todo = @ \ {n}] /\ stack # <<>> => OpenInv'
<1>1. ASSUME stack' = stack \/ stack' = <<>> PROVE OpenInv'
  BY <1>1 DEF OpenInv
<1>2. ASSUME stack' = Tail(stack), stack # <<>> PROVE OpenInv'
  <2> SUFFICES ASSUME NEW i \in DOMAIN stack' PROVE stack'[i].todo \subseteq Children(stack'[i].node)
    BY DEF OpenInv
  <2>1. i + 1 \in DOMAIN stack /\ stack'[i] = stack[i + 1]
    BY <1>2
  <2> QED
    BY <2>1 DEF OpenInv
<1>3. ASSUME NEW n, stack' = <<[node |-> n, todo |-> Children(n)]>> \o stack PROVE OpenInv'
  <2> SUFFICES ASSUME NEW i \in DOMAIN stack' PROVE stack'[i].todo \subseteq Children(stack'[i].node)
    BY DEF OpenInv
  <2>1. CASE i = 1
    <3>1. stack'[i] = [node |-> n, todo |-> Children(n)]
      BY <1>3, <2>1
    <3> QED
      BY <3>1
  <2>2. CASE i # 1
    <3>1. i - 1 \in DOMAIN stack /\ stack'[i] = stack[i - 1]
      BY <1>3, <2>2
    <3> QED
      BY <3>1 DEF OpenInv
  <2> QED
    BY <2>1, <2>2
<1>4. ASSUME NEW n, stack' = [stack EXCEPT ![1].todo = @ \ {n}], stack # <<>> PROVE OpenInv'
  <2> SUFFICES ASSUME NEW i \in DOMAIN stack' PROVE stack'[i].todo \subseteq Children(stack'[i].node)
    BY DEF OpenInv
  <2>1. i \in DOMAIN stack /\ stack[i] \in Frame /\ stack[1] \in Frame
    BY <1>4
  <2>2. stack'[i].todo \subseteq stack[i].todo /\ stack'[i].node = stack[i].node
    BY <1>4, <2>1 DEF Frame
  <2> QED
    BY <2>1, <2>2 DEF OpenInv
<1> QED
  BY <1>1, <1>2, <1>3, <1>4

LEMMA PositionStep ==
  ASSUME TypeInv, RetainInv, PositionInv, [Next]_vars
  PROVE  PositionInv'
<1> USE DEF PositionInv, treeVars, callVars, resultVars, Worker
<1>0. /\ stack \in Seq(Frame)
      /\ pc = "loop" => stack # <<>>
      /\ pc \notin {"remove", "done"} => src = given
  BY DEF TypeInv, TypeOK, Placed, RetainInv
<1>o. /\ stack' = stack \/ stack' = <<>> => OpenInv'
      /\ stack' = Tail(stack) /\ stack # <<>> => OpenInv'
      /\ \A n : stack' = <<[node |-> n, todo |-> Children(n)]>> \o stack => OpenInv'
      /\ \A n : stack' = [stack EXCEPT ![1].todo = @ \ {n}] /\ stack # <<>> => OpenInv'
  BY <1>0, OpenOfStack
<1>t. src \in Tree /\ given \in Tree /\ node \in Nodes
  BY DEF TypeInv, TypeOK
<1> USE <1>0, <1>o
<1>1. CASE Start \/ CrossDevice \/ Restart \/ Rename \/ EndCopy \/ EndRemoval \/ Cancel
  <2>1. stack' = stack /\ node' = node
    BY <1>1 DEF Start, CrossDevice, Restart, Rename, EndCopy, EndRemoval, Cancel
  <2>2. OpenInv'
    BY <2>1
  <2>3. CASE Start \/ CrossDevice \/ Restart \/ Rename
    BY <2>1, <2>2, <2>3 DEF Start, CrossDevice, Restart, Rename
  <2>4. CASE EndCopy \/ EndRemoval \/ Cancel
    BY <2>1, <2>2, <2>4 DEF EndCopy, EndRemoval, Cancel
  <2> QED
    BY <1>1, <2>3, <2>4
<1>2. CASE EnterCancelled \/ LoopCancelled
  BY <1>2 DEF EnterCancelled, LoopCancelled, CancelEverything
<1>3. CASE EnterFails
  BY <1>3 DEF EnterFails, After
<1>4. CASE EnterDirectory
  <2>1. \/ stack' = <<[node |-> node, todo |-> Children(node)]>> \o stack /\ pc' = "loop"
        \/ stack' = stack /\ pc' = After(stack)
    BY <1>4 DEF EnterDirectory
  <2>2. OpenInv'
    BY <2>1
  <2> QED
    BY <1>4, <2>1, <2>2 DEF EnterDirectory, After
<1>5. CASE OpenFile
  BY <1>5 DEF OpenFile
<1>6. CASE StreamFile
  <2>1. \/ stack' = <<>> /\ pc' = "copied"
        \/ stack' = stack /\ pc' \in {"commit", After(stack)}
    BY <1>6 DEF StreamFile, CancelEverything
  <2>2. OpenInv'
    BY <2>1
  <2>3. pc' = "commit" => buffer' \in {buffer, src[node]}
    BY <1>6 DEF StreamFile, CancelEverything, After
  <2> QED
    BY <1>6, <2>1, <2>2, <2>3 DEF StreamFile, After
<1>7. CASE CommitTemporary
  <2>1. \/ stack' = <<>> /\ pc' = "copied"
        \/ stack' = stack /\ pc' = After(stack)
    BY <1>7 DEF CommitTemporary, CancelEverything
  <2>2. OpenInv'
    BY <2>1
  <2> QED
    BY <1>7, <2>1, <2>2 DEF CommitTemporary, After
<1>8. CASE LeaveDirectory
  BY <1>8 DEF LeaveDirectory, After
<1>9. ASSUME NEW n \in Nodes, NextChild(n)
      PROVE  PositionInv'
  <2>1. OpenInv'
    BY <1>9 DEF NextChild
  <2>2. pc' \in {"enter", "loop"} /\ UNCHANGED removalFailed
    BY <1>9 DEF NextChild
  <2> QED
    BY <1>9, <2>1, <2>2 DEF NextChild
<1>10. ASSUME NEW n \in Nodes, RemoveEntry(n)
       PROVE  PositionInv'
  <2>1. pc' = pc /\ stack' = stack /\ pc = "remove"
    BY <1>10 DEF RemoveEntry
  <2> QED
    BY <2>1
<1>11. ASSUME NEW n \in Nodes, WriteSource(n)
       PROVE  PositionInv'
  <2>1. UNCHANGED <<pc, stack, node, buffer, removalFailed>>
    BY <1>11 DEF WriteSource
  <2>2. OpenInv'
    BY <2>1
  <2>3. pc \in {"stream", "commit"} => /\ src'[node] \in Contents
                                       /\ buffer = given'[node] \/ given'[node] = New
    BY <1>11, <1>t DEF WriteSource, Tree, Contents
  <2> QED
    BY <2>1, <2>2, <2>3
<1>12. ASSUME NEW n \in Nodes, NEW what \in {"dir", Foreign}, CreateAtDestination(n, what)
       PROVE  PositionInv'
  BY <1>12 DEF CreateAtDestination
<1>13. CASE UNCHANGED vars
  BY <1>13 DEF vars
<1> QED
  BY <1>1, <1>2, <1>3, <1>4, <1>5, <1>6, <1>7, <1>8, <1>9, <1>10, <1>11, <1>12, <1>13
     DEF Next, Transfer, Others

LEMMA SourceStep ==
  ASSUME TypeInv, RetainInv, SourceInv, [Next]_vars
  PROVE  SourceInv'
<1> USE DEF SourceInv, treeVars, callVars, resultVars, Worker
<1>0. src \in Tree /\ given \in Tree
  BY DEF TypeInv, TypeOK
<1>r. /\ pc \notin {"remove", "done"} => src = given
      /\ pc \in {"start", "rename", "remove"} => ~failed /\ ~cancelled
  BY DEF RetainInv
<1>1. CASE Start \/ CrossDevice \/ Restart
  BY <1>1 DEF Start, CrossDevice, Restart, Complete
<1>2. CASE Rename
  BY <1>2, <1>0, <1>r DEF Rename, Complete, Tree
<1>3. CASE EnterCancelled \/ LoopCancelled \/ EnterFails \/ LeaveDirectory
  BY <1>3 DEF EnterCancelled, LoopCancelled, EnterFails, LeaveDirectory, CancelEverything, After
<1>4. CASE EnterDirectory
  BY <1>4 DEF EnterDirectory, After
<1>5. CASE OpenFile \/ StreamFile \/ CommitTemporary
  BY <1>5 DEF OpenFile, StreamFile, CommitTemporary, CancelEverything, After
<1>6. CASE EndCopy
  BY <1>6 DEF EndCopy, Complete
<1>7. CASE EndRemoval
  BY <1>7 DEF EndRemoval, Complete
<1>8. ASSUME NEW m \in Nodes, NextChild(m)
      PROVE  SourceInv'
  BY <1>8 DEF NextChild
<1>9. ASSUME NEW m \in Nodes, RemoveEntry(m)
      PROVE  SourceInv'
  <2>1. UNCHANGED <<changes, given, pc>> /\ pc = "remove"
    BY <1>9 DEF RemoveEntry
  <2>2. \A n \in Nodes : src'[n] = src[n] \/ src'[n] = "absent"
    BY <1>9, <1>0 DEF RemoveEntry, Tree
  <2>3. src'[m] = "absent" \/ removalFailed'
    BY <1>9, <1>0 DEF RemoveEntry, Tree, Exists
  <2>4. removalFailed => removalFailed'
    BY <1>9 DEF RemoveEntry
  <2>5. doomed' = doomed \ {m}
    BY <1>9 DEF RemoveEntry
  <2> QED
    BY <2>1, <2>2, <2>3, <2>4, <2>5
<1>10. ASSUME NEW m \in Nodes, WriteSource(m)
       PROVE  SourceInv'
  <2>1. \A n \in Nodes : /\ src'[n] = IF n = m THEN New ELSE src[n]
                         /\ given'[n] = IF n = m THEN New ELSE given[n]
    BY <1>10, <1>0 DEF WriteSource, Tree
  <2>2. changes' \in [source : Nat, destination : Nat] /\ changes'.source # 0
    BY <1>10 DEF WriteSource
  <2> QED
    BY <2>1, <2>2
<1>11. CASE Cancel
  BY <1>11 DEF Cancel
<1>12. ASSUME NEW m \in Nodes, NEW what \in {"dir", Foreign}, CreateAtDestination(m, what)
       PROVE  SourceInv'
  <2>1. changes' \in [source : Nat, destination : Nat] /\ changes'.source = changes.source
    BY <1>12 DEF CreateAtDestination
  <2> QED
    BY <1>12, <2>1 DEF CreateAtDestination, Complete
<1>13. CASE UNCHANGED vars
  BY <1>13 DEF vars, Complete
<1> QED
  BY <1>1, <1>2, <1>3, <1>4, <1>5, <1>6, <1>7, <1>8, <1>9, <1>10, <1>11, <1>12, <1>13
     DEF Next, Transfer, Others

\* The steps that end the copy early leave nothing to account for.
LEMMA UnsoundEnds ==
  ASSUME cancelled' \/ (failed' /\ ~removalFailed')
  PROVE  ~Sound'
BY DEF Sound

\* Entering a directory: what is in it is before the copy instead of the directory,
\* which has arrived.
LEMMA AccountEnterDirectory ==
  ASSUME TypeInv, RetainInv, PositionInv, Accounted, EnterDirectory, Sound'
  PROVE  Accounted'
<1> USE DEF treeVars, Worker
<1>1. /\ src = given /\ src[node] = "dir" /\ pc = "enter" /\ given' = given /\ skipped' = skipped
      /\ node' = node /\ node \in Nodes /\ ~removalFailed /\ removalFailed' = removalFailed
      /\ dst' = [dst EXCEPT ![node] = "dir"] /\ dst \in Tree /\ stack \in Seq(Frame)
  BY DEF EnterDirectory, RetainInv, TypeInv, TypeOK, PositionInv
<1>2. \A n \in Nodes : Spared(n) => Spared(n)'
  BY <1>1 DEF Spared
<1>3. \A n \in Nodes : dst[n] = given[n] \/ n = node => dst'[n] = given'[n]
  BY <1>1 DEF Tree
<1>4. CASE stack' = <<[node |-> node, todo |-> Children(node)]>> \o stack /\ pc' = "loop"
           /\ NothingFailed
  <2>1. Children(node) \subseteq ToDo'
    <3>1. 1 \in DOMAIN stack' /\ stack'[1] = [node |-> node, todo |-> Children(node)]
      BY <1>1, <1>4
    <3>2. stack'[1].todo = Children(node)
      BY <3>1
    <3> QED
      BY <3>1, <3>2, ChildrenAreNodes DEF ToDo
  <2>2. ToDo \subseteq ToDo'
    <3> SUFFICES ASSUME NEW m \in ToDo PROVE m \in ToDo'
      OBVIOUS
    <3>1. PICK i \in DOMAIN stack : m \in stack[i].todo
      BY DEF ToDo
    <3>2. i + 1 \in DOMAIN stack' /\ stack'[i + 1] = stack[i]
      BY <1>1, <1>4, <3>1
    <3> QED
      BY <3>1, <3>2 DEF ToDo
  <2>3. nested' = nested
    BY <1>4 DEF NothingFailed
  <2>4. ASSUME NEW S \in SUBSET Nodes, Closed(S), Remaining' \subseteq S
        PROVE  Closed(S \cup {node}) /\ Remaining \subseteq S \cup {node}
    <3>1. Children(node) \subseteq S
      BY <2>1, <2>4 DEF Remaining
    <3>2. Closed(S \cup {node})
      BY <3>1, <2>4 DEF Closed, Children
    <3>3. Remaining \subseteq S \cup {node}
      BY <1>1, <2>2, <2>3, <2>4 DEF Remaining, AtHand
    <3> QED
      BY <3>2, <3>3
  <2>5. {node} \in SUBSET Nodes /\ \A n \in {node} : Spared(n)' \/ dst'[n] = given'[n]
    BY <1>1, <1>3
  <2> QED
    BY <1>2, <1>3, <2>4, <2>5, AccountKept, Zenon
<1>5. CASE Fail(node) /\ pc' = After(stack) /\ UNCHANGED stack
  <2>1. node # Root /\ nested' = nested \cup {node}
    BY <1>1, <1>5, UnsoundEnds DEF Fail
  <2>2. ToDo' = ToDo
    BY <1>5 DEF ToDo
  <2>3. Remaining \subseteq Remaining'
    BY <1>1, <2>1, <2>2 DEF Remaining, AtHand
  <2>4. {} \in SUBSET Nodes /\ \A n \in {} : Spared(n)' \/ dst'[n] = given'[n]
    OBVIOUS
  <2>5. ASSUME NEW S \in SUBSET Nodes, Closed(S), Remaining' \subseteq S
        PROVE  Closed(S \cup {}) /\ Remaining \subseteq S \cup {}
    <3>1. S \cup {} = S
      OBVIOUS
    <3> QED
      BY <3>1, <2>3, <2>5
  <2> QED
    BY <1>2, <1>3, <2>4, <2>5, AccountKept, Zenon
<1> QED
  BY <1>4, <1>5 DEF EnterDirectory

\* What readdir returned is there or gone; what is there is entered or reported.
LEMMA AccountNextChild ==
  ASSUME TypeInv, RetainInv, PositionInv, Accounted, NEW n \in Nodes, NextChild(n)
  PROVE  Accounted'
<1> USE DEF treeVars, Worker
<1>1. /\ src = given /\ pc = "loop" /\ given' = given /\ dst' = dst /\ nested' = nested
      /\ skipped \subseteq skipped' /\ stack \in Seq(Frame) /\ stack # <<>>
      /\ stack' = [stack EXCEPT ![1].todo = @ \ {n}]
  BY DEF NextChild, RetainInv, TypeInv, TypeOK, Placed, Skip
<1>2. \A m \in ToDo : m \in ToDo' \/ m = n
  BY <1>1, ToDoOfStack
<1>3. CASE Exists(src, n)
  <2>1. n \in Remaining'
    BY <1>1, <1>3 DEF NextChild, Remaining, AtHand, Skip
  <2>2. Remaining \subseteq Remaining'
    BY <1>1, <1>2, <2>1 DEF Remaining, AtHand
  <2> QED
    BY <1>1, <2>2, AccountGrows
<1>4. CASE ~Exists(src, n)
  <2> DEFINE Gone == {m \in Nodes : given[m] \in {"absent"} \cup Contents /\ Spared(m)}
  <2>1. Remaining \subseteq Remaining' \cup {n}
    BY <1>1, <1>2 DEF Remaining, AtHand
  <2>2. n \in Gone
    BY <1>1, <1>4 DEF Exists, Spared
  <2>3. \A m \in Nodes \ {Root} : Parent(m) \in Gone => m \in Gone
    <3> SUFFICES ASSUME NEW m \in Nodes \ {Root}, Parent(m) \in Gone PROVE m \in Gone
      OBVIOUS
    <3>1. Spared(m)
      BY <1>1, SparedBelow
    <3>2. given[m] \in {"absent"} \cup Contents
      BY <3>1 DEF Spared, Contents
    <3> QED
      BY <3>1, <3>2
  <2>4. ASSUME NEW S \in SUBSET Nodes, Closed(S), Remaining' \subseteq S
        PROVE  Closed(S \cup Gone) /\ Remaining \subseteq S \cup Gone
    <3>1. Closed(S \cup Gone)
      BY <2>3, <2>4 DEF Closed
    <3>2. Remaining \subseteq S \cup Gone
      BY <2>1, <2>2, <2>4
    <3> QED
      BY <3>1, <3>2
  <2>5. \A m \in Nodes : Spared(m) => Spared(m)'
    BY <1>1 DEF Spared
  <2>6. \A m \in Nodes : dst[m] = given[m] => Spared(m)' \/ dst'[m] = given'[m]
    BY <1>1
  <2>7. Gone \in SUBSET Nodes /\ \A m \in Gone : Spared(m)' \/ dst'[m] = given'[m]
    BY <2>5
  <2> HIDE DEF Gone
  <2> QED
    BY <2>4, <2>5, <2>6, <2>7, AccountKept, Zenon
<1> QED
  BY <1>3, <1>4

\* A directory is left with all of it before the copy no more, or is reported.
LEMMA AccountLeaveDirectory ==
  ASSUME TypeInv, RetainInv, PositionInv, Accounted, LeaveDirectory
  PROVE  Accounted'
<1> USE DEF treeVars, Worker
<1>1. /\ pc = "loop" /\ given' = given /\ dst' = dst /\ node' = node
      /\ skipped' = skipped /\ stack \in Seq(Frame) /\ stack # <<>>
      /\ stack' = Tail(stack) /\ pc' \in {"copied", "loop"}
  BY DEF LeaveDirectory, TypeInv, TypeOK, Placed, After
<1>2. \A m \in ToDo : m \in ToDo' \/ m \in stack[1].todo
  BY <1>1, ToDoOfStack
<1>3. stack[1].todo \subseteq Children(stack[1].node)
  BY <1>1 DEF PositionInv, OpenInv
<1>4. \A m \in Nodes : Spared(m) => Spared(m)'
  BY <1>1 DEF Spared
<1>5. \A m \in Nodes : dst[m] = given[m] => Spared(m)' \/ dst'[m] = given'[m]
  BY <1>1
<1>6. nested \subseteq nested'
  BY DEF LeaveDirectory, NothingFailed
<1>7. ASSUME NEW S \in SUBSET Nodes, Closed(S), Remaining' \subseteq S
      PROVE  Closed(S \cup {}) /\ Remaining \subseteq S \cup {}
  <2>1. stack[1].todo \subseteq S
    <3>1. CASE stack[1].todo = {}
      BY <3>1
    <3>2. CASE nested' = nested \cup {stack[1].node}
      <4>1. stack[1].node \in S
        BY <1>7, <3>2 DEF Remaining
      <4>2. Children(stack[1].node) \subseteq S
        BY <1>7, <4>1 DEF Closed, Children
      <4> QED
        BY <1>3, <4>2
    <3> QED
      BY <3>1, <3>2 DEF LeaveDirectory
  <2>2. Remaining \subseteq S
    BY <1>1, <1>2, <1>6, <1>7, <2>1 DEF Remaining, AtHand
  <2>3. S \cup {} = S
    OBVIOUS
  <2> QED
    BY <1>7, <2>2, <2>3
<1>8. {} \in SUBSET Nodes /\ \A m \in {} : Spared(m)' \/ dst'[m] = given'[m]
  OBVIOUS
<1> QED
  BY <1>4, <1>5, <1>7, <1>8, AccountKept, Zenon

\* A file placed has arrived, or was written to meanwhile; nothing is below it.
LEMMA AccountPlaced ==
  ASSUME TypeInv, RetainInv, PositionInv, Accounted, CommitTemporary, ~cancel,
         dst' = [dst EXCEPT ![node] = buffer], UNCHANGED <<stack, failed, nested>>
  PROVE  Accounted'
<1> USE DEF treeVars, Worker
<1>1. /\ src = given /\ pc = "commit" /\ given' = given /\ node' = node /\ node \in Nodes
      /\ skipped' = skipped /\ dst \in Tree /\ src[node] \in Contents
      /\ buffer = given[node] \/ given[node] = New
  BY DEF CommitTemporary, RetainInv, TypeInv, TypeOK, PositionInv
<1> DEFINE Below == {m \in Nodes : m = node \/ given[m] \in {"absent", New}}
<1>2. ToDo' = ToDo
  BY DEF ToDo
<1>3. \A m \in Nodes : Spared(m) => Spared(m)'
  BY <1>1 DEF Spared
<1>4. \A m \in Nodes : dst[m] = given[m] \/ m = node => Spared(m)' \/ dst'[m] = given'[m]
  BY <1>1 DEF Tree, Spared
<1>5. \A m \in Nodes \ {Root} : Parent(m) \in Below => m \in Below
  <2> SUFFICES ASSUME NEW m \in Nodes \ {Root}, Parent(m) \in Below PROVE m \in Below
    OBVIOUS
  <2>1. given[Parent(m)] \in {"absent"} \cup Contents
    BY <1>1 DEF Contents
  <2>2. Spared(m)
    BY <1>1, <2>1, SparedBelow
  <2> QED
    BY <2>2 DEF Spared
<1>6. \A S \in SUBSET Nodes :
        Closed(S) /\ Remaining' \subseteq S =>
          Closed(S \cup Below) /\ Remaining \subseteq S \cup Below
  <2> SUFFICES ASSUME NEW S \in SUBSET Nodes, Closed(S), Remaining' \subseteq S
               PROVE  Closed(S \cup Below) /\ Remaining \subseteq S \cup Below
    OBVIOUS
  <2>1. Closed(S \cup Below)
    BY <1>5 DEF Closed
  <2>2. Remaining \subseteq S \cup Below
    BY <1>1, <1>2 DEF Remaining, AtHand
  <2> QED
    BY <2>1, <2>2
<1>7. Below \in SUBSET Nodes /\ \A m \in Below : Spared(m)' \/ dst'[m] = given'[m]
  BY <1>1, <1>4 DEF Spared
<1> HIDE DEF Below
<1> QED
  BY <1>3, <1>4, <1>6, <1>7, AccountKept, Zenon

\* A result that is sound behind a failure is that of a directory around it.
LEMMA FailureInside ==
  ASSUME Fail(node), Sound', ~removalFailed'
  PROVE  ~failed /\ nested' = nested \cup {node}
<1>1. ~failed'
  BY DEF Sound
<1>2. ~failed /\ node # Root
  BY <1>1, Zenon DEF Fail
<1> QED
  BY <1>2 DEF Fail

\* Every step that leaves the result sound leaves it true.
LEMMA AccountStep ==
  ASSUME TypeInv, RetainInv, PositionInv, SourceInv, Sound => Accounted, [Next]_vars, Sound'
  PROVE  Accounted'
<1> USE DEF treeVars, callVars, resultVars, Worker
<1>r. /\ pc \notin {"remove", "done"} => ~removalFailed
      /\ failed \in BOOLEAN /\ cancelled \in BOOLEAN
      /\ failed' \in BOOLEAN /\ cancelled' \in BOOLEAN
  BY TypeStep DEF PositionInv, TypeInv, TypeOK
<1>1. Sound /\ Accounted
  <2>1. Sound
    <3>1. CASE Start \/ CrossDevice \/ Restart \/ Rename
      BY <3>1, <1>r DEF Start, CrossDevice, Restart, Rename, Sound
    <3>10. CASE EndCopy
      BY <3>10, <1>r DEF EndCopy, Sound
    <3>2. CASE EndRemoval
      BY <3>2 DEF EndRemoval, Sound, RetainInv
    <3>3. CASE EnterCancelled \/ LoopCancelled \/ LeaveDirectory \/ OpenFile
      BY <3>3 DEF EnterCancelled, LoopCancelled, LeaveDirectory, OpenFile, CancelEverything,
                  NothingFailed, Sound
    <3>4. CASE EnterFails \/ EnterDirectory \/ StreamFile \/ CommitTemporary
      <4>1. ~removalFailed /\ removalFailed' = removalFailed
        BY <3>4, <1>r DEF EnterFails, EnterDirectory, StreamFile, CommitTemporary
      <4>2. \/ Fail(node) /\ cancelled' = cancelled
            \/ failed' = failed /\ cancelled' = cancelled
            \/ cancelled'
        BY <3>4 DEF EnterFails, EnterDirectory, StreamFile, CommitTemporary, CancelEverything,
                    NothingFailed
      <4>3. Fail(node) => ~failed
        BY <4>1, FailureInside
      <4> QED
        BY <4>1, <4>2, <4>3, <1>r DEF Sound
    <3>5. CASE \E n \in Nodes : NextChild(n) \/ WriteSource(n)
      BY <3>5 DEF NextChild, WriteSource, Sound
    <3>6. ASSUME NEW n \in Nodes, RemoveEntry(n)
          PROVE  Sound
      BY <3>6 DEF RemoveEntry, RetainInv, Sound
    <3>7. CASE Cancel
      BY <3>7 DEF Cancel, Sound
    <3>8. ASSUME NEW n \in Nodes, NEW what \in {"dir", Foreign}, CreateAtDestination(n, what)
          PROVE  Sound
      BY <3>8 DEF CreateAtDestination, Sound
    <3>9. CASE UNCHANGED vars
      BY <3>9 DEF vars, Sound
    <3> QED
      BY <3>1, <3>2, <3>3, <3>4, <3>5, <3>6, <3>7, <3>8, <3>9, <3>10 DEF Next, Transfer, Others
  <2> QED
    BY <2>1
<1>0. /\ pc \in {"start", "rename", "restart"} => node = Root
      /\ pc \notin {"remove", "done"} => src = given /\ ~removalFailed
      /\ pc \notin {"enter", "loop", "stream", "commit"} => stack = <<>>
      /\ dst \in Tree /\ src \in Tree /\ given \in Tree
  BY DEF PositionInv, RetainInv, TypeInv, TypeOK
<1>s. stack' = stack => ToDo' = ToDo
  BY DEF ToDo
<1>2. CASE Start \/ CrossDevice \/ Restart
  <2>1. /\ UNCHANGED <<dst, given, node, stack, skipped, nested, removalFailed>>
        /\ pc \in {"start", "rename", "restart"} /\ ~removalFailed
    BY <1>0, <1>2 DEF Start, CrossDevice, Restart
  <2>2. pc' \in {"rename", "restart", "enter"}
    BY <1>2, <2>1 DEF Start, CrossDevice, Restart, Sound
  <2>3. Remaining \subseteq Remaining'
    BY <1>s, <2>1, <2>2 DEF Remaining, AtHand
  <2> QED
    BY <1>1, <2>1, <2>3, AccountGrows
<1>3. CASE Rename
  <2>1. dst' = src /\ given' = given /\ src = given
    BY <1>0, <1>3 DEF Rename, Sound
  <2> QED
    BY <2>1 DEF Accounted
<1>4. CASE EnterCancelled \/ LoopCancelled
  BY <1>4, UnsoundEnds DEF EnterCancelled, LoopCancelled, CancelEverything
<1>5. CASE EnterFails
  <2>1. /\ UNCHANGED <<dst, given, node, stack, skipped, removalFailed>>
        /\ ~removalFailed /\ pc = "enter"
    BY <1>0, <1>5 DEF EnterFails
  <2>2. nested' = nested \cup {node}
    BY <1>5, <2>1, FailureInside DEF EnterFails
  <2>3. Remaining \subseteq Remaining'
    BY <1>s, <2>1, <2>2 DEF Remaining, AtHand
  <2> QED
    BY <1>1, <2>1, <2>3, AccountGrows
<1>6. CASE EnterDirectory
  BY <1>1, <1>6, AccountEnterDirectory
<1>7. CASE OpenFile
  <2>1. /\ UNCHANGED <<dst, given, node, stack, skipped, nested>>
        /\ pc = "enter" /\ pc' = "stream"
    BY <1>7 DEF OpenFile
  <2>2. Remaining \subseteq Remaining'
    BY <1>s, <2>1 DEF Remaining, AtHand
  <2> QED
    BY <1>1, <2>1, <2>2, AccountGrows
<1>8. CASE StreamFile
  <2>1. /\ UNCHANGED <<dst, given, node, skipped, removalFailed>>
        /\ pc = "stream" /\ ~removalFailed
    BY <1>0, <1>8 DEF StreamFile
  <2>2. /\ stack' = stack
        /\ \/ nested' = nested /\ pc' = "commit"
           \/ nested' = nested \cup {node}
    <3>1. ~cancelled' /\ (Fail(node) => nested' = nested \cup {node})
      BY <2>1, FailureInside DEF Sound
    <3> QED
      BY <1>8, <3>1 DEF StreamFile, CancelEverything, NothingFailed
  <2>3. Remaining \subseteq Remaining'
    BY <1>s, <2>1, <2>2 DEF Remaining, AtHand
  <2> QED
    BY <1>1, <2>1, <2>3, AccountGrows
<1>9. CASE CommitTemporary
  <2>1. /\ UNCHANGED <<given, node, skipped, removalFailed>>
        /\ pc = "commit" /\ ~removalFailed
    BY <1>0, <1>9 DEF CommitTemporary
  <2>2. /\ ~cancel
        /\ \/ dst' = [dst EXCEPT ![node] = buffer] /\ UNCHANGED <<stack, failed, nested>>
           \/ UNCHANGED <<dst, stack>> /\ nested' = nested \cup {node}
    <3>1. ~cancelled' /\ (Fail(node) => nested' = nested \cup {node})
      BY <2>1, FailureInside DEF Sound
    <3> QED
      BY <1>9, <3>1 DEF CommitTemporary, CancelEverything, NothingFailed
  <2>3. CASE dst' = [dst EXCEPT ![node] = buffer] /\ UNCHANGED <<stack, failed, nested>>
    BY <1>1, <1>9, <2>2, <2>3, AccountPlaced
  <2>4. CASE UNCHANGED <<dst, stack>> /\ nested' = nested \cup {node}
    <3>1. Remaining \subseteq Remaining'
      BY <1>s, <2>1, <2>4 DEF Remaining, AtHand
    <3> QED
      BY <1>1, <2>1, <2>4, <3>1, AccountGrows
  <2> QED
    BY <2>2, <2>3, <2>4
<1>10. CASE LeaveDirectory
  BY <1>1, <1>10, AccountLeaveDirectory
<1>11. ASSUME NEW n \in Nodes, NextChild(n)
       PROVE  Accounted'
  BY <1>1, <1>11, AccountNextChild
<1>12. CASE EndCopy \/ EndRemoval \/ Cancel \/ UNCHANGED vars
  <2>1. UNCHANGED <<dst, given, node, stack, skipped, nested>>
    BY <1>12 DEF EndCopy, EndRemoval, Cancel, vars
  <2>2. pc' = pc \/ pc \in {"copied", "remove"}
    BY <1>12 DEF EndCopy, EndRemoval, Cancel, vars
  <2>3. Remaining \subseteq Remaining'
    BY <1>s, <2>1, <2>2 DEF Remaining, AtHand
  <2> QED
    BY <1>1, <2>1, <2>3, AccountGrows
<1>13. ASSUME NEW n \in Nodes, RemoveEntry(n)
       PROVE  Accounted'
  <2>1. UNCHANGED <<pc, dst, given, node, stack, skipped, nested>>
    BY <1>13 DEF RemoveEntry
  <2>2. Remaining \subseteq Remaining'
    BY <1>s, <2>1 DEF Remaining, AtHand
  <2> QED
    BY <1>1, <2>1, <2>2, AccountGrows
<1>14. ASSUME NEW m \in Nodes,
              WriteSource(m) \/ \E what \in {"dir", Foreign} : CreateAtDestination(m, what)
       PROVE  Accounted'
  <2>1. UNCHANGED <<pc, node, stack, skipped, nested>>
    BY <1>14 DEF WriteSource, CreateAtDestination
  <2>2. Remaining' = Remaining
    BY <1>s, <2>1 DEF Remaining, AtHand
  <2>3. \A n \in Nodes : given'[n] = given[n] \/ given'[n] = New
    BY <1>0, <1>14 DEF WriteSource, CreateAtDestination, Tree
  <2>4. \A n \in Nodes : dst'[n] = dst[n] \/ dst[n] = "absent"
    BY <1>0, <1>14 DEF WriteSource, CreateAtDestination, Tree, Exists
  <2> QED
    BY <1>1, <2>2, <2>3, <2>4 DEF Accounted, Spared, Closed
<1> QED
  BY <1>2, <1>3, <1>4, <1>5, <1>6, <1>7, <1>8, <1>9, <1>10, <1>11, <1>12, <1>13, <1>14
     DEF Next, Transfer, Others

\* A removal takes only what has arrived, or was written to meanwhile.
LEMMA LossStep ==
  ASSUME TypeInv, RetainInv, ArrivalInv, [Next]_vars
  PROVE  OnlyChangesLost'
<1> USE DEF OnlyChangesLost, treeVars, callVars, resultVars, Worker
<1>0. /\ \A n \in lost : given[n] = New
      /\ lost \subseteq Nodes /\ given \in Tree /\ src \in Tree
  BY DEF ArrivalInv, TypeInv, TypeOK
<1>1. ASSUME NEW n \in Nodes, RemoveEntry(n)
      PROVE  OnlyChangesLost'
  <2>1. given' = given /\ pc = "remove"
    BY <1>1 DEF RemoveEntry
  <2>2. Remaining = {} /\ Sound
    BY <2>1 DEF Remaining, AtHand, ToDo, ArrivalInv, PositionInv, RetainInv, Sound
  <2>3. Closed({})
    BY DEF Closed
  <2>4. Spared(n) \/ dst[n] = given[n]
    BY <2>2, <2>3 DEF ArrivalInv, Accounted
  <2>5. src[n] \in {given[n], "absent"}
    BY DEF ArrivalInv, SourceInv
  <2>6. src[n] \in Contents /\ dst[n] # src[n] => given[n] = New
    BY <2>4, <2>5, ContentsApart DEF Spared
  <2> QED
    BY <1>0, <1>1, <2>1, <2>6 DEF RemoveEntry
<1>2. ASSUME NEW n \in Nodes, WriteSource(n)
      PROVE  OnlyChangesLost'
  BY <1>0, <1>2 DEF WriteSource, Tree
<1>3. ASSUME NEW n \in Nodes,
             NextChild(n) \/ \E what \in {"dir", Foreign} : CreateAtDestination(n, what)
      PROVE  OnlyChangesLost'
  BY <1>0, <1>3 DEF NextChild, CreateAtDestination
<1>4. CASE Start \/ Rename \/ CrossDevice \/ Restart \/ EndCopy \/ EndRemoval \/ Cancel
  BY <1>0, <1>4 DEF Start, Rename, CrossDevice, Restart, EndCopy, EndRemoval, Cancel
<1>5. CASE EnterCancelled \/ LoopCancelled \/ EnterFails \/ EnterDirectory \/ OpenFile
  BY <1>0, <1>5 DEF EnterCancelled, LoopCancelled, EnterFails, EnterDirectory, OpenFile
<1>6. CASE LeaveDirectory \/ StreamFile \/ CommitTemporary
  BY <1>0, <1>6 DEF LeaveDirectory, StreamFile, CommitTemporary
<1>7. CASE UNCHANGED vars
  BY <1>0, <1>7 DEF vars
<1> QED
  BY <1>1, <1>2, <1>3, <1>4, <1>5, <1>6, <1>7 DEF Next, Transfer, Others

ArrivalsInv == TypeInv /\ RetainInv /\ ArrivalInv

LEMMA ArrivalInit == Init => ArrivalsInv
<1> SUFFICES ASSUME Init PROVE ArrivalsInv
  OBVIOUS
<1>1. RetainInv
  BY DEF Init, RetainInv, SourceRetained
<1>2. PositionInv
  BY DEF Init, PositionInv, OpenInv
<1>3. \A n \in Nodes : given[n] # New
  BY ContentAssumption DEF Init, Trees
<1>4. SourceInv
  BY <1>3 DEF Init, SourceInv
<1>5. Accounted
  <2> SUFFICES ASSUME NEW S \in SUBSET Nodes, Closed(S), Root \in S PROVE S = Nodes
    BY DEF Accounted, Remaining, AtHand, Init
  <2> QED
    BY TreeAssumption DEF Closed
<1>6. OnlyChangesLost
  BY DEF Init, OnlyChangesLost
<1> QED
  BY <1>1, <1>2, <1>4, <1>5, <1>6, TypeInit DEF ArrivalsInv, ArrivalInv

LEMMA ArrivalStep == ArrivalsInv /\ [Next]_vars => ArrivalsInv'
<1> SUFFICES ASSUME ArrivalsInv, [Next]_vars PROVE ArrivalsInv'
  OBVIOUS
<1>0. TypeInv /\ RetainInv /\ ArrivalInv /\ PositionInv /\ SourceInv
  BY DEF ArrivalsInv, ArrivalInv
<1>1. TypeInv'
  BY <1>0, TypeStep
<1>2. RetainInv'
  BY <1>0, RetainStep
<1>3. PositionInv'
  BY <1>0, PositionStep
<1>4. SourceInv'
  BY <1>0, SourceStep
<1>5. Sound' => Accounted'
  <2>1. Sound => Accounted
    BY <1>0 DEF ArrivalInv
  <2> QED
    BY <1>0, <2>1, AccountStep
<1>6. OnlyChangesLost'
  BY <1>0, LossStep
<1> QED
  BY <1>1, <1>2, <1>3, <1>4, <1>5, <1>6 DEF ArrivalsInv, ArrivalInv

\* REQ-F-038: whatever is cancelled, fails or is created at the destination, a move
\* removes no file of the source whose content has not arrived, unless it was written
\* to while the move ran.
THEOREM OnlyChangesAreLost == Spec => []OnlyChangesLost
<1>1. ArrivalsInv => OnlyChangesLost
  BY DEF ArrivalsInv, ArrivalInv
<1> QED
  BY <1>1, ArrivalInit, ArrivalStep, PTL DEF Spec

\* What is named, with all that is below it, is there to be named: the recursive
\* definition has the function it asks for.
LEMMA NamedIs ==
  \A n \in Nodes : Named[n] <=> n \in skipped \cup nested \/ (n # Root /\ Named[Parent(n)])
<1> DEFINE Reported == skipped \cup nested
           Covers(S) == Closed(S) /\ Reported \cap Nodes \subseteq S
           Least == {n \in Nodes : \A S \in SUBSET Nodes : Covers(S) => n \in S}
           F == [n \in Nodes |-> n \in Least]
           Next1 == {n \in Nodes : n \in Reported \/ (n # Root /\ Parent(n) \in Least)}
<1>1. Next1 \subseteq Least
  <2> SUFFICES ASSUME NEW n \in Next1, NEW S \in SUBSET Nodes, Covers(S) PROVE n \in S
    OBVIOUS
  <2> QED
    BY ParentInNodes DEF Closed
<1>2. Covers(Next1)
  <2>1. Closed(Next1)
    <3> SUFFICES ASSUME NEW n \in Nodes \ {Root}, Parent(n) \in Next1 PROVE n \in Next1
      BY DEF Closed
    <3>1. Parent(n) \in Least
      BY <1>1
    <3> QED
      BY <3>1
  <2> QED
    BY <2>1
<1>3. Least = Next1
  BY <1>1, <1>2
<1>4. \A n \in Nodes : n \in Least <=> n \in Reported \/ (n # Root /\ Parent(n) \in Least)
  BY <1>3
<1> HIDE DEF Least, Next1
<1>5. F = [n \in Nodes |-> n \in skipped \cup nested \/ (n # Root /\ F[Parent(n)])]
  <2>1. \A n \in Nodes : n # Root => F[Parent(n)] = (Parent(n) \in Least)
    BY ParentInNodes
  <2>2. ASSUME NEW n \in Nodes
        PROVE  (n \in Least) = (n \in skipped \cup nested \/ (n # Root /\ F[Parent(n)]))
    <3> HIDE DEF F
    <3>1. (n # Root /\ F[Parent(n)]) <=> (n # Root /\ Parent(n) \in Least)
      BY <2>1, Zenon
    <3>2. n \in Least <=> (n \in Reported \/ (n # Root /\ F[Parent(n)]))
      BY <3>1, <1>4, Zenon
    <3>3. CASE n \in Least
      BY <3>2, <3>3
    <3>4. CASE n \notin Least
      BY <3>2, <3>4
    <3> QED
      BY <3>3, <3>4
  <2> QED
    BY <2>2
<1> HIDE DEF F
<1>6. Named = [n \in Nodes |-> n \in skipped \cup nested \/ (n # Root /\ Named[Parent(n)])]
  BY <1>5 DEF Named
<1> QED
  BY <1>6

\* REQ-F-048: what the result names, with what is below it, is all of the source that
\* has not arrived, and a transfer reported complete did all of it, if nobody wrote to
\* the source meanwhile.
THEOREM ResultsAreTrue == Spec => []ResultIsTrue
<1>1. ArrivalsInv => EverythingAccounted
  <2> SUFFICES ASSUME ArrivalsInv, pc = "done", ~cancelled, failed => removalFailed,
                      changes.source = 0, NEW n \in Nodes
               PROVE  dst[n] = given[n] \/ ~Exists(given, n) \/ Named[n]
    BY DEF EverythingAccounted
  <2> DEFINE S == {m \in Nodes : Named[m]}
  <2>1. Accounted
    BY DEF ArrivalsInv, ArrivalInv, Sound
  <2>2. Closed(S)
    BY NamedIs, ParentInNodes DEF Closed
  <2>3. Remaining \subseteq S
    <3>1. Remaining = skipped \cup nested
      BY DEF Remaining, AtHand, ToDo, ArrivalsInv, ArrivalInv, PositionInv
    <3>2. skipped \cup nested \subseteq Nodes
      BY DEF ArrivalsInv, TypeInv, TypeOK
    <3> QED
      BY <3>1, <3>2, NamedIs
  <2>4. n \in S \/ Spared(n) \/ dst[n] = given[n]
    BY <2>1, <2>2, <2>3 DEF Accounted
  <2>5. given[n] # New
    BY DEF ArrivalsInv, ArrivalInv, SourceInv
  <2> QED
    BY <2>4, <2>5 DEF Spared, Exists
<1>2. ArrivalsInv => SuccessIsReal
  <2> SUFFICES ASSUME ArrivalsInv, pc = "done", Complete, changes.source = 0
               PROVE  /\ \A n \in Nodes : given[n] # "absent" => dst[n] = given[n]
                      /\ move => \A n \in Nodes : ~Exists(src, n)
    BY DEF SuccessIsReal
  <2>1. Accounted
    BY DEF ArrivalsInv, ArrivalInv, Sound, Complete
  <2>2. Closed({})
    BY DEF Closed
  <2>3. Remaining = {}
    BY DEF Remaining, AtHand, ToDo, ArrivalsInv, ArrivalInv, PositionInv, Complete
  <2>4. \A n \in Nodes : Spared(n) \/ dst[n] = given[n]
    BY <2>1, <2>2, <2>3 DEF Accounted
  <2>5. /\ \A n \in Nodes : given[n] # New
        /\ move => \A n \in Nodes : src[n] = "absent"
    BY DEF ArrivalsInv, ArrivalInv, SourceInv
  <2> QED
    BY <2>4, <2>5 DEF Spared, Exists
<1>3. ArrivalsInv => ResultIsTrue
  BY <1>1, <1>2 DEF ResultIsTrue
<1> QED
  BY <1>3, ArrivalInit, ArrivalStep, PTL DEF Spec

-----------------------------------------------------------------------------
(* The trash.  What makes every trashed item restorable is that a process  *)
(* between the creation of its information file and the rename holds that  *)
(* file alone, and that no file of the name is in files/: IInv says so of  *)
(* every process.                                                          *)

Busy == {"select", "choose", "open", "complete", "failed", "cancelled"} \cup Writing

\* What a process has found out at the step it is at.
HasPath(p) == phase[p] \in Busy => path[p] \in Paths
HasTrash(p) == phase[p] \in {"choose", "open"} \cup Writing => trash[p] \in Trashes
HasName(p) == phase[p] \in {"open"} \cup Writing => name[p] \in Names
HoldsInfo(p) ==
  phase[p] \in Writing =>
    name[p] \in DOMAIN infos[trash[p]] /\ name[p] \notin DOMAIN files[trash[p]]
HasSaid(p) == phase[p] \in {"check", "rename"} => infos[trash[p]][name[p]] = path[p]

\* An item is at no path but the one it was created at.
OwnPlace == \A e \in Paths : source[e] # None => PathOf[source[e]] = e

Locals == \A p \in Processes : HasPath(p) /\ HasTrash(p) /\ HasName(p) /\ HoldsInfo(p) /\ HasSaid(p)

IInv == TrashTypeOK /\ Locals /\ OwnPlace /\ Restorable /\ NameIsOwn /\ NoOrphanInfo

-----------------------------------------------------------------------------
(* A file that is added to a directory, or removed.                        *)

\* With adds one name to one directory.
LEMMA WithAdds ==
  ASSUME NEW f, NEW values, Stored(f, values), NEW t \in Trashes, NEW n \in Names, NEW v \in values
  PROVE  /\ Stored(With(f, t, n, v), values)
         /\ \A u \in Trashes : u # t => With(f, t, n, v)[u] = f[u]
         /\ DOMAIN With(f, t, n, v)[t] = DOMAIN f[t] \cup {n}
         /\ With(f, t, n, v)[t][n] = v
         /\ \A m \in DOMAIN f[t] : m # n => With(f, t, n, v)[t][m] = f[t][m]
<1> DEFINE W == With(f, t, n, v)
<1>1. f \in [Trashes -> Range(f)] /\ \A u \in Trashes : f[u] \in [DOMAIN f[u] -> values] /\ DOMAIN f[u] \subseteq Names
  BY DEF Stored
<1>2. W = [f EXCEPT ![t] = [m \in DOMAIN f[t] \cup {n} |-> IF m = n THEN v ELSE f[t][m]]]
  BY DEF With
<1>3. W = [u \in Trashes |-> W[u]] /\ \A u \in Trashes : u # t => W[u] = f[u]
  BY <1>1, <1>2
<1>4. W[t] = [m \in DOMAIN f[t] \cup {n} |-> IF m = n THEN v ELSE f[t][m]]
  BY <1>1, <1>2
<1>5. W \in [Trashes -> Range(W)]
  BY <1>3 DEF Range
<1>6. \A u \in Trashes : W[u] \in [DOMAIN W[u] -> values] /\ DOMAIN W[u] \subseteq Names
  BY <1>1, <1>3, <1>4
<1> QED
  BY <1>3, <1>4, <1>5, <1>6 DEF Stored

\* Lacking takes one name from one directory.
LEMMA LackingTakes ==
  ASSUME NEW f, NEW values, Stored(f, values), NEW t \in Trashes, NEW n
  PROVE  /\ Stored(Lacking(f, t, n), values)
         /\ \A u \in Trashes : u # t => Lacking(f, t, n)[u] = f[u]
         /\ DOMAIN Lacking(f, t, n)[t] = DOMAIN f[t] \ {n}
         /\ \A m \in DOMAIN f[t] : m # n => Lacking(f, t, n)[t][m] = f[t][m]
<1> DEFINE L == Lacking(f, t, n)
<1>1. f \in [Trashes -> Range(f)] /\ \A u \in Trashes : f[u] \in [DOMAIN f[u] -> values] /\ DOMAIN f[u] \subseteq Names
  BY DEF Stored
<1>2. L = [f EXCEPT ![t] = [m \in DOMAIN f[t] \ {n} |-> f[t][m]]]
  BY DEF Lacking, Restrict
<1>3. L = [u \in Trashes |-> L[u]] /\ \A u \in Trashes : u # t => L[u] = f[u]
  BY <1>1, <1>2
<1>4. L[t] = [m \in DOMAIN f[t] \ {n} |-> f[t][m]]
  BY <1>1, <1>2
<1>5. L \in [Trashes -> Range(L)]
  BY <1>3 DEF Range
<1>6. \A u \in Trashes : L[u] \in [DOMAIN L[u] -> values] /\ DOMAIN L[u] \subseteq Names
  BY <1>1, <1>3, <1>4
<1> QED
  BY <1>3, <1>4, <1>5, <1>6 DEF Stored

-----------------------------------------------------------------------------
(* The inductive invariant.                                                *)

\* The next step of a process, and nobody else's.
LEMMA GotoMoves ==
  ASSUME TrashTypeOK, NEW p \in Processes, NEW step \in Steps, Goto(p, step)
  PROVE  phase' \in [Processes -> Steps] /\ phase'[p] = step /\ \A q \in Processes : q # p => phase'[q] = phase[q]
BY DEF Goto, TrashTypeOK

\* The disk stays as it is: what processes know of it remains true, if the ones that
\* have an information file keep to their names and none is added.
LEMMA DiskStays ==
  ASSUME IInv, UNCHANGED <<source, files, infos>>, TrashTypeOK', excused \subseteq excused', NEW p \in Processes,
         \A q \in Processes : q # p =>
            phase'[q] = phase[q] /\ path'[q] = path[q] /\ trash'[q] = trash[q] /\ name'[q] = name[q],
         phase'[p] \in Writing => phase[p] \in Writing /\ trash'[p] = trash[p] /\ name'[p] = name[p],
         phase[p] \in Writing /\ phase'[p] \notin Writing => <<trash[p], name[p]>> \in excused',
         phase'[p] \in {"check", "rename"} => phase[p] \in {"check", "rename"} /\ path'[p] = path[p],
         HasPath(p)', HasTrash(p)', HasName(p)'
  PROVE  IInv'
<1>1. Locals'
  <2> SUFFICES ASSUME NEW q \in Processes
               PROVE  (HasPath(q) /\ HasTrash(q) /\ HasName(q) /\ HoldsInfo(q) /\ HasSaid(q))'
    BY DEF Locals
  <2>1. HasPath(q) /\ HasTrash(q) /\ HasName(q) /\ HoldsInfo(q) /\ HasSaid(q)
    BY DEF IInv, Locals
  <2>2. CASE q # p
    BY <2>1, <2>2 DEF HasPath, HasTrash, HasName, HoldsInfo, HasSaid
  <2>3. CASE q = p
    <3>1. HoldsInfo(p)'
      BY <2>1, <2>3 DEF HoldsInfo
    <3>2. HasSaid(p)'
      BY <2>1, <2>3 DEF HasSaid, Writing
    <3> QED
      BY <2>3, <3>1, <3>2
  <2> QED
    BY <2>2, <2>3
<1>2. OwnPlace' /\ Restorable'
  BY DEF IInv, OwnPlace, Restorable
<1>3. NameIsOwn'
  BY DEF IInv, NameIsOwn
<1>4. NoOrphanInfo'
  <2> SUFFICES ASSUME NEW t \in Trashes, NEW n \in DOMAIN infos[t] \ DOMAIN files[t],
                      <<t, n>> \notin excused'
               PROVE  \E q \in Processes : phase'[q] \in Writing /\ trash'[q] = t /\ name'[q] = n
    BY DEF NoOrphanInfo
  <2>1. PICK q \in Processes : phase[q] \in Writing /\ trash[q] = t /\ name[q] = n
    BY DEF IInv, NoOrphanInfo
  <2>2. phase'[q] \in Writing /\ trash'[q] = t /\ name'[q] = n
    BY <2>1
  <2> QED
    BY <2>2
<1> QED
  BY <1>1, <1>2, <1>3, <1>4 DEF IInv

\* The steps of a process that leave the disk alone.
LEMMA QuietSteps ==
  ASSUME IInv, NEW p \in Processes,
         Call(p) \/ SelectTrashDir(p) \/ UniqueTrashName(p) \/ CheckCancel(p) \/ Return(p) \/ CancelTrashing(p) \/ Die(p)
  PROVE  IInv'
<1>0. TrashTypeOK /\ HasPath(p) /\ HasTrash(p) /\ HasName(p)
  BY DEF IInv, Locals
<1> USE DEF diskVars, Goto, Steps, Writing, Busy
<1>1. CASE Call(p)
  <2>1. TrashTypeOK'
    BY <1>0, <1>1 DEF TrashTypeOK, Call
  <2>2. /\ UNCHANGED <<source, files, infos, excused, trash, name>>
        /\ phase'[p] \in {"select", "cancelled"} /\ phase[p] = "idle" /\ path'[p] \in Paths
        /\ \A q \in Processes : q # p => phase'[q] = phase[q] /\ path'[q] = path[q]
    BY <1>0, <1>1 DEF TrashTypeOK, Call
  <2> QED
    BY <2>1, <2>2, DiskStays DEF HasPath, HasTrash, HasName
<1>2. CASE SelectTrashDir(p)
  <2>1. TrashTypeOK'
    BY <1>0, <1>2 DEF TrashTypeOK, SelectTrashDir, Trashes
  <2>2. /\ UNCHANGED <<source, files, infos, excused, path, name>>
        /\ phase[p] = "select" /\ phase'[p] \in {"failed", "choose"}
        /\ \A q \in Processes : q # p => phase'[q] = phase[q] /\ trash'[q] = trash[q]
    BY <1>0, <1>2 DEF TrashTypeOK, SelectTrashDir
  <2>3. ASSUME phase'[p] = "choose" PROVE trash'[p] \in Trashes
    BY <1>0, <1>2, <2>3 DEF TrashTypeOK, SelectTrashDir, Trashes
  <2> QED
    BY <1>0, <2>1, <2>2, <2>3, DiskStays DEF HasPath, HasTrash, HasName
<1>3. CASE UniqueTrashName(p)
  <2>1. path[p] \in Paths /\ BaseName[path[p]] \in Range(BaseName)
    BY <1>0, <1>3, TrashAssumption DEF UniqueTrashName, HasPath, Range
  <2>2. PICK k \in 1 .. MaxAttempts : name' = [name EXCEPT ![p] = <<BaseName[path[p]], k>>]
    BY <1>3 DEF UniqueTrashName
  <2>3. <<BaseName[path[p]], k>> \in Names
    BY <2>1 DEF Names
  <2>4. TrashTypeOK'
    BY <1>0, <1>3, <2>2, <2>3 DEF TrashTypeOK, UniqueTrashName
  <2>5. /\ UNCHANGED <<source, files, infos, excused, path, trash>>
        /\ phase[p] = "choose" /\ phase'[p] = "open" /\ name'[p] \in Names
        /\ \A q \in Processes : q # p => phase'[q] = phase[q] /\ name'[q] = name[q]
    BY <1>0, <1>3, <2>2, <2>3 DEF TrashTypeOK, UniqueTrashName
  <2> QED
    BY <1>0, <2>4, <2>5, DiskStays DEF HasPath, HasTrash, HasName
<1>4. CASE CheckCancel(p)
  <2>1. TrashTypeOK'
    BY <1>0, <1>4 DEF TrashTypeOK, CheckCancel
  <2>2. /\ UNCHANGED <<source, files, infos, excused, path, trash, name>>
        /\ phase[p] = "check" /\ phase'[p] \in {"undo", "rename"}
        /\ \A q \in Processes : q # p => phase'[q] = phase[q]
    BY <1>0, <1>4 DEF TrashTypeOK, CheckCancel
  <2> QED
    BY <1>0, <2>1, <2>2, DiskStays DEF HasPath, HasTrash, HasName
<1>5. CASE Return(p)
  <2>1. TrashTypeOK'
    BY <1>0, <1>5 DEF TrashTypeOK, Return, Forget
  <2>2. /\ UNCHANGED <<source, files, infos, excused>>
        /\ phase[p] \in {"complete", "failed", "cancelled"} /\ phase'[p] = "idle"
        /\ \A q \in Processes : q # p =>
             phase'[q] = phase[q] /\ path'[q] = path[q] /\ trash'[q] = trash[q] /\ name'[q] = name[q]
    BY <1>0, <1>5 DEF TrashTypeOK, Return, Forget
  <2> QED
    BY <2>1, <2>2, DiskStays DEF HasPath, HasTrash, HasName
<1>6. CASE CancelTrashing(p)
  <2>1. TrashTypeOK'
    BY <1>0, <1>6 DEF TrashTypeOK, CancelTrashing
  <2>2. UNCHANGED <<source, files, infos, excused, phase, path, trash, name>>
    BY <1>6 DEF CancelTrashing
  <2> QED
    BY <1>0, <2>1, <2>2, DiskStays DEF HasPath, HasTrash, HasName
<1>7. CASE Die(p)
  <2>1. TrashTypeOK'
    BY <1>0, <1>7 DEF TrashTypeOK, Die, Forget, HasTrash, HasName
  <2>2. /\ UNCHANGED <<source, files, infos>> /\ excused \subseteq excused' /\ phase'[p] = "dead"
        /\ phase[p] \in Writing => <<trash[p], name[p]>> \in excused'
        /\ \A q \in Processes : q # p =>
             phase'[q] = phase[q] /\ path'[q] = path[q] /\ trash'[q] = trash[q] /\ name'[q] = name[q]
    BY <1>0, <1>7 DEF TrashTypeOK, Die, Forget
  <2> QED
    BY <2>1, <2>2, DiskStays DEF HasPath, HasTrash, HasName
<1> QED
  BY <1>1, <1>2, <1>3, <1>4, <1>5, <1>6, <1>7

\* What a process knows of its files is not touched by what another does to the files
\* of another name.
LEMMA OthersKeep ==
  ASSUME IInv, NEW t, NEW n, NEW q \in Processes,
         phase'[q] = phase[q], path'[q] = path[q], trash'[q] = trash[q], name'[q] = name[q],
         phase[q] \in Writing => <<trash[q], name[q]>> # <<t, n>>,
         \A u \in Trashes : \A m \in Names : <<u, m>> # <<t, n>> =>
            /\ m \in DOMAIN infos[u] => m \in DOMAIN infos'[u] /\ infos'[u][m] = infos[u][m]
            /\ m \in DOMAIN files'[u] => m \in DOMAIN files[u]
  PROVE  HasPath(q)' /\ HasTrash(q)' /\ HasName(q)' /\ HoldsInfo(q)' /\ HasSaid(q)'
<1>1. HasPath(q) /\ HasTrash(q) /\ HasName(q) /\ HoldsInfo(q) /\ HasSaid(q)
  BY DEF IInv, Locals
<1>2. HasPath(q)' /\ HasTrash(q)' /\ HasName(q)'
  BY <1>1 DEF HasPath, HasTrash, HasName
<1>3. phase[q] \in Writing =>
        /\ name[q] \in DOMAIN infos'[trash[q]] /\ name[q] \notin DOMAIN files'[trash[q]]
        /\ infos'[trash[q]][name[q]] = infos[trash[q]][name[q]]
  BY <1>1 DEF HasTrash, HasName, HoldsInfo
<1>4. HoldsInfo(q)' /\ HasSaid(q)'
  BY <1>1, <1>3 DEF HoldsInfo, HasSaid, Writing
<1> QED
  BY <1>2, <1>4

\* The steps that write to the disk: the information file is created...
LEMMA OpenKeeps == ASSUME IInv, NEW p \in Processes, OpenTrashInfo(p) PROVE IInv'
<1> USE DEF Goto, Steps, Writing, Busy
<1>0. TrashTypeOK /\ HasPath(p) /\ HasTrash(p) /\ HasName(p)
  BY DEF IInv, Locals
<1> DEFINE t == trash[p] n == name[p]
<1>1. CASE UNCHANGED infos /\ Goto(p, "failed")
  <2>1. TrashTypeOK'
    BY <1>0, <1>1 DEF TrashTypeOK, OpenTrashInfo
  <2>2. /\ UNCHANGED <<source, files, infos, excused, path, trash, name>>
        /\ phase[p] = "open" /\ phase'[p] = "failed" /\ \A q \in Processes : q # p => phase'[q] = phase[q]
    BY <1>0, <1>1 DEF TrashTypeOK, OpenTrashInfo
  <2> QED
    BY <1>0, <2>1, <2>2, DiskStays DEF HasPath, HasTrash, HasName
<1>2. CASE n \notin DOMAIN infos[t] /\ infos' = With(infos, t, n, Torn) /\ Goto(p, "write")
  <2>1. /\ UNCHANGED <<source, files, excused, path, trash, name, flagged>> /\ phase[p] = "open"
        /\ phase'[p] = "write" /\ \A q \in Processes : q # p => phase'[q] = phase[q]
        /\ t \in Trashes /\ n \in Names /\ path[p] \in Paths
    BY <1>0, <1>2 DEF TrashTypeOK, OpenTrashInfo, HasTrash, HasName, HasPath
  <2>2. /\ Stored(infos', {Torn} \cup Paths) /\ \A u \in Trashes : u # t => infos'[u] = infos[u]
        /\ DOMAIN infos'[t] = DOMAIN infos[t] \cup {n}
        /\ \A m \in DOMAIN infos[t] : infos'[t][m] = infos[t][m]
    BY <1>0, <1>2, <2>1, WithAdds DEF TrashTypeOK
  <2>3. TrashTypeOK'
    BY <1>0, <1>2, <2>1, <2>2 DEF TrashTypeOK, Stored
  <2>4. n \notin DOMAIN files[t]
    BY <1>2, <2>1 DEF IInv, Restorable
  <2>5. \A q \in Processes : q # p /\ phase[q] \in Writing => <<trash[q], name[q]>> # <<t, n>>
    BY <1>2 DEF IInv, Locals, HoldsInfo
  <2>frame. \A u \in Trashes : \A m \in Names : <<u, m>> # <<t, n>> =>
            /\ m \in DOMAIN infos[u] => m \in DOMAIN infos'[u] /\ infos'[u][m] = infos[u][m]
            /\ m \in DOMAIN files'[u] => m \in DOMAIN files[u]
    BY <2>1, <2>2
  <2>6. Locals'
    <3>1. ASSUME NEW q \in Processes, q # p
          PROVE  HasPath(q)' /\ HasTrash(q)' /\ HasName(q)' /\ HoldsInfo(q)' /\ HasSaid(q)'
      BY <2>1, <2>5, <2>frame, <3>1, OthersKeep
    <3>2. HasPath(p)' /\ HasTrash(p)' /\ HasName(p)' /\ HoldsInfo(p)' /\ HasSaid(p)'
      BY <2>1, <2>2, <2>4 DEF HasPath, HasTrash, HasName, HoldsInfo, HasSaid
    <3> QED
      BY <3>1, <3>2 DEF Locals
  <2>7. OwnPlace' /\ Restorable'
    BY <2>1, <2>2 DEF IInv, OwnPlace, Restorable
  <2>8. NameIsOwn'
    BY <2>1, <2>5 DEF IInv, NameIsOwn
  <2>9. NoOrphanInfo'
    <3> SUFFICES ASSUME NEW u \in Trashes, NEW m \in DOMAIN infos'[u] \ DOMAIN files'[u],
                        <<u, m>> \notin excused'
                 PROVE  \E q \in Processes : phase'[q] \in Writing /\ trash'[q] = u /\ name'[q] = m
      BY Zenon DEF NoOrphanInfo
    <3>1. CASE <<u, m>> = <<t, n>>
      BY <2>1, <3>1
    <3>2. CASE <<u, m>> # <<t, n>>
      <4>1. m \in DOMAIN infos[u] \ DOMAIN files[u]
        BY <2>1, <2>2, <3>2
      <4>2. PICK q \in Processes : phase[q] \in Writing /\ trash[q] = u /\ name[q] = m
        BY <2>1, <4>1 DEF IInv, NoOrphanInfo
      <4> QED
        BY <2>1, <4>2
    <3> QED
      BY <3>1, <3>2
  <2> QED
    BY <2>3, <2>6, <2>7, <2>8, <2>9 DEF IInv
<1> QED
  BY <1>1, <1>2 DEF OpenTrashInfo, NewOnly

\* ... written...
LEMMA WriteKeeps == ASSUME IInv, NEW p \in Processes, WriteTrashInfo(p) PROVE IInv'
<1> USE DEF Goto, Steps, Writing, Busy
<1>0. TrashTypeOK /\ HasPath(p) /\ HasTrash(p) /\ HasName(p) /\ HoldsInfo(p)
  BY DEF IInv, Locals
<1> DEFINE t == trash[p] n == name[p]
<1>1. CASE UNCHANGED infos /\ Goto(p, "remove")
  <2>1. TrashTypeOK'
    BY <1>0, <1>1 DEF TrashTypeOK, WriteTrashInfo
  <2>2. /\ UNCHANGED <<source, files, infos, excused, path, trash, name>>
        /\ phase[p] = "write" /\ phase'[p] = "remove" /\ \A q \in Processes : q # p => phase'[q] = phase[q]
    BY <1>0, <1>1 DEF TrashTypeOK, WriteTrashInfo
  <2> QED
    BY <1>0, <2>1, <2>2, DiskStays DEF HasPath, HasTrash, HasName
<1>2. CASE infos' = With(infos, t, n, path[p]) /\ Goto(p, "check")
  <2>1. /\ UNCHANGED <<source, files, excused, path, trash, name, flagged>> /\ phase[p] = "write"
        /\ phase'[p] = "check" /\ \A q \in Processes : q # p => phase'[q] = phase[q]
        /\ t \in Trashes /\ n \in Names /\ path[p] \in Paths
        /\ n \in DOMAIN infos[t] /\ n \notin DOMAIN files[t]
    BY <1>0, <1>2 DEF TrashTypeOK, WriteTrashInfo, HasTrash, HasName, HasPath, HoldsInfo
  <2>2. /\ Stored(infos', {Torn} \cup Paths) /\ \A u \in Trashes : u # t => infos'[u] = infos[u]
        /\ DOMAIN infos'[t] = DOMAIN infos[t] /\ infos'[t][n] = path[p]
        /\ \A m \in DOMAIN infos[t] : m # n => infos'[t][m] = infos[t][m]
    <3>1. Stored(infos, {Torn} \cup Paths) /\ path[p] \in {Torn} \cup Paths
      BY <1>0, <2>1 DEF TrashTypeOK
    <3>2. /\ Stored(infos', {Torn} \cup Paths) /\ \A u \in Trashes : u # t => infos'[u] = infos[u]
          /\ DOMAIN infos'[t] = DOMAIN infos[t] \cup {n} /\ infos'[t][n] = path[p]
          /\ \A m \in DOMAIN infos[t] : m # n => infos'[t][m] = infos[t][m]
      BY <1>2, <2>1, <3>1, WithAdds
    <3> QED
      BY <2>1, <3>2
  <2>3. TrashTypeOK'
    BY <1>0, <1>2, <2>1, <2>2 DEF TrashTypeOK, Stored
  <2>4. \A q \in Processes : q # p /\ phase[q] \in Writing => <<trash[q], name[q]>> # <<t, n>>
    BY <2>1 DEF IInv, NameIsOwn
  <2>frame. \A u \in Trashes : \A m \in Names : <<u, m>> # <<t, n>> =>
            /\ m \in DOMAIN infos[u] => m \in DOMAIN infos'[u] /\ infos'[u][m] = infos[u][m]
            /\ m \in DOMAIN files'[u] => m \in DOMAIN files[u]
    BY <2>1, <2>2
  <2>5. Locals'
    <3>1. ASSUME NEW q \in Processes, q # p
          PROVE  HasPath(q)' /\ HasTrash(q)' /\ HasName(q)' /\ HoldsInfo(q)' /\ HasSaid(q)'
      BY <2>1, <2>4, <2>frame, <3>1, OthersKeep
    <3>2. HasPath(p)' /\ HasTrash(p)' /\ HasName(p)' /\ HoldsInfo(p)' /\ HasSaid(p)'
      BY <2>1, <2>2 DEF HasPath, HasTrash, HasName, HoldsInfo, HasSaid
    <3> QED
      BY <3>1, <3>2 DEF Locals
  <2>6. OwnPlace' /\ Restorable'
    BY <2>1, <2>2 DEF IInv, OwnPlace, Restorable
  <2>7. NameIsOwn'
    BY <2>1 DEF IInv, NameIsOwn
  <2>8. NoOrphanInfo'
    <3> SUFFICES ASSUME NEW u \in Trashes, NEW m \in DOMAIN infos'[u] \ DOMAIN files'[u],
                        <<u, m>> \notin excused'
                 PROVE  \E q \in Processes : phase'[q] \in Writing /\ trash'[q] = u /\ name'[q] = m
      BY Zenon DEF NoOrphanInfo
    <3>1. m \in DOMAIN infos[u] \ DOMAIN files[u]
      BY <2>1, <2>2
    <3>2. PICK q \in Processes : phase[q] \in Writing /\ trash[q] = u /\ name[q] = m
      BY <2>1, <3>1 DEF IInv, NoOrphanInfo
    <3> QED
      BY <2>1, <3>2
  <2> QED
    BY <2>3, <2>5, <2>6, <2>7, <2>8 DEF IInv
<1> QED
  BY <1>1, <1>2 DEF WriteTrashInfo

\* ... the entry is renamed, or not...
LEMMA RenameKeeps == ASSUME IInv, NEW p \in Processes, RenameIntoTrash(p) PROVE IInv'
<1> USE DEF Goto, Steps, Writing, Busy
<1>0. TrashTypeOK /\ HasPath(p) /\ HasTrash(p) /\ HasName(p) /\ HoldsInfo(p) /\ HasSaid(p)
  BY DEF IInv, Locals
<1> DEFINE t == trash[p] n == name[p] e == path[p]
<1>1. CASE UNCHANGED <<files, source>> /\ Goto(p, "remove")
  <2>1. TrashTypeOK'
    BY <1>0, <1>1 DEF TrashTypeOK, RenameIntoTrash
  <2>2. /\ UNCHANGED <<source, files, infos, excused, path, trash, name>>
        /\ phase[p] = "rename" /\ phase'[p] = "remove" /\ \A q \in Processes : q # p => phase'[q] = phase[q]
    BY <1>0, <1>1 DEF TrashTypeOK, RenameIntoTrash
  <2> QED
    BY <1>0, <2>1, <2>2, DiskStays DEF HasPath, HasTrash, HasName
<1>2. CASE /\ source[e] # None /\ files' = With(files, t, n, source[e])
           /\ source' = [source EXCEPT ![e] = None] /\ Goto(p, "complete")
  <2>1. /\ UNCHANGED <<infos, excused, path, trash, name, flagged>> /\ phase[p] = "rename"
        /\ phase'[p] = "complete" /\ \A q \in Processes : q # p => phase'[q] = phase[q]
        /\ t \in Trashes /\ n \in Names /\ e \in Paths /\ source[e] \in Items
        /\ n \in DOMAIN infos[t] /\ n \notin DOMAIN files[t] /\ infos[t][n] = e
    BY <1>0, <1>2 DEF TrashTypeOK, RenameIntoTrash, HasTrash, HasName, HasPath, HoldsInfo, HasSaid
  <2>2. /\ Stored(files', Items) /\ \A u \in Trashes : u # t => files'[u] = files[u]
        /\ DOMAIN files'[t] = DOMAIN files[t] \cup {n} /\ files'[t][n] = source[e]
        /\ \A m \in DOMAIN files[t] : files'[t][m] = files[t][m]
    <3>1. Stored(files, Items)
      BY <1>0 DEF TrashTypeOK
    <3>2. /\ Stored(files', Items) /\ \A u \in Trashes : u # t => files'[u] = files[u]
          /\ DOMAIN files'[t] = DOMAIN files[t] \cup {n} /\ files'[t][n] = source[e]
          /\ \A m \in DOMAIN files[t] : m # n => files'[t][m] = files[t][m]
      BY <1>2, <2>1, <3>1, WithAdds
    <3> QED
      BY <2>1, <3>2
  <2>3. /\ source' \in [Paths -> {None} \cup Items] /\ source'[e] = None
        /\ \A f \in Paths : f # e => source'[f] = source[f]
    BY <1>0, <1>2, <2>1 DEF TrashTypeOK
  <2>4. TrashTypeOK'
    BY <1>0, <1>2, <2>1, <2>2, <2>3 DEF TrashTypeOK, Stored
  <2>5. \A q \in Processes : q # p /\ phase[q] \in Writing => <<trash[q], name[q]>> # <<t, n>>
    BY <2>1 DEF IInv, NameIsOwn
  <2>frame. \A u \in Trashes : \A m \in Names : <<u, m>> # <<t, n>> =>
            /\ m \in DOMAIN infos[u] => m \in DOMAIN infos'[u] /\ infos'[u][m] = infos[u][m]
            /\ m \in DOMAIN files'[u] => m \in DOMAIN files[u]
    BY <2>1, <2>2
  <2>6. Locals'
    <3>1. ASSUME NEW q \in Processes, q # p
          PROVE  HasPath(q)' /\ HasTrash(q)' /\ HasName(q)' /\ HoldsInfo(q)' /\ HasSaid(q)'
      BY <2>1, <2>5, <2>frame, <3>1, OthersKeep
    <3>2. HasPath(p)' /\ HasTrash(p)' /\ HasName(p)' /\ HoldsInfo(p)' /\ HasSaid(p)'
      BY <2>1 DEF HasPath, HasTrash, HasName, HoldsInfo, HasSaid
    <3> QED
      BY <3>1, <3>2 DEF Locals
  <2>7. OwnPlace'
    BY <2>3 DEF IInv, OwnPlace
  <2>8. PathOf[source[e]] = e
    BY <1>2, <2>1 DEF IInv, OwnPlace
  <2>9. Restorable'
    BY <2>1, <2>2, <2>8 DEF IInv, Restorable
  <2>10. NameIsOwn'
    BY <2>1 DEF IInv, NameIsOwn
  <2>11. NoOrphanInfo'
    <3> SUFFICES ASSUME NEW u \in Trashes, NEW m \in DOMAIN infos'[u] \ DOMAIN files'[u],
                        <<u, m>> \notin excused'
                 PROVE  \E q \in Processes : phase'[q] \in Writing /\ trash'[q] = u /\ name'[q] = m
      BY Zenon DEF NoOrphanInfo
    <3>1. m \in DOMAIN infos[u] \ DOMAIN files[u] /\ <<u, m>> # <<t, n>>
      BY <2>1, <2>2
    <3>2. PICK q \in Processes : phase[q] \in Writing /\ trash[q] = u /\ name[q] = m
      BY <2>1, <3>1 DEF IInv, NoOrphanInfo
    <3> QED
      BY <2>1, <3>1, <3>2
  <2> QED
    BY <2>4, <2>6, <2>7, <2>9, <2>10, <2>11 DEF IInv
<1> QED
  BY <1>1, <1>2 DEF RenameIntoTrash, AfterRename

\* ... and the information file is removed, or stays.
LEMMA RemoveKeeps == ASSUME IInv, NEW p \in Processes, RemoveTrashInfo(p) PROVE IInv'
<1> USE DEF Goto, Steps, Writing, Busy
<1>0. TrashTypeOK /\ HasPath(p) /\ HasTrash(p) /\ HasName(p) /\ HoldsInfo(p)
  BY DEF IInv, Locals
<1> DEFINE t == trash[p] n == name[p]
<1>1. /\ UNCHANGED <<source, files, path, trash, name, flagged>> /\ phase[p] \in {"remove", "undo"}
      /\ phase' \in [Processes -> Steps] /\ phase'[p] \in {"cancelled", "failed"}
      /\ \A q \in Processes : q # p => phase'[q] = phase[q]
      /\ t \in Trashes /\ n \in Names /\ path[p] \in Paths
      /\ n \in DOMAIN infos[t] /\ n \notin DOMAIN files[t]
  BY <1>0 DEF TrashTypeOK, RemoveTrashInfo, HasTrash, HasName, HasPath, HoldsInfo
<1>2. CASE UNCHANGED infos /\ excused' = excused \cup {<<t, n>>}
  <2>1. TrashTypeOK'
    BY <1>0, <1>1, <1>2 DEF TrashTypeOK
  <2> QED
    BY <1>0, <1>1, <1>2, <2>1, DiskStays DEF HasPath, HasTrash, HasName
<1>3. CASE infos' = Lacking(infos, t, n) /\ UNCHANGED excused
  <2>2. /\ Stored(infos', {Torn} \cup Paths) /\ \A u \in Trashes : u # t => infos'[u] = infos[u]
        /\ DOMAIN infos'[t] = DOMAIN infos[t] \ {n}
        /\ \A m \in DOMAIN infos[t] : m # n => infos'[t][m] = infos[t][m]
    BY <1>0, <1>1, <1>3, LackingTakes DEF TrashTypeOK
  <2>3. TrashTypeOK'
    BY <1>0, <1>1, <1>3, <2>2 DEF TrashTypeOK, Stored
  <2>4. \A q \in Processes : q # p /\ phase[q] \in Writing => <<trash[q], name[q]>> # <<t, n>>
    BY <1>1 DEF IInv, NameIsOwn
  <2>frame. \A u \in Trashes : \A m \in Names : <<u, m>> # <<t, n>> =>
            /\ m \in DOMAIN infos[u] => m \in DOMAIN infos'[u] /\ infos'[u][m] = infos[u][m]
            /\ m \in DOMAIN files'[u] => m \in DOMAIN files[u]
    BY <1>1, <2>2
  <2>5. Locals'
    <3>1. ASSUME NEW q \in Processes, q # p
          PROVE  HasPath(q)' /\ HasTrash(q)' /\ HasName(q)' /\ HoldsInfo(q)' /\ HasSaid(q)'
      BY <1>1, <2>4, <2>frame, <3>1, OthersKeep
    <3>2. HasPath(p)' /\ HasTrash(p)' /\ HasName(p)' /\ HoldsInfo(p)' /\ HasSaid(p)'
      BY <1>1 DEF HasPath, HasTrash, HasName, HoldsInfo, HasSaid
    <3> QED
      BY <3>1, <3>2 DEF Locals
  <2>6. OwnPlace' /\ Restorable'
    BY <1>1, <2>2 DEF IInv, OwnPlace, Restorable
  <2>7. NameIsOwn'
    BY <1>1 DEF IInv, NameIsOwn
  <2>8. NoOrphanInfo'
    <3> SUFFICES ASSUME NEW u \in Trashes, NEW m \in DOMAIN infos'[u] \ DOMAIN files'[u],
                        <<u, m>> \notin excused'
                 PROVE  \E q \in Processes : phase'[q] \in Writing /\ trash'[q] = u /\ name'[q] = m
      BY Zenon DEF NoOrphanInfo
    <3>1. m \in DOMAIN infos[u] \ DOMAIN files[u] /\ <<u, m>> # <<t, n>>
      BY <1>1, <1>3, <2>2
    <3>2. PICK q \in Processes : phase[q] \in Writing /\ trash[q] = u /\ name[q] = m
      BY <1>1, <1>3, <3>1 DEF IInv, NoOrphanInfo
    <3> QED
      BY <1>1, <3>1, <3>2
  <2> QED
    BY <2>3, <2>5, <2>6, <2>7, <2>8 DEF IInv
<1> QED
  BY <1>2, <1>3 DEF RemoveTrashInfo

\* An item that appears is nowhere else.
LEMMA AppearKeeps == ASSUME IInv, NEW i \in Items, Appear(i) PROVE IInv'
<1>1. UNCHANGED <<files, infos, excused, phase, path, trash, name, flagged>>
  BY DEF Appear
<1>2. source' = [source EXCEPT ![PathOf[i]] = i] /\ PathOf[i] \in Paths
  BY TrashAssumption DEF Appear
<1>3. TrashTypeOK'
  BY <1>1, <1>2 DEF IInv, TrashTypeOK, Stored
<1>4. Locals'
  BY <1>1 DEF IInv, Locals, HasPath, HasTrash, HasName, HoldsInfo, HasSaid
<1>5. OwnPlace'
  BY <1>2 DEF IInv, TrashTypeOK, OwnPlace
<1>6. Restorable' /\ NameIsOwn' /\ NoOrphanInfo'
  BY <1>1 DEF IInv, Restorable, NameIsOwn, NoOrphanInfo
<1> QED
  BY <1>3, <1>4, <1>5, <1>6 DEF IInv

\* At the start there is nothing in any trash, and no process has begun.
LEMMA InitGood == TrashInit => IInv
<1> SUFFICES ASSUME TrashInit PROVE IInv
  OBVIOUS
<1>1. \A values : Stored(files, values) /\ Stored(infos, values)
  <2>1. \A t \in Trashes : files[t] = <<>> /\ infos[t] = <<>>
    BY DEF TrashInit
  <2>2. files \in [Trashes -> Range(files)] /\ infos \in [Trashes -> Range(infos)]
    BY DEF TrashInit, Range
  <2>3. \A values : <<>> \in [DOMAIN <<>> -> values] /\ DOMAIN <<>> \subseteq Names
    OBVIOUS
  <2> QED
    BY <2>1, <2>2, <2>3 DEF Stored
<1>2. TrashTypeOK
  BY <1>1 DEF TrashInit, TrashTypeOK, Steps
<1>3. Locals
  BY DEF TrashInit, Locals, HasPath, HasTrash, HasName, HoldsInfo, HasSaid, Busy, Writing
<1>4. OwnPlace
  BY DEF TrashInit, OwnPlace
<1>5. \A t \in Trashes : DOMAIN files[t] = {} /\ DOMAIN infos[t] = {}
  BY DEF TrashInit
<1>6. Restorable /\ NoOrphanInfo
  BY <1>5 DEF Restorable, NoOrphanInfo
<1>7. NameIsOwn
  BY DEF TrashInit, NameIsOwn, Writing
<1> QED
  BY <1>2, <1>3, <1>4, <1>6, <1>7 DEF IInv

\* Every step of any process, and of others, keeps what is known of the trash.
LEMMA NextKeeps == IInv /\ [TrashNext]_trashVars => IInv'
<1> SUFFICES ASSUME IInv, [TrashNext]_trashVars PROVE IInv'
  OBVIOUS
<1>1. ASSUME NEW p \in Processes, Call(p) \/ Step(p) \/ Return(p) \/ CancelTrashing(p) \/ Die(p)
      PROVE  IInv'
  BY <1>1, QuietSteps, OpenKeeps, WriteKeeps, RenameKeeps, RemoveKeeps DEF Step
<1>2. ASSUME NEW i \in Items, Appear(i) PROVE IInv'
  BY <1>2, AppearKeeps
<1>3. CASE UNCHANGED trashVars
  BY <1>3 DEF trashVars, IInv, TrashTypeOK, Stored, Locals, HasPath, HasTrash, HasName, HoldsInfo, HasSaid,
              OwnPlace, Restorable, NameIsOwn, NoOrphanInfo
<1> QED
  BY <1>1, <1>2, <1>3 DEF TrashNext

\* The invariant holds at every moment.
LEMMA IInvHolds == TrashSpec => []IInv
BY InitGood, NextKeeps, PTL DEF TrashSpec

-----------------------------------------------------------------------------
(* The theorems.                                                           *)

\* The variables keep their types.
THEOREM TypesHold == TrashSpec => []TrashTypeOK
<1>1. IInv => TrashTypeOK
  BY DEF IInv
<1> QED
  BY <1>1, IInvHolds, PTL

\* REQ-F-040: whatever processes do at once, fail at, are cancelled or killed in,
\* everything in the trash can be put back, no two processes hold the same
\* information file, and only a process that died or could not unlink it leaves one
\* behind (uniqueTrashName, writeTrashInfo, removeTrashInfo).
THEOREM TrashIsConsistent == TrashSpec => []InfosMatch
<1>1. IInv => InfosMatch
  BY DEF IInv, InfosMatch
<1> QED
  BY <1>1, IInvHolds, PTL

\* What a step may do: rename one entry, add to, write or remove an information file
\* whose name has no file, create an item where there is none.
LEMMA RenamesMove ==
  ASSUME IInv, NEW p \in Processes, RenameIntoTrash(p), ~UNCHANGED source
  PROVE  /\ path[p] \in Paths /\ phase[p] = "rename" /\ phase'[p] = "complete" /\ UNCHANGED infos
         /\ \A e \in Paths : e # path[p] => source'[e] = source[e]
         /\ trash[p] \in Trashes /\ source[path[p]] \in Range(files'[trash[p]])
         /\ \A u \in Trashes : \A m \in DOMAIN files[u] :
              m \in DOMAIN files'[u] /\ files'[u][m] = files[u][m]
<1> DEFINE t == trash[p] n == name[p] e == path[p]
<1>1. /\ source[e] # None /\ n \notin DOMAIN files[t] /\ files' = With(files, t, n, source[e])
      /\ source' = [source EXCEPT ![e] = None] /\ Goto(p, "complete") /\ UNCHANGED infos
      /\ phase[p] = "rename"
  BY DEF RenameIntoTrash, AfterRename, NoReplace
<1>2. t \in Trashes /\ n \in Names /\ e \in Paths
  BY <1>1 DEF IInv, Locals, HasTrash, HasName, HasPath, Writing, Busy
<1>3. Stored(files, Items) /\ source[e] \in Items
  BY <1>1, <1>2 DEF IInv, TrashTypeOK
<1>4. /\ \A u \in Trashes : u # t => files'[u] = files[u]
      /\ DOMAIN files'[t] = DOMAIN files[t] \cup {n} /\ files'[t][n] = source[e]
      /\ \A m \in DOMAIN files[t] : m # n => files'[t][m] = files[t][m]
  BY <1>1, <1>2, <1>3, WithAdds
<1>5. source[e] \in Range(files'[t])
  BY <1>4 DEF Range
<1>6. phase'[p] = "complete"
  BY <1>1 DEF IInv, TrashTypeOK, Goto
<1>7. \A f \in Paths : f # e => source'[f] = source[f]
  BY <1>1 DEF IInv, TrashTypeOK
<1>8. \A u \in Trashes : \A m \in DOMAIN files[u] :
        m \in DOMAIN files'[u] /\ files'[u][m] = files[u][m]
  BY <1>1, <1>4
<1> QED
  BY <1>1, <1>2, <1>5, <1>6, <1>7, <1>8

\* A step that changes what the information files say concerns a name without a file.
LEMMA InfosOfFilesStay ==
  ASSUME IInv, NEW p \in Processes, OpenTrashInfo(p) \/ WriteTrashInfo(p) \/ RemoveTrashInfo(p)
  PROVE  /\ UNCHANGED <<source, files>>
         /\ \A u \in Trashes : \A m \in DOMAIN files[u] :
              m \in DOMAIN infos'[u] /\ infos'[u][m] = infos[u][m]
<1> DEFINE t == trash[p] n == name[p]
<1>1. UNCHANGED <<source, files>>
  BY DEF OpenTrashInfo, WriteTrashInfo, RemoveTrashInfo
<1>2. \A u \in Trashes : \A m \in DOMAIN files[u] : m \in DOMAIN infos[u]
  BY DEF IInv, Restorable
<1>3. /\ UNCHANGED infos \/ infos' = With(infos, t, n, Torn) \/ infos' = With(infos, t, n, path[p])
         \/ infos' = Lacking(infos, t, n)
      /\ phase[p] \in {"open"} \cup Writing
  BY DEF OpenTrashInfo, WriteTrashInfo, RemoveTrashInfo, Writing
<1>4. /\ t \in Trashes /\ n \in Names /\ path[p] \in {Torn} \cup Paths
      /\ Stored(infos, {Torn} \cup Paths) /\ Torn \in {Torn} \cup Paths
  <2>1. t \in Trashes /\ n \in Names
    BY <1>3 DEF IInv, Locals, HasTrash, HasName
  <2>2. path[p] \in {Torn} \cup Paths /\ Stored(infos, {Torn} \cup Paths)
    BY DEF IInv, TrashTypeOK, Torn
  <2> QED
    BY <2>1, <2>2
<1>5. CASE UNCHANGED infos
  BY <1>1, <1>2, <1>5
<1>6. CASE ~UNCHANGED infos
  <2>1. n \notin DOMAIN files[t]
    <3>1. CASE phase[p] = "open"
      BY <1>2, <1>4, <1>6, <3>1 DEF OpenTrashInfo, NewOnly, WriteTrashInfo, RemoveTrashInfo
    <3>2. CASE phase[p] \in Writing
      BY <3>2 DEF IInv, Locals, HoldsInfo
    <3> QED
      BY <1>3, <3>1, <3>2
  <2>2. /\ \A u \in Trashes : u # t => infos'[u] = infos[u]
        /\ \A m \in DOMAIN infos[t] : m # n => m \in DOMAIN infos'[t] /\ infos'[t][m] = infos[t][m]
    BY <1>3, <1>4, <1>6, WithAdds, LackingTakes
  <2> QED
    BY <1>1, <1>2, <2>1, <2>2
<1> QED
  BY <1>5, <1>6

\* All other steps leave files/ and info/ alone, and take nothing from any path.
LEMMA OthersTakeNothing ==
  ASSUME IInv, [TrashNext]_trashVars,
         \A p \in Processes :
           ~OpenTrashInfo(p) /\ ~WriteTrashInfo(p) /\ ~RemoveTrashInfo(p) /\ (RenameIntoTrash(p) => UNCHANGED source)
  PROVE  /\ UNCHANGED <<files, infos>>
         /\ \A e \in Paths : source[e] # None => source'[e] = source[e]
<1>1. ASSUME NEW p \in Processes, Call(p) \/ Step(p) \/ Return(p) \/ CancelTrashing(p) \/ Die(p)
      PROVE  UNCHANGED <<source, files, infos>>
  <2>1. CASE RenameIntoTrash(p)
    <3>1. UNCHANGED source
      BY <2>1
    <3>2. ~(source[path[p]] # None /\ source' = [source EXCEPT ![path[p]] = None])
      <4>1. path[p] \in Paths /\ source \in [Paths -> {None} \cup Items]
        BY <2>1 DEF RenameIntoTrash, IInv, TrashTypeOK, Locals, HasPath, Busy, Writing
      <4> QED
        BY <3>1, <4>1
    <3> QED
      BY <2>1, <3>2 DEF RenameIntoTrash
  <2>2. CASE ~RenameIntoTrash(p)
    BY <1>1, <2>2 DEF Step, Call, SelectTrashDir, UniqueTrashName, CheckCancel, Return, CancelTrashing, Die, diskVars
  <2> QED
    BY <2>1, <2>2
<1>2. ASSUME NEW i \in Items, Appear(i)
      PROVE  UNCHANGED <<files, infos>> /\ \A e \in Paths : source[e] # None => source'[e] = source[e]
  BY <1>2 DEF Appear, IInv, TrashTypeOK
<1>3. CASE UNCHANGED trashVars
  BY <1>3 DEF trashVars
<1> QED
  BY <1>1, <1>2, <1>3 DEF TrashNext

\* "Failure never authorizes permanent deletion": no step of anyone loses an item, a
\* trashed file or its information file.
THEOREM NothingIsLost == TrashSpec => NothingLost
<1> DEFINE Kept == /\ \A e \in Paths : source[e] # None =>
                         source'[e] = source[e] \/ \E t \in Trashes : source[e] \in Range(files'[t])
                   /\ \A t \in Trashes : \A n \in DOMAIN files[t] :
                        /\ n \in DOMAIN files'[t] /\ files'[t][n] = files[t][n]
                        /\ n \in DOMAIN infos'[t] /\ infos'[t][n] = infos[t][n]
<1>1. ASSUME IInv, [TrashNext]_trashVars PROVE Kept
  <2>1. \A t \in Trashes : \A n \in DOMAIN files[t] : n \in DOMAIN infos[t]
    BY <1>1 DEF IInv, Restorable
  <2>2. ASSUME NEW p \in Processes, RenameIntoTrash(p), ~UNCHANGED source PROVE Kept
    <3>1. \A e \in Paths : source'[e] = source[e] \/ \E t \in Trashes : source[e] \in Range(files'[t])
      BY <1>1, <2>2, RenamesMove
    <3> QED
      BY <1>1, <2>1, <2>2, <3>1, RenamesMove
  <2>3. ASSUME NEW p \in Processes, OpenTrashInfo(p) \/ WriteTrashInfo(p) \/ RemoveTrashInfo(p) PROVE Kept
    BY <1>1, <2>1, <2>3, InfosOfFilesStay
  <2>4. CASE \A p \in Processes :
           ~OpenTrashInfo(p) /\ ~WriteTrashInfo(p) /\ ~RemoveTrashInfo(p) /\ (RenameIntoTrash(p) => UNCHANGED source)
    BY <1>1, <2>1, <2>4, OthersTakeNothing
  <2> QED
    BY <2>2, <2>3, <2>4
<1>2. IInv /\ [TrashNext]_trashVars => [Kept]_trashVars
  BY <1>1
<1> QED
  BY <1>2, IInvHolds, PTL DEF TrashSpec, NothingLost

\* Only the step that answers `complete' takes anything from a path: a call that
\* answers that it failed or was cancelled has left the source alone.
THEOREM OnlyCompletionTakes == TrashSpec => OnlyCompleteTakes
<1> DEFINE Taken == \A e \in Paths : source[e] # None /\ source'[e] # source[e] =>
                      \E p \in Processes : /\ path[p] = e /\ phase'[p] = "complete" /\ phase[p] # "complete"
<1>1. ASSUME IInv, [TrashNext]_trashVars PROVE Taken
  <2>1. ASSUME NEW p \in Processes, RenameIntoTrash(p), ~UNCHANGED source PROVE Taken
    BY <1>1, <2>1, RenamesMove
  <2>2. ASSUME NEW p \in Processes, OpenTrashInfo(p) \/ WriteTrashInfo(p) \/ RemoveTrashInfo(p) PROVE Taken
    BY <2>2 DEF OpenTrashInfo, WriteTrashInfo, RemoveTrashInfo
  <2>3. CASE \A p \in Processes :
           ~OpenTrashInfo(p) /\ ~WriteTrashInfo(p) /\ ~RemoveTrashInfo(p) /\ (RenameIntoTrash(p) => UNCHANGED source)
    BY <1>1, <2>3, OthersTakeNothing
  <2> QED
    BY <2>1, <2>2, <2>3
<1>2. IInv /\ [TrashNext]_trashVars => [Taken]_trashVars
  BY <1>1
<1> QED
  BY <1>2, IInvHolds, PTL DEF TrashSpec, OnlyCompleteTakes

-----------------------------------------------------------------------------
(* Dropping on the listing.  While transfers are disabled the area shows   *)
(* no action, because what disables them clears it; so whatever happens    *)
(* between two events of a drag, the next finds nothing stale.             *)

\* A drag is only begun if one more drop may be counted.
DropsAreCounted == drag # NoDrag => drops < MaxDrops

DragInv == DragTypeOK /\ DropsAreCounted /\ FeedbackIsHonest

\* How many rows are visible, and how many drops there may be.
LEMMA RowsAndDrops ==
  View \in Nat /\ View >= 1 /\ MaxDrops \in Nat /\ 0 \in 0 .. View + 1 /\ 0 \in 0 .. MaxDrops /\ 1 \in 1 .. View
<1>1. View \in Nat \ {0} /\ MaxDrops \in Nat
  BY DragAssumption
<1> QED
  BY <1>1

\* No rows are a listing too.
LEMMA NoRows ==
  ASSUME NEW now, now = <<>>
  PROVE  now \in Listings /\ 0 \in Tops(now)
<1>1. 0 \in 0 .. View + 1
  BY RowsAndDrops
<1>2. now \in [1 .. 0 -> Entries] /\ \A i, j \in 1 .. 0 : now[i] = now[j] => i = j
  OBVIOUS
<1>3. now \in Listings
  BY <1>1, <1>2 DEF Listings
<1>4. Len(now) = 0
  OBVIOUS
<1> QED
  BY <1>3, <1>4, RowsAndDrops DEF Tops

\* The action the area may show or a drop may take.
LEMMA ActionsAllowed ==
  ASSUME DragTypeOK, NEW modifiers \in Modifiers
  PROVE  /\ Allowed(modifiers) \in Operations \cup {"ignore"}
         /\ Allowed(modifiers) \in Operations =>
              /\ TransfersEnabled(mode, blocks) /\ LocalPaths(drag.urls) # {}
              /\ Allowed(modifiers) \in drag.supported /\ "alt" \notin modifiers
              /\ Allowed(modifiers) = "move" <=> "shift" \in modifiers
  BY DEF Allowed, Action, Operations

\* What is under the pointer is a row or none.
LEMMA RowUnderPointer ==
  ASSUME NEW now \in Listings, NEW p \in 1 .. View, NEW top \in Tops(now)
  PROVE  RowAt(p, now, top) \in 0 .. View + 1
<1>1. View \in Nat
  BY DragAssumption
<1>2. PICK n \in 0 .. View + 1 : now \in [1 .. n -> Entries]
  BY DEF Listings
<1>3. DOMAIN now = 1 .. n
  BY <1>2
<1> QED
  BY <1>1, <1>3 DEF RowAt

\* The area and the modes after one of them changed.
LEMMA SettleKeeps ==
  ASSUME DragInv, NEW m \in {"normal", "visual", "insert", "search"},
         NEW b \in SUBSET Blocks, Settle(m, b)
  PROVE  /\ mode' \in {"normal", "visual", "insert", "search"} /\ blocks' \subseteq Blocks
         /\ position' \in 1 .. View /\ hovering' \in BOOLEAN
         /\ action' \in Operations \cup {"ignore"} /\ target' \in 0 .. View + 1
         /\ FeedbackIsHonest'
<1>1. /\ mode \in {"normal", "visual", "insert", "search"} /\ blocks \subseteq Blocks
      /\ position \in 1 .. View /\ hovering \in BOOLEAN
      /\ action \in Operations \cup {"ignore"} /\ target \in 0 .. View + 1
  BY DEF DragInv, DragTypeOK
<1>2. action # "ignore" => hovering /\ TransfersEnabled(mode, blocks)
  BY <1>1 DEF DragInv, FeedbackIsHonest, TransfersEnabled
<1>3. 0 \in 0 .. View + 1 /\ mode' = m /\ blocks' = b
  BY RowsAndDrops DEF Settle
<1>4. CASE TransfersEnabled(mode, blocks) /\ ~TransfersEnabled(m, b)
  BY <1>1, <1>3, <1>4 DEF Settle, Clear, FeedbackIsHonest
<1>5. CASE ~(TransfersEnabled(mode, blocks) /\ ~TransfersEnabled(m, b))
  <2>1. UNCHANGED <<position, hovering, action, target>>
    BY <1>5 DEF Settle, area
  <2> QED
    BY <1>1, <1>2, <1>3, <1>5, <2>1 DEF FeedbackIsHonest, TransfersEnabled
<1> QED
  BY <1>4, <1>5

\* What is dropped.
LEMMA DropsQueue ==
  ASSUME DragInv, NEW p \in 1 .. View, NEW modifiers \in Modifiers, Drop(p, modifiers)
  PROVE  \/ UNCHANGED tasks
         \/ /\ queued' = [paths |-> drag.urls, destination |-> DropDestination(RowAt(p, rows, scroll)),
                          kind |-> Allowed(modifiers)]
            /\ drops' = drops + 1 /\ NotLocal \notin drag.urls
            /\ Allowed(modifiers) \in Operations
<1>1. Submit(RowAt(p, rows, scroll), Allowed(modifiers))
  BY DEF Drop
<1>2. LocalPaths(drag.urls) # {} => LocalPaths(drag.urls) = drag.urls /\ NotLocal \notin drag.urls
  BY DEF LocalPaths
<1> QED
  BY <1>1, <1>2 DEF Submit

\* A listing without a drag.
LEMMA DragStarts == ASSUME DragInit PROVE DragInv
<1>1. rows \in Listings /\ 0 \in Tops(rows)
  BY NoRows DEF DragInit
<1>2. 1 \in 1 .. View /\ 0 \in 0 .. View + 1 /\ 0 \in 0 .. MaxDrops
  BY RowsAndDrops
<1> QED
  BY <1>1, <1>2 DEF DragInit, DragInv, DragTypeOK, DropsAreCounted, FeedbackIsHonest, NoDrag, NoTransfer, Modifiers

\* Every event, key, scroll, refresh and prompt keeps the drag's feedback honest.
LEMMA DragInvKept == ASSUME DragInv, [DragNext]_dragVars PROVE DragInv'
<1>1. /\ folder \in Directories /\ rows \in Listings /\ scroll \in Tops(rows)
      /\ mode \in {"normal", "visual", "insert", "search"} /\ blocks \subseteq Blocks
      /\ drag.supported \subseteq Operations
      /\ position \in 1 .. View /\ hovering \in BOOLEAN
      /\ action \in Operations \cup {"ignore"} /\ target \in 0 .. View + 1
      /\ queued.kind \in Operations \cup {"ignore"} /\ drops \in 0 .. MaxDrops
      /\ asked \in Modifiers
      /\ MaxDrops \in Nat /\ View \in Nat /\ 0 \in 0 .. View + 1
  BY RowsAndDrops DEF DragInv, DragTypeOK
<1>2. DropsAreCounted /\ FeedbackIsHonest
  BY DEF DragInv
<1>3. CASE UNCHANGED dragVars
  BY <1>3 DEF DragInv, DragTypeOK, DropsAreCounted, FeedbackIsHonest, dragVars, listing, keys, area, tasks, Tops
<1>4. ASSUME NEW row \in DOMAIN rows, NEW selected \in SUBSET DOMAIN rows, StartDrag(row, selected) PROVE DragInv'
  BY <1>1, <1>2, <1>4 DEF StartDrag, DragInv, DragTypeOK, DropsAreCounted, FeedbackIsHonest, listing, keys, area, tasks, Tops
<1>5. ASSUME NEW offer \in Offers, StartForeignDrag(offer) PROVE DragInv'
  <2>1. offer.supported \subseteq Operations
    BY DragAssumption DEF Operations
  <2> QED
    BY <1>1, <1>2, <1>5, <2>1 DEF StartForeignDrag, DragInv, DragTypeOK, DropsAreCounted, FeedbackIsHonest, listing, keys, area, tasks, Tops
<1>6. CASE EndDrag
  BY <1>1, <1>2, <1>6 DEF EndDrag, NoDrag, DragInv, DragTypeOK, DropsAreCounted, FeedbackIsHonest, listing, keys, area, tasks, Tops
<1>7. ASSUME NEW p \in 1 .. View, NEW modifiers \in Modifiers, DragMove(p, modifiers) PROVE DragInv'
  <2>1. RowAt(p, rows, scroll) \in 0 .. View + 1
    BY <1>1, RowUnderPointer
  <2>2. /\ Allowed(modifiers) \in Operations \cup {"ignore"}
        /\ Allowed(modifiers) \in Operations => TransfersEnabled(mode, blocks)
    BY ActionsAllowed DEF DragInv
  <2>3. /\ position' = p /\ hovering' = TRUE /\ action' = Allowed(modifiers) /\ target' = RowAt(p, rows, scroll)
        /\ UNCHANGED <<folder, rows, scroll, mode, blocks, drag, queued, drops, asked>>
    BY <1>7 DEF DragMove, Update, listing, keys, tasks
  <2> QED
    BY <1>1, <1>2, <2>1, <2>2, <2>3 DEF DragInv, DragTypeOK, DropsAreCounted, FeedbackIsHonest, TransfersEnabled, Tops
<1>8. ASSUME NEW p \in 1 .. View, NEW modifiers \in Modifiers, Drop(p, modifiers) PROVE DragInv'
  <2>1. /\ hovering' = FALSE /\ action' = "ignore" /\ target' = 0
        /\ position' = p /\ asked' = modifiers /\ drag' = NoDrag /\ drag # NoDrag
        /\ UNCHANGED <<folder, rows, scroll, mode, blocks>>
    BY <1>8 DEF Drop, listing, keys
  <2>2. queued'.kind \in Operations \cup {"ignore"} /\ drops' \in 0 .. MaxDrops
    <3>1. drops + 1 \in 0 .. MaxDrops
      BY <1>1, <1>2, <2>1 DEF DropsAreCounted
    <3>2. CASE UNCHANGED tasks
      BY <1>1, <3>2 DEF tasks
    <3>3. CASE ~UNCHANGED tasks
      <4>1. queued'.kind = Allowed(modifiers) /\ drops' = drops + 1 /\ Allowed(modifiers) \in Operations
        BY <1>8, <3>3, DropsQueue
      <4> QED
        BY <3>1, <4>1
    <3> QED
      BY <3>2, <3>3
  <2> QED
    BY <1>1, <2>1, <2>2 DEF NoDrag, DragInv, DragTypeOK, DropsAreCounted, FeedbackIsHonest, Tops
<1>9. CASE DragLeave
  BY <1>1, <1>2, <1>9 DEF DragLeave, Clear, DragInv, DragTypeOK, DropsAreCounted, FeedbackIsHonest, listing, keys, tasks, Tops
<1>10. CASE Tick
  <2>1. scroll' \in Tops(rows)
    <3>1. PICK n \in 0 .. View + 1 : rows \in [1 .. n -> Entries]
      BY <1>1 DEF Listings
    <3>2. Len(rows) = n /\ n \in Nat
      <4>1. n \in Nat
        BY <1>1
      <4>2. rows \in Seq(Entries) /\ DOMAIN rows = 1 .. n
        BY <3>1, <4>1
      <4> QED
        BY <4>1, <4>2
    <3> QED
      BY <1>1, <1>10, <3>2 DEF Tick, Scrolled, Tops
  <2>2. UNCHANGED <<folder, rows, mode, blocks, drag, position, hovering, action, queued, drops, asked>>
    BY <1>10 DEF Tick, keys, tasks
  <2>3. target' \in 0 .. View + 1
    <3>1. target' = RowAt(position, rows, scroll')
      BY <1>10 DEF Tick
    <3> QED
      BY <1>1, <2>1, <3>1, RowUnderPointer
  <2>4. Tops(rows)' = Tops(rows)
    BY <2>2 DEF Tops
  <2> QED
    BY <1>1, <1>2, <2>1, <2>2, <2>3, <2>4 DEF DragInv, DragTypeOK, DropsAreCounted, FeedbackIsHonest
<1>11. ASSUME folder' \in Directories, rows' \in Listings, scroll' \in Tops(rows'), UNCHANGED <<drag, queued, drops, asked>>,
              NEW m \in {"normal", "visual", "insert", "search"}, NEW b \in SUBSET Blocks, Settle(m, b)
       PROVE  DragInv'
  <2>1. /\ mode' \in {"normal", "visual", "insert", "search"} /\ blocks' \subseteq Blocks
        /\ position' \in 1 .. View /\ hovering' \in BOOLEAN
        /\ action' \in Operations \cup {"ignore"} /\ target' \in 0 .. View + 1
        /\ FeedbackIsHonest'
    BY <1>11, SettleKeeps
  <2> QED
    BY <1>1, <1>2, <1>11, <2>1 DEF DragInv, DragTypeOK, DropsAreCounted, Tops
<1>12. ASSUME NEW now \in Listings, NEW top \in 0 .. 1, Rearrange(now, top) PROVE DragInv'
  <2>1. /\ rows' = now /\ scroll' = top /\ top \in Tops(now) /\ folder' = folder
        /\ UNCHANGED <<drag, queued, drops, asked>>
    BY <1>12 DEF Rearrange, tasks
  <2>2. PICK m \in {"normal", "visual", "insert", "search"} : Settle(m, blocks)
    BY <1>1, <1>12 DEF Rearrange
  <2> QED
    BY <1>1, <1>11, <2>1, <2>2
<1>13. ASSUME NEW directory \in Directories, Navigate(directory) PROVE DragInv'
  <2>1. /\ folder' = directory /\ rows' = <<>> /\ scroll' = 0
        /\ UNCHANGED <<drag, queued, drops, asked>>
        /\ Settle("normal", blocks \ {"quick look", "error"})
    BY <1>13 DEF Navigate, tasks
  <2>2. rows' \in Listings /\ 0 \in Tops(rows')
    BY <2>1, NoRows
  <2>3. blocks \ {"quick look", "error"} \in SUBSET Blocks
    BY <1>1
  <2> QED
    BY <1>1, <1>11, <2>1, <2>2, <2>3
<1>14. ASSUME NEW m \in {"normal", "visual", "insert", "search"}, ChangeMode(m) PROVE DragInv'
  <2>1. UNCHANGED <<folder, rows, scroll, drag, queued, drops, asked>> /\ Settle(m, blocks)
    BY <1>14 DEF ChangeMode, listing, tasks
  <2> QED
    BY <1>1, <1>11, <2>1
<1>15. ASSUME NEW b \in Blocks, Block(b) \/ Unblock(b) PROVE DragInv'
  <2>1. UNCHANGED <<folder, rows, scroll, drag, queued, drops, asked>>
    BY <1>15 DEF Block, Unblock, listing, tasks
  <2>2. PICK c \in SUBSET Blocks : Settle(mode, c)
    <3>1. blocks \cup {b} \in SUBSET Blocks /\ blocks \ {b} \in SUBSET Blocks
      BY <1>1
    <3> QED
      BY <1>15, <3>1 DEF Block, Unblock
  <2> QED
    BY <1>1, <1>11, <2>1, <2>2
<1> QED
  BY <1>3, <1>4, <1>5, <1>6, <1>7, <1>8, <1>9, <1>10, <1>12, <1>13, <1>14, <1>15 DEF DragNext

\* No step but a drop queues a transfer.
LEMMA OnlyDropsQueue ==
  ASSUME [DragNext]_dragVars, drops' # drops
  PROVE  \E p \in 1 .. View, modifiers \in Modifiers : Drop(p, modifiers)
<1>1. ~UNCHANGED dragVars
  BY DEF dragVars, tasks
<1> QED
  BY <1>1 DEF DragNext, StartDrag, StartForeignDrag, EndDrag, DragMove, DragLeave, Tick, Rearrange, Navigate,
     ChangeMode, Block, Unblock, tasks

\* A drop does what the pointer, the source, the modifiers and the mode say at that
\* moment, whatever changed under the pointer since it last moved (dropEvent, update,
\* transfersEnabled).
THEOREM DragsAreMeant == DragSpec => DropsAreMeant
<1>1. DragInit => DragInv
  BY DragStarts
<1>2. DragInv /\ [DragNext]_dragVars => DragInv'
  BY DragInvKept
<1>3. ASSUME DragInv, [DragNext]_dragVars, drops' # drops
      PROVE  /\ queued'.destination = DropDestination(RowAt(position', rows, scroll))
             /\ queued'.kind \in drag.supported /\ "alt" \notin asked'
             /\ queued'.kind = "move" <=> "shift" \in asked'
             /\ queued'.paths = drag.urls /\ NotLocal \notin drag.urls
             /\ blocks = {} /\ mode \notin {"insert", "search"}
  <2>1. PICK p \in 1 .. View, modifiers \in Modifiers : Drop(p, modifiers)
    BY <1>3, OnlyDropsQueue
  <2>2. /\ queued' = [paths |-> drag.urls, destination |-> DropDestination(RowAt(p, rows, scroll)),
                      kind |-> Allowed(modifiers)]
        /\ NotLocal \notin drag.urls /\ Allowed(modifiers) \in Operations
    BY <1>3, <2>1, DropsQueue DEF tasks
  <2>3. position' = p /\ asked' = modifiers
    BY <2>1 DEF Drop
  <2>4. /\ TransfersEnabled(mode, blocks)
        /\ Allowed(modifiers) \in drag.supported /\ "alt" \notin modifiers
        /\ Allowed(modifiers) = "move" <=> "shift" \in modifiers
    BY <1>3, <2>2, ActionsAllowed DEF DragInv
  <2> QED
    BY <2>2, <2>3, <2>4 DEF TransfersEnabled
<1>4. DragInv => DragTypeOK /\ FeedbackIsHonest
  BY DEF DragInv
<1> QED
  BY <1>1, <1>2, <1>3, <1>4, PTL DEF DragSpec, DropsAreMeant, DropsUnderPointer, DropsAsOffered, NothingDroppedBehind
=============================================================================
