----------------------- MODULE TaskManagerRefinement -----------------------
(***************************************************************************)
(* The task manager implements OperationQueue: what the two threads, the   *)
(* prompt ids and the event queue do amounts to operations that run one at *)
(* a time.  An operation runs from startTask to the delivery of its last   *)
(* report, so the mapping says in particular that the worker touches no    *)
(* item before the user is told that the task runs or after it has been    *)
(* told that it ended.                                                     *)
(***************************************************************************)
EXTENDS TaskManager

\* A trash operation awaits its confirmation; the operation that runs; what it does.
Asking == prompt = "trash"
Running == IF busy THEN active ELSE 0
Stage ==
  IF ~busy THEN "none"
  ELSE IF inbox # <<>> THEN "begun"
  ELSE IF pc = "idle" THEN "settled"
  ELSE "working"

\* The item the worker is at, and the last one it will not come back to.
Touching == IF pc = "operate" THEN item ELSE 0
Reached ==
  IF pc \in {"operate", "break"} THEN item ELSE IF pc = "idle" THEN 0 ELSE item - 1
Abandoned == busy /\ cancelled[active]

Promise == INSTANCE OperationQueue WITH
  Kinds <- TransferKinds \cup {"trash"},
  MaxOperations <- MaxTasks,
  submitted <- nextTask,
  waiting <- queue,
  asking <- Asking,
  running <- Running,
  stage <- Stage,
  touching <- Touching,
  reached <- Reached,
  abandoned <- Abandoned,
  closed <- stopping

\* The task manager keeps the promise of OperationQueue (REQ-F-016, REQ-F-025,
\* REQ-F-027, REQ-F-030): every step of the two threads is a step of the abstract
\* queue or invisible to it.
KeepsPromise == Promise!Spec
=============================================================================
