--------------------------- MODULE OperationQueue ---------------------------
(***************************************************************************)
(* What the task manager promises its user, without its threads, prompts   *)
(* ids, semaphores and event queues: file operations run one at a time and *)
(* in the order they were submitted; a trash operation waits for a         *)
(* confirmation; the items of the running operation are worked on one      *)
(* after the other, and only while the user is shown that it runs; giving  *)
(* up drops whatever waits and lets the running operation touch no further *)
(* item.  TaskManager implements it (see TaskManagerRefinement).           *)
(***************************************************************************)
EXTENDS Integers, Sequences

CONSTANTS Kinds, MaxOperations, MaxItems

Operation == [id : 1 .. MaxOperations, kind : Kinds, size : 1 .. MaxItems]

VARIABLES
  submitted,  \* how many operations were submitted
  waiting,    \* the operations that wait, in order
  asking,     \* the first of them is a trash operation awaiting confirmation
  running,    \* the running operation's id, 0 for none
  stage,      \* of the running operation: "none", "begun", "working", "settled"
  touching,   \* the item being worked on, 0 for none
  reached,    \* no item up to this one is worked on again
  abandoned,  \* the user gave up on the running operation
  closed

vars == <<submitted, waiting, asking, running, stage, touching, reached, abandoned, closed>>

Init ==
  /\ submitted = 0 /\ waiting = <<>> /\ asking = FALSE /\ running = 0 /\ stage = "none"
  /\ touching = 0 /\ reached = 0 /\ abandoned = FALSE /\ closed = FALSE

Start(op) ==
  /\ running' = op.id /\ stage' = "begun" /\ reached' = 0 /\ abandoned' = FALSE

Rest == running' = 0 /\ stage' = "none" /\ reached' = 0 /\ abandoned' = FALSE

\* Nothing runs any more: go on with the operations in w.
GoOn(w) ==
  \/ /\ w = <<>> \/ closed
     /\ waiting' = w /\ asking' = FALSE /\ Rest
  \/ /\ w # <<>> /\ ~closed /\ Head(w).kind = "trash"
     /\ waiting' = w /\ asking' = TRUE /\ Rest
  \/ /\ w # <<>> /\ ~closed /\ Head(w).kind # "trash"
     /\ waiting' = Tail(w) /\ asking' = FALSE /\ Start(Head(w))

Submit(op) ==
  /\ ~closed /\ op.id = submitted + 1
  /\ submitted' = op.id
  /\ IF running # 0 \/ asking
     THEN /\ waiting' = Append(waiting, op)
          /\ UNCHANGED <<asking, running, stage, reached, abandoned>>
     ELSE GoOn(Append(waiting, op))
  /\ UNCHANGED <<touching, closed>>

Confirm ==
  /\ asking
  /\ asking' = FALSE /\ waiting' = Tail(waiting) /\ Start(Head(waiting))
  /\ UNCHANGED <<submitted, touching, closed>>

Decline ==
  /\ asking
  /\ GoOn(Tail(waiting))
  /\ UNCHANGED <<submitted, touching, closed>>

\* Cancel, or close for good.
GiveUp ==
  /\ waiting' = <<>> /\ asking' = FALSE
  /\ abandoned' = (running # 0)
  /\ closed' \in {closed, TRUE}
  /\ UNCHANGED <<submitted, running, stage, touching, reached>>

Proceed ==
  /\ stage = "begun" /\ stage' = "working"
  /\ UNCHANGED <<submitted, waiting, asking, running, touching, reached, abandoned, closed>>

\* An item that is not worked on: it was skipped, or failed before it began.
PassItem ==
  /\ stage = "working" /\ touching = 0
  /\ reached < MaxItems /\ reached' = reached + 1
  /\ UNCHANGED <<submitted, waiting, asking, running, stage, touching, abandoned, closed>>

Touch ==
  /\ stage = "working" /\ touching = 0 /\ ~abandoned
  /\ reached < MaxItems /\ touching' = reached + 1 /\ reached' = touching'
  /\ UNCHANGED <<submitted, waiting, asking, running, stage, abandoned, closed>>

Release ==
  /\ touching # 0 /\ touching' = 0
  /\ UNCHANGED <<submitted, waiting, asking, running, stage, reached, abandoned, closed>>

Settle ==
  /\ stage = "working" /\ touching = 0
  /\ stage' = "settled" /\ reached' = 0
  /\ UNCHANGED <<submitted, waiting, asking, running, touching, abandoned, closed>>

Finish ==
  /\ stage = "settled"
  /\ GoOn(waiting)
  /\ UNCHANGED <<submitted, touching, closed>>

Next ==
  \/ \E op \in Operation : Submit(op)
  \/ Confirm \/ Decline \/ GiveUp
  \/ Proceed \/ PassItem \/ Touch \/ Release \/ Settle \/ Finish

Spec == Init /\ [][Next]_vars
=============================================================================
