---------------------------- MODULE TaskManager ----------------------------
(***************************************************************************)
(* The task manager of apps/files/operations/task_manager.{h,cpp}.         *)
(*                                                                         *)
(* Two threads share the work.  The GUI thread owns the queue, the prompt  *)
(* and the progress shown to the user; every GUI-side operation below runs *)
(* to completion on it and is one action.  The worker thread runs one task *)
(* at a time and reports back with queued invocations, which Qt delivers   *)
(* in the order they were posted (`events').  Three objects are shared     *)
(* without a lock and are created afresh for every task: the cancellation  *)
(* flag, the prompt semaphore and the pending answer.  They are functions  *)
(* of the task they were created for, and `ctl' is the task whose objects  *)
(* the members cancellation_, prompt_semaphore_ and                        *)
(* pending_conflict_resolution_ point to (0: those of the constructor,     *)
(* where cancellation_ is null).                                           *)
(***************************************************************************)
EXTENDS Integers, Sequences, FiniteSets

CONSTANTS
  TransferKinds,  \* Copy and Move: they differ only in the file operation called
  MaxTasks,       \* bound on the tasks ever submitted (next_task_id_)
  MaxItems,       \* bound on the sources of one task
  MaxTokens       \* bound on the tokens one semaphore holds (repeated Ctrl+C)

ASSUME BoundsAssumption ==
  /\ MaxTasks \in Nat \ {0}
  /\ MaxItems \in Nat \ {0}
  /\ MaxTokens \in Nat \ {0}
ASSUME KindsAssumption == "trash" \notin TransferKinds /\ "none" \notin TransferKinds

Answers == {"skip", "overwrite", "rename"}
NoAnswer == "unset"                       \* pending_conflict_resolution_ = -1

TaskIds == 1 .. MaxTasks
Task == [id : TaskIds, kind : TransferKinds \cup {"trash"}, size : 1 .. MaxItems]
NoTask == [id |-> 0, kind |-> "none", size |-> 0]

EmptyTally == [succeeded |-> 0, failed |-> 0, incomplete |-> 0, skipped |-> 0]

VARIABLES
  \* GUI thread: the members of TaskManager
  queue, busy, active, stopping, nextTask, ctl,
  prompt, promptId, promptItem, lastPrompt,
  currentItem, itemsDone, itemsTotal,
  \* shared between the threads
  cancelled, tokens, answer, serial,
  \* the two event queues and the worker's thread
  inbox, events, exited,
  \* worker thread: control point and locals of the task it runs
  pc, task, item, request, overwrite, tally,
  \* history: the questions shown, what the user answered about the running
  \* task, and the last task submitted before the user last cancelled
  shown, consent, barrier

guiVars == <<queue, busy, active, stopping, nextTask, ctl, currentItem, itemsDone, itemsTotal>>
promptVars == <<prompt, promptId, promptItem, lastPrompt>>
sharedVars == <<cancelled, tokens, answer, serial>>
workerVars == <<pc, task, item, request, overwrite, tally>>
histVars == <<shown, consent, barrier>>
startVars == <<currentItem, itemsDone, itemsTotal, ctl, cancelled, tokens, answer, inbox>>
vars == <<guiVars, promptVars, sharedVars, workerVars, histVars, inbox, events, exited>>

Init ==
  /\ queue = <<>> /\ busy = FALSE /\ active = 0 /\ stopping = FALSE
  /\ nextTask = 0 /\ ctl = 0
  /\ prompt = "none" /\ promptId = 0 /\ promptItem = 0 /\ lastPrompt = 0
  /\ currentItem = 0 /\ itemsDone = 0 /\ itemsTotal = 0
  /\ cancelled = [t \in 0 .. MaxTasks |-> FALSE]
  /\ tokens = [t \in 0 .. MaxTasks |-> 0]
  /\ answer = [t \in 0 .. MaxTasks |-> NoAnswer]
  /\ serial = 0
  /\ inbox = <<>> /\ events = <<>> /\ exited = FALSE
  /\ pc = "idle" /\ task = NoTask /\ item = 0 /\ request = 0
  /\ overwrite = FALSE /\ tally = EmptyTally
  /\ shown = {} /\ consent = {} /\ barrier = 0

-----------------------------------------------------------------------------
(* Helpers of the GUI thread.  A definition that is preceded by a "mutant" *)
(* has a faulty variant beside it, which serves to check that the          *)
(* properties can fail.                                                    *)

HasPrompt == prompt # "none"

\* resetPromptState
ResetPrompt ==
  /\ prompt' = "none" /\ promptId' = 0 /\ promptItem' = 0
  /\ UNCHANGED lastPrompt

\* The shared objects with fresh ones for the next task: an object is gone once
\* neither the members nor the task the worker runs refer to it.
Fresh(objects, initial) ==
  [t \in 0 .. MaxTasks |-> IF t = task.id /\ t # 0 THEN objects[t] ELSE initial]

\* The progress of a task that starts.
ResetProgress(t) == itemsDone' = 0 /\ currentItem' = 0 /\ itemsTotal' = t.size

\* startTask and runTaskOnWorker: fresh shared objects, then a queued call.
StartTask(t) ==
  /\ active' = t.id
  /\ busy' = TRUE
  /\ ResetProgress(t)
  /\ ctl' = t.id
  /\ cancelled' = Fresh(cancelled, FALSE)
  /\ tokens' = Fresh(tokens, 0)
  /\ answer' = Fresh(answer, NoAnswer)
  /\ inbox' = Append(inbox, t)

AskToTrash(t) ==
  /\ active' = t.id
  /\ serial' = serial + 1
  /\ promptId' = serial' /\ lastPrompt' = serial'
  /\ prompt' = "trash" /\ promptItem' = 0
  /\ shown' = shown \cup {[id |-> serial', task |-> t.id, item |-> 0]}

\* dispatchNextTask for a queue of q, entered with `running', `prompting' and
\* `current' as the values of busy_, hasPrompt() and active_task_id_.
Blocked(q, running, prompting) == running \/ prompting \/ q = <<>> \/ stopping

DispatchNext(q, running, prompting, current) ==
  \/ /\ Blocked(q, running, prompting)
     /\ queue' = q /\ busy' = running /\ active' = current
     /\ UNCHANGED startVars
     /\ UNCHANGED <<serial, shown, lastPrompt>>
     /\ IF prompting THEN UNCHANGED promptVars ELSE ResetPrompt
  \/ /\ ~Blocked(q, running, prompting) /\ Head(q).kind = "trash"
     /\ queue' = q /\ busy' = running
     /\ UNCHANGED startVars
     /\ AskToTrash(Head(q))
  \/ /\ ~Blocked(q, running, prompting) /\ Head(q).kind # "trash"
     /\ queue' = Tail(q)
     /\ StartTask(Head(q))
     /\ ResetPrompt
     /\ UNCHANGED <<serial, shown>>

-----------------------------------------------------------------------------
(* Operations of the GUI thread.                                           *)

\* enqueueCopy, enqueueMove, requestTrashConfirmation
Submit(kind, n) ==
  /\ ~stopping
  /\ nextTask < MaxTasks
  /\ nextTask' = nextTask + 1
  /\ DispatchNext(Append(queue, [id |-> nextTask + 1, kind |-> kind, size |-> n]),
                  busy, HasPrompt, active)
  /\ UNCHANGED <<stopping, workerVars, consent, barrier, events, exited>>

\* respondToTrashConfirm, for an answer to question q
ConfirmTrash(q) ==
  /\ prompt = "trash" /\ q.id = promptId
  /\ queue' = Tail(queue)
  /\ StartTask(Head(queue))
  /\ ResetPrompt
  /\ consent' = consent \cup {[task |-> q.task, item |-> q.item, says |-> "trash"]}
  /\ UNCHANGED <<stopping, nextTask, workerVars, serial, shown, barrier, events, exited>>

DeclineTrash(q) ==
  /\ prompt = "trash" /\ q.id = promptId
  /\ DispatchNext(Tail(queue), busy, FALSE, 0)
  /\ UNCHANGED <<stopping, nextTask, workerVars, consent, barrier, events, exited>>

\* resolveConflict with Skip, Overwrite or AutoRename, for an answer to question q
ResolveConflict(a, q) ==
  /\ prompt = "conflict" /\ q.id = promptId
  /\ ctl # 0 /\ ~cancelled[ctl] /\ tokens[ctl] < MaxTokens
  /\ answer' = [answer EXCEPT ![ctl] = a]
  /\ ResetPrompt
  /\ tokens' = [tokens EXCEPT ![ctl] = @ + 1]
  /\ consent' = consent \cup {[task |-> q.task, item |-> q.item, says |-> a]}
  /\ UNCHANGED <<guiVars, workerVars, cancelled, serial, shown, barrier, inbox, events, exited>>

\* cancellation_->store(true) (mutant: the semaphore alone is released)
LeaveFlag == UNCHANGED cancelled
RaiseFlag == cancelled' = IF ctl = 0 THEN cancelled ELSE [cancelled EXCEPT ![ctl] = TRUE]

\* queue_.clear() (mutant: only the running task is dropped)
KeepQueue == UNCHANGED queue
ClearQueue == queue' = <<>>

\* What cancelCurrentTask and shutdown have in common.
DropEverything ==
  /\ tokens[ctl] < MaxTokens
  /\ RaiseFlag
  /\ tokens' = [tokens EXCEPT ![ctl] = @ + 1]
  /\ ClearQueue
  /\ ResetPrompt
  /\ UNCHANGED <<busy, nextTask, ctl, currentItem, itemsDone, itemsTotal, answer, serial,
                 workerVars, shown, consent, inbox, events, exited>>

\* cancelCurrentTask: Ctrl+C, at any time, or the Cancel answer of a conflict prompt
CancelCurrentTask ==
  /\ DropEverything
  /\ active' = IF busy THEN active ELSE 0
  /\ barrier' = nextTask
  /\ UNCHANGED stopping

Shutdown ==
  /\ ~stopping
  /\ DropEverything
  /\ stopping' = TRUE
  /\ UNCHANGED <<active, barrier>>

-----------------------------------------------------------------------------
(* Delivery of the worker's queued invocations on the GUI thread.          *)

\* The early returns of the handlers (mutants: a report of a cancelled task is
\* taken, the end of a cancelled task is taken for a late report).
IgnoredUnlessCancelled(e) == e.task # active \/ ~busy
Ignored(e) == e.task # active \/ ~busy \/ cancelled[ctl]

Stale(e) == e.request <= lastPrompt

UnrelatedOrCancelled(e) == Ignored(e)
Unrelated(e) == e.task # active

OnItemStarted(e) ==
  /\ currentItem' = IF Ignored(e) THEN currentItem ELSE e.item
  /\ UNCHANGED <<queue, busy, active, stopping, nextTask, ctl, itemsDone, itemsTotal,
                 promptVars, sharedVars, histVars, inbox>>

OnItemFinished(e) ==
  /\ itemsDone' = IF Ignored(e) THEN itemsDone ELSE itemsDone + 1
  /\ UNCHANGED <<queue, busy, active, stopping, nextTask, ctl, currentItem, itemsTotal,
                 promptVars, sharedVars, histVars, inbox>>

OnConflictDetected(e) ==
  /\ IF Ignored(e) \/ stopping \/ Stale(e)
     THEN UNCHANGED <<promptVars, shown>>
     ELSE /\ prompt' = "conflict" /\ promptId' = e.request /\ lastPrompt' = e.request
          /\ promptItem' = e.item
          /\ shown' = shown \cup {[id |-> e.request, task |-> e.task, item |-> e.item]}
  /\ UNCHANGED <<guiVars, sharedVars, consent, barrier, inbox>>

\* The summary shown (last_summary_) is the tally reported.
OnTaskFinished(e) ==
  /\ IF Unrelated(e)
     THEN UNCHANGED <<guiVars, promptVars, sharedVars, shown, inbox>>
     ELSE /\ DispatchNext(queue, FALSE, FALSE, 0)
          /\ UNCHANGED <<stopping, nextTask>>
  /\ consent' = {}
  /\ UNCHANGED barrier

Delivered(type) ==
  /\ events # <<>> /\ Head(events).type = type
  /\ events' = Tail(events)
  /\ UNCHANGED <<workerVars, exited>>

Deliver ==
  \/ Delivered("started") /\ OnItemStarted(Head(events))
  \/ Delivered("processed") /\ OnItemFinished(Head(events))
  \/ Delivered("conflict") /\ OnConflictDetected(Head(events))
  \/ Delivered("finished") /\ OnTaskFinished(Head(events))

-----------------------------------------------------------------------------
(* The worker thread.                                                      *)

Event(type, id) ==
  [type |-> type, task |-> task.id, item |-> item, request |-> id, tally |-> tally]

Post(type, id) == events' = Append(events, Event(type, id))

\* The GUI thread's members, which the worker never touches.
WorkerStep == UNCHANGED <<guiVars, promptVars, histVars, exited>>

\* The thread's event loop starts the task posted by runTaskOnWorker.  After
\* quit() it may still process what was posted before it.
TakeTask ==
  /\ pc = "idle" /\ inbox # <<>> /\ ~exited
  /\ task' = Head(inbox) /\ inbox' = Tail(inbox)
  /\ item' = 1 /\ request' = 0 /\ overwrite' = FALSE /\ tally' = EmptyTally
  /\ pc' = "loop"
  /\ UNCHANGED <<sharedVars, events>>
  /\ WorkerStep

\* The loop over the sources.
MoreItems == item <= task.size

BeginItem ==
  /\ pc = "loop" /\ MoreItems /\ ~cancelled[task.id]
  /\ Post("started", request)
  /\ pc' = IF task.kind = "trash" THEN "call" ELSE "check"
  /\ UNCHANGED <<sharedVars, task, item, request, overwrite, tally, inbox>>
  /\ WorkerStep

\* The loop is over, or cut short: the summary is posted.
FinishTask ==
  /\ \/ pc = "loop" /\ (~MoreItems \/ cancelled[task.id])
     \/ pc = "break"
  /\ Post("finished", request)
  /\ pc' = "idle" /\ task' = NoTask /\ item' = 0 /\ request' = 0
  /\ overwrite' = FALSE /\ tally' = EmptyTally
  /\ UNCHANGED <<sharedVars, inbox>>
  /\ WorkerStep

\* resolveConflictIfAny: lstat of the destination, which anyone may create
NoConflict ==
  /\ pc = "check"
  /\ pc' = "call" /\ overwrite' = FALSE
  /\ UNCHANGED <<sharedVars, task, item, request, tally, inbox, events>>
  /\ WorkerStep

DetectConflict ==
  /\ pc = "check"
  /\ answer' = [answer EXCEPT ![task.id] = NoAnswer]
  /\ serial' = serial + 1
  /\ request' = serial + 1
  /\ Post("conflict", serial + 1)
  /\ pc' = "wait"
  /\ UNCHANGED <<cancelled, tokens, task, item, overwrite, tally, inbox>>
  /\ WorkerStep

\* waitForPromptAnswer: a token was acquired
Acquire ==
  /\ pc = "wait" /\ tokens[task.id] > 0
  /\ tokens' = [tokens EXCEPT ![task.id] = @ - 1]
  /\ pc' = "woken"
  /\ UNCHANGED <<cancelled, answer, serial, task, item, request, overwrite, tally, inbox, events>>
  /\ WorkerStep

\* waitForPromptAnswer returns false: Ctrl+C while the prompt was open
AbortWait ==
  /\ pc \in {"wait", "woken"} /\ cancelled[task.id]
  /\ pc' = "break"
  /\ UNCHANGED <<sharedVars, task, item, request, overwrite, tally, inbox, events>>
  /\ WorkerStep

\* The summary with so many more sources of each sort.
Added(succeeded, failed, incomplete, skipped) ==
  [succeeded |-> tally.succeeded + succeeded, failed |-> tally.failed + failed,
   incomplete |-> tally.incomplete + incomplete, skipped |-> tally.skipped + skipped]

\* The answer is read: Skip leaves the destination alone, AutoRename takes a
\* free name, and anything else - the value -1 too - overwrites.
ReadSkip ==
  /\ pc = "woken" /\ ~cancelled[task.id] /\ answer[task.id] = "skip"
  /\ tally' = Added(0, 0, 0, 1)
  /\ Post("processed", request)
  /\ item' = item + 1 /\ pc' = "loop"
  /\ UNCHANGED <<sharedVars, task, request, overwrite, inbox>>
  /\ WorkerStep

ReadAnswer ==
  /\ pc = "woken" /\ ~cancelled[task.id] /\ answer[task.id] # "skip"
  /\ overwrite' = (answer[task.id] # "rename")
  /\ pc' = "call"
  /\ UNCHANGED <<sharedVars, task, item, request, tally, inbox, events>>
  /\ WorkerStep

\* copyEntry, moveEntry and trashEntry look at the flag before anything else.
BeginOperation ==
  /\ pc = "call" /\ ~cancelled[task.id]
  /\ pc' = "operate"
  /\ UNCHANGED <<sharedVars, task, item, request, overwrite, tally, inbox, events>>
  /\ WorkerStep

\* What an operation's result adds to the summary (mutant: a transfer that only
\* skipped children is counted nowhere).
CountedIfFailed(outcome) ==
  CASE outcome = "complete" -> Added(1, 0, 0, 0)
    [] outcome \in {"failed", "cancelledFailed"} -> Added(0, 1, 1, 0)
    [] OTHER -> tally
Counted(outcome) ==
  CASE outcome = "complete" -> Added(1, 0, 0, 0)
    [] outcome \in {"failed", "cancelledFailed"} -> Added(0, 1, 1, 0)
    [] OTHER -> Added(0, 0, 1, 0)

EndOperation(outcome) ==
  /\ pc = "operate"
  /\ task.kind = "trash" => outcome # "skippedChildren"
  /\ tally' = Counted(outcome)
  /\ Post("processed", request)
  /\ item' = item + 1 /\ pc' = "loop" /\ overwrite' = FALSE
  /\ UNCHANGED <<sharedVars, task, request, inbox>>
  /\ WorkerStep

\* The operation saw the cancellation flag.  A cancelled trash is not counted.
OperationCancelled(outcome) ==
  /\ pc \in {"call", "operate"} /\ cancelled[task.id]
  /\ pc = "call" => outcome = "cancelled"
  /\ tally' = IF task.kind = "trash" THEN tally ELSE Counted(outcome)
  /\ pc' = "break"
  /\ UNCHANGED <<sharedVars, task, item, request, overwrite, inbox, events>>
  /\ WorkerStep

\* quit() ends the event loop once the running task has returned.
ExitThread ==
  /\ stopping /\ pc = "idle" /\ ~exited
  /\ exited' = TRUE
  /\ UNCHANGED <<guiVars, promptVars, sharedVars, workerVars, histVars, inbox, events>>

-----------------------------------------------------------------------------
Worker ==
  \/ TakeTask \/ BeginItem \/ FinishTask
  \/ NoConflict \/ DetectConflict \/ Acquire \/ AbortWait \/ ReadSkip \/ ReadAnswer
  \/ BeginOperation
  \/ \E outcome \in {"complete", "failed", "skippedChildren"} : EndOperation(outcome)
  \/ \E outcome \in {"cancelled", "cancelledFailed"} : OperationCancelled(outcome)

User ==
  \/ \E kind \in TransferKinds \cup {"trash"}, n \in 1 .. MaxItems : Submit(kind, n)
  \/ \E q \in shown : ConfirmTrash(q) \/ DeclineTrash(q)
  \/ \E q \in shown, a \in Answers : ResolveConflict(a, q)
  \/ CancelCurrentTask
  \/ Shutdown

Next == User \/ Deliver \/ Worker \/ ExitThread

Spec == Init /\ [][Next]_vars

\* The two threads run; the user owes the program nothing.
FairSpec == Spec /\ WF_vars(Deliver) /\ WF_vars(Worker) /\ WF_vars(ExitThread)

-----------------------------------------------------------------------------
(* Properties.                                                             *)

Count(t) == t.succeeded + t.incomplete + t.skipped

Tally == [succeeded : Nat, failed : Nat, incomplete : Nat, skipped : Nat]
Items == 0 .. MaxItems + 1

EventRecord == [type : {"started", "processed", "conflict", "finished"}, task : TaskIds,
                item : Items, request : Nat, tally : Tally]
Question == [id : Nat, task : TaskIds, item : Items]
Consent == [task : TaskIds, item : Items, says : Answers \cup {"trash"}]

\* The variables of both threads keep their types.
TypeOK ==
  /\ queue \in Seq(Task) /\ busy \in BOOLEAN /\ stopping \in BOOLEAN
  /\ active \in 0 .. MaxTasks /\ nextTask \in 0 .. MaxTasks /\ ctl \in 0 .. MaxTasks
  /\ prompt \in {"none", "trash", "conflict"} /\ promptId \in Nat /\ lastPrompt \in Nat
  /\ promptItem \in Items /\ currentItem \in Items
  /\ itemsDone \in Nat /\ itemsTotal \in 0 .. MaxItems
  /\ cancelled \in [0 .. MaxTasks -> BOOLEAN]
  /\ tokens \in [0 .. MaxTasks -> 0 .. MaxTokens]
  /\ answer \in [0 .. MaxTasks -> Answers \cup {NoAnswer}]
  /\ serial \in Nat
  /\ inbox \in Seq(Task) /\ events \in Seq(EventRecord) /\ exited \in BOOLEAN
  /\ pc \in {"idle", "loop", "check", "wait", "woken", "call", "operate", "break"}
  /\ task \in Task \cup {NoTask} /\ item \in Items /\ request \in Nat
  /\ overwrite \in BOOLEAN /\ tally \in Tally
  /\ shown \subseteq Question /\ consent \subseteq Consent
  /\ barrier \in 0 .. MaxTasks

\* A conflict prompt on screen is the question the worker is blocked on at that
\* moment: same task, same request, no token and no cancellation on their way
\* (onConflictDetected against waitForPromptAnswer).
PromptFacesBlockedWorker ==
  prompt = "conflict" =>
    /\ busy /\ ~stopping /\ ctl = active
    /\ pc = "wait" /\ task.id = active /\ request = promptId
    /\ ~cancelled[active] /\ tokens[active] = 0

\* REQ-F-026, REQ-F-028: it names the item the worker stands at, and the progress shown
\* beside it is that of this item, although both arrive as queued reports.
PromptNamesItsItem ==
  prompt = "conflict" =>
    promptItem = item /\ currentItem = item /\ itemsDone = item - 1

\* A trash confirmation on screen is about the task at the head of the queue,
\* which respondToTrashConfirm takes, and nothing runs behind it.
TrashPromptOwnsQueueHead ==
  prompt = "trash" =>
    /\ queue # <<>> /\ Head(queue).kind = "trash" /\ Head(queue).id = active
    /\ ~busy /\ ~stopping /\ pc = "idle" /\ inbox = <<>>

\* REQ-F-016, REQ-F-023, REQ-F-026: the worker replaces a destination only if the
\* user answered Overwrite to the question about that very item, and touches the
\* items of a trash task only if the user confirmed that task.
NothingDestroyedUnasked ==
  /\ pc \in {"call", "operate"} /\ overwrite =>
       [task |-> task.id, item |-> item, says |-> "overwrite"] \in consent
  /\ pc # "idle" /\ task.kind = "trash" =>
       [task |-> task.id, item |-> 0, says |-> "trash"] \in consent

\* REQ-F-033, REQ-F-034: when an uncancelled task reports its end, every source has been
\* counted exactly once, the skipped ones are those the user answered Skip to,
\* and, once the reports before it are delivered, the progress reads n of n.
EverySourceAccounted ==
  \A i \in DOMAIN events :
    LET e == events[i] IN
    e.type = "finished" =>
      /\ e.tally.failed <= e.tally.incomplete /\ Count(e.tally) <= itemsTotal
      /\ ~cancelled[e.task] =>
           /\ Count(e.tally) = itemsTotal
           /\ e.tally.skipped =
                Cardinality({c \in consent : c.task = e.task /\ c.says = "skip"})
           /\ i = 1 => itemsDone = itemsTotal

\* A prompt on screen is the question somebody waits to have answered: a conflict
\* prompt the one the worker is blocked on, a trash confirmation the one about the
\* task the answer will start (onConflictDetected, respondToTrashConfirm).
PromptsAreLive == PromptFacesBlockedWorker /\ TrashPromptOwnsQueueHead

\* What the user is told of a task - the item in question, the progress beside it,
\* the summary - agrees with what the worker has done, although all of it arrives
\* as queued reports (onItemStarted to onTaskFinished).
ReportsAreTrue == PromptNamesItsItem /\ EverySourceAccounted

Starts == busy' /\ (~busy \/ active' # active)

\* REQ-F-025, REQ-F-027: tasks start in the order they were submitted, only when the
\* previous one has reported its end and the worker is idle, never after a
\* shutdown, and never when they had been submitted before the last cancellation.
TasksStartInTurn ==
  [][Starts => /\ active' > ctl /\ active' > barrier
               /\ pc = "idle" /\ inbox = <<>> /\ events' = <<>>
               /\ ~stopping]_vars

\* A running task ends or asks the user something; it never hangs silently.
TaskEndsOrAsks == busy ~> (~busy \/ prompt = "conflict" \/ stopping)

\* REQ-F-030: a cancelled task ends without a further answer of the user, also when the
\* worker was blocked on a prompt or the prompt was still on its way.
CancelledTaskEnds ==
  \A t \in TaskIds : (busy /\ active = t /\ cancelled[t]) ~> (active # t \/ stopping)

\* Shutdown always ends the worker's thread, whatever it was blocked on
\* (SessionLifecycle waits for shutdownFinished before the window closes).
ShutdownEndsWorker == stopping ~> exited

\* No task and no close hangs on a question that nobody will answer: a running
\* task ends or asks, a cancelled one ends, and so does the thread at shutdown
\* (waitForPromptAnswer, cancelCurrentTask, shutdown).
EndsWhenTold == TaskEndsOrAsks /\ CancelledTaskEnds /\ ShutdownEndsWorker

-----------------------------------------------------------------------------
(* The inductive invariant behind the safety properties.                   *)

\* What is queued was submitted after everything that ran or was dropped.
QueueInv ==
  /\ ctl <= nextTask /\ barrier <= nextTask
  /\ \A i \in 1 .. Len(queue) :
       /\ queue[i].id > ctl /\ queue[i].id > barrier /\ queue[i].id <= nextTask
       /\ \A j \in 1 .. Len(queue) : i < j => queue[i].id < queue[j].id
  /\ stopping => queue = <<>> /\ (ctl # 0 => cancelled[ctl])

\* A running task is in exactly one place: posted, on the worker, or reported.
ThreadsInv ==
  /\ ~busy => pc = "idle" /\ inbox = <<>> /\ events = <<>>
  /\ busy => active # 0 /\ ctl = active
  /\ pc = "idle" <=> task = NoTask
  /\ pc # "idle" => task.id = active /\ inbox = <<>>
  /\ pc \in {"check", "wait", "woken"} => task.kind # "trash"
  /\ pc \notin {"idle", "loop"} => 1 <= item /\ item <= task.size
  /\ pc = "loop" => 1 <= item /\ item <= task.size + 1
  /\ pc \in {"loop", "check", "wait", "woken"} => ~overwrite
  /\ inbox # <<>> => Len(inbox) = 1 /\ inbox[1].id = active /\ events = <<>>

\* The reports on their way are those of the running task; its end comes last,
\* and so does a conflict nobody has cancelled, which the worker stands at.
ReportsInv ==
  \A i \in 1 .. Len(events) :
    /\ events[i].task = active
    /\ events[i].request <= serial
    /\ events[i].type = "finished" => i = Len(events) /\ pc = "idle" /\ inbox = <<>>
    /\ events[i].type = "conflict" /\ ~cancelled[active] =>
         /\ i = Len(events) /\ pc = "wait" /\ request = events[i].request
         /\ item = events[i].item /\ lastPrompt < request /\ tokens[active] = 0
         /\ prompt = "none"

\* Prompt ids are never reused, and the prompt shown is the last one.
PromptInv ==
  /\ lastPrompt <= serial /\ request <= serial
  /\ \A q \in shown : q.id <= lastPrompt
  /\ prompt # "none" =>
       /\ promptId = lastPrompt /\ ~stopping
       /\ \A q \in shown : q.id = promptId => q.task = active /\ q.item = promptItem
  /\ TrashPromptOwnsQueueHead
  /\ PromptFacesBlockedWorker
  /\ prompt = "conflict" => events = <<>> /\ promptItem = item
  /\ prompt = "trash" => promptItem = 0

\* Without a cancellation there is a token only for an answer to the question
\* the worker waits for, and the answer read is the one the user gave to it.
Answered == [task |-> task.id, item |-> item, says |-> answer[task.id]] \in consent

TokenInv ==
  busy /\ ~cancelled[active] =>
    /\ pc # "wait" => tokens[active] = 0
    /\ tokens[active] <= 1
    /\ pc = "woken" \/ tokens[active] = 1 => Answered

\* The user consented to what the worker does or is about to do.
ConsentInv ==
  /\ NothingDestroyedUnasked
  /\ inbox # <<>> /\ inbox[1].kind = "trash" =>
       [task |-> inbox[1].id, item |-> 0, says |-> "trash"] \in consent

\* Every part at once; each safety property proved follows from it.
IInv ==
  /\ TypeOK /\ QueueInv /\ ThreadsInv /\ ReportsInv /\ PromptInv /\ TokenInv /\ ConsentInv

-----------------------------------------------------------------------------
(* The invariant behind ReportsAreTrue, inductive relative to IInv.        *)

\* The item the worker stands at, also before it has begun and after its end, and
\* the first one it has not reported the start of.
Position ==
  IF pc # "idle" THEN item ELSE IF inbox # <<>> THEN 1 ELSE events[Len(events)].item
Begun == IF pc \in {"idle", "loop"} THEN Position ELSE Position + 1

Of(type) == {i \in 1 .. Len(events) : events[i].type = type}

\* The last report of a task that ended is on its way.
EndOnItsWay ==
  pc = "idle" /\ inbox = <<>> => events # <<>> /\ events[Len(events)].type = "finished"

\* The items begun are reported in order, the last one either on its way or shown.
BeginningsInOrder ==
  /\ \A i, j \in Of("started") : i < j => events[i].item < events[j].item
  /\ \A i \in Of("started") : events[i].item < Begun
  /\ pc \notin {"idle", "loop"} =>
       \/ \E i \in Of("started") : events[i].item = item
       \/ currentItem = item /\ Of("started") = {}

\* The items done are reported in order, and none is missing between those counted
\* and the one the worker stands at.
EndingsInOrder ==
  /\ itemsDone < Position
  /\ \A i, j \in Of("processed") : i < j => events[i].item < events[j].item
  /\ \A i \in Of("processed") : itemsDone < events[i].item /\ events[i].item < Position
  /\ \A k \in itemsDone + 1 .. Position - 1 : \E i \in Of("processed") : events[i].item = k

ProgressInv ==
  busy /\ ~cancelled[active] => EndOnItsWay /\ BeginningsInOrder /\ EndingsInOrder

\* What the user answered Skip to, and whether the worker has yet to count the last.
Skips == {c \in consent : c.task = active /\ c.says = "skip"}
SkipPending ==
  /\ pc = "woken" \/ (pc = "wait" /\ tokens[active] = 1)
  /\ answer[active] = "skip"

\* The tally so far counts every item before the one the worker stands at.
TallyInv ==
  pc # "idle" =>
    /\ task.size = itemsTotal /\ tally.failed <= tally.incomplete
    /\ Count(tally) <= (IF pc = "break" THEN item ELSE item - 1)
    /\ ~cancelled[active] =>
         /\ pc # "break" /\ Count(tally) = item - 1
         /\ \A c \in Skips : c.item < item \/ (c.item = item /\ SkipPending)
         /\ Cardinality(Skips) = tally.skipped + (IF SkipPending THEN 1 ELSE 0)

\* The tally reported at the end counts them all.
SummaryInv ==
  \A i \in Of("finished") :
    LET total == events[i].tally IN
    /\ total.failed <= total.incomplete /\ Count(total) <= itemsTotal
    /\ ~cancelled[active] =>
         /\ events[i].item = itemsTotal + 1
         /\ Count(total) = itemsTotal /\ total.skipped = Cardinality(Skips)

\* No answer is about a task that has not started.
AnswersInv ==
  /\ IsFiniteSet(consent) /\ \A c \in consent : c.task <= ctl
  /\ inbox # <<>> => inbox[1].size = itemsTotal /\ Skips = {}

AccountInv == ProgressInv /\ TallyInv /\ SummaryInv /\ AnswersInv

=============================================================================
