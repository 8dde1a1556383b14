------------------------- MODULE TaskManagerProofs -------------------------
(***************************************************************************)
(* Proofs about the task manager, for any number of tasks, sources and     *)
(* tokens: its inductive invariant IInv, the safety properties that follow *)
(* from it, the truth of the reports (AccountInv), and the refinement of   *)
(* OperationQueue.                                                         *)
(***************************************************************************)
EXTENDS TaskManagerRefinement, FiniteSetTheorems, TLAPS

USE BoundsAssumption, KindsAssumption

LEMMA InitIInv == Init => IInv
<1> SUFFICES ASSUME Init PROVE IInv
  OBVIOUS
<1> USE DEF Init
<1>1. TypeOK
  <2>1. /\ cancelled \in [0 .. MaxTasks -> BOOLEAN]
        /\ tokens \in [0 .. MaxTasks -> 0 .. MaxTokens]
        /\ answer \in [0 .. MaxTasks -> Answers \cup {NoAnswer}]
    OBVIOUS
  <2>2. tally \in Tally
    BY DEF Tally, EmptyTally
  <2>3. queue \in Seq(Task) /\ inbox \in Seq(Task) /\ events \in Seq(EventRecord)
    OBVIOUS
  <2> QED
    BY <2>1, <2>2, <2>3 DEF TypeOK, Items
<1>2. QueueInv /\ ThreadsInv /\ ReportsInv
  BY DEF QueueInv, ThreadsInv, ReportsInv
<1>3. PromptInv
  BY DEF PromptInv, TrashPromptOwnsQueueHead, PromptFacesBlockedWorker
<1>4. TokenInv /\ ConsentInv
  BY DEF TokenInv, ConsentInv, NothingDestroyedUnasked
<1>5. QED
  BY <1>1, <1>2, <1>3, <1>4 DEF IInv

\* The task the worker runs.
LEMMA TypeOfTask ==
  ASSUME TypeOK, ThreadsInv, pc # "idle"
  PROVE  /\ task \in Task /\ task.id \in TaskIds /\ task.id \in 0 .. MaxTasks
         /\ task.size \in 1 .. MaxItems /\ task.id = active
  BY DEF TypeOK, ThreadsInv, Task, TaskIds, NoTask

\* What the worker reports of it.
LEMMA EventType ==
  ASSUME TypeOK, ThreadsInv, pc # "idle", NEW id \in Nat,
         NEW type \in {"started", "processed", "conflict", "finished"}
  PROVE  /\ Event(type, id) \in EventRecord
         /\ Event(type, id).type = type /\ Event(type, id).task = active
         /\ Event(type, id).item = item /\ Event(type, id).request = id
         /\ events \in Seq(EventRecord)
         /\ Append(events, Event(type, id)) \in Seq(EventRecord)
<1>1. /\ Event(type, id) \in EventRecord
      /\ Event(type, id).type = type /\ Event(type, id).task = active
      /\ Event(type, id).item = item /\ Event(type, id).request = id
  BY TypeOfTask DEF TypeOK, Event, EventRecord
<1>2. QED
  BY <1>1 DEF TypeOK

LEMMA AddedType ==
  ASSUME TypeOK, NEW s \in Nat, NEW f \in Nat, NEW i \in Nat, NEW k \in Nat
  PROVE  Added(s, f, i, k) \in Tally
<1>1. tally \in Tally
  BY DEF TypeOK
<1>2. QED
  BY <1>1 DEF Tally, Added

\* The item it stands at.
LEMMA TypeOfItem ==
  ASSUME TypeOK, ThreadsInv, pc \notin {"idle", "loop"}
  PROVE  /\ item \in Nat /\ item + 1 \in Nat /\ 1 <= item /\ item <= task.size
         /\ item + 1 <= task.size + 1 /\ item + 1 \in Items
<1>1. item \in Nat
  BY DEF TypeOK, Items
<1>2. 1 <= item /\ item <= task.size
  BY DEF ThreadsInv
<1>3. QED
  BY <1>1, <1>2, TypeOfTask DEF Items

\* The request ids reported are numbers.
LEMMA EventRequests ==
  ASSUME TypeOK
  PROVE  \A i \in 1 .. Len(events) : events[i] \in EventRecord /\ events[i].request \in Nat
<1>1. events \in Seq(EventRecord)
  BY DEF TypeOK
<1>2. \A i \in 1 .. Len(events) : events[i] \in EventRecord
  BY <1>1
<1>3. QED
  BY <1>2 DEF EventRecord

\* A report that joins the others.
LEMMA Appended ==
  ASSUME TypeOK, NEW e \in EventRecord
  PROVE  LET es == Append(events, e) IN
         /\ Len(events) \in Nat /\ Len(es) = Len(events) + 1 /\ es[Len(events) + 1] = e
         /\ \A i \in 1 .. Len(events) : es[i] = events[i]
         /\ \A i \in 1 .. Len(es) : i \in 1 .. Len(events) \/ i = Len(events) + 1
<1>1. events \in Seq(EventRecord)
  BY DEF TypeOK
<1>2. QED
  BY <1>1

LEMMA TallyType ==
  ASSUME TypeOK, NEW outcome
  PROVE  Counted(outcome) \in Tally /\ EmptyTally \in Tally
<1>1. EmptyTally \in Tally
  BY DEF Tally, EmptyTally
<1>2. CASE outcome = "complete"
  BY <1>1, <1>2, AddedType DEF Counted
<1>3. CASE outcome \in {"failed", "cancelledFailed"}
  BY <1>1, <1>3, AddedType DEF Counted
<1>4. CASE outcome \notin {"complete", "failed", "cancelledFailed"}
  BY <1>1, <1>4, AddedType DEF Counted
<1>5. QED
  BY <1>2, <1>3, <1>4

\* While the worker is between two reports nothing on its way is an end or a
\* live conflict, and no prompt is on screen unless it waits for the answer.
LEMMA EarlierReports ==
  ASSUME IInv, pc \notin {"idle", "wait"}
  PROVE  /\ prompt = "none"
         /\ \A i \in 1 .. Len(events) :
              /\ events[i].task = active /\ events[i].request <= serial
              /\ events[i].type # "finished"
              /\ events[i].type = "conflict" => cancelled[active]
<1>1. prompt = "none"
  BY DEF IInv, TypeOK, PromptInv, TrashPromptOwnsQueueHead, PromptFacesBlockedWorker
<1>2. QED
  BY <1>1 DEF IInv, ReportsInv

LEMMA ReportPosted ==
  ASSUME IInv, pc \notin {"idle", "wait"}, NEW type \in {"started", "processed"},
         Post(type, request), UNCHANGED <<active, serial, cancelled>>
  PROVE  ReportsInv'
<1> DEFINE e == Event(type, request)
<1>1. TypeOK /\ ThreadsInv /\ request \in Nat /\ request <= serial
  BY DEF IInv, TypeOK, PromptInv
<1>2. e \in EventRecord /\ e.type = type /\ e.task = active /\ e.request = request
  BY <1>1, EventType
<1>3. events' = Append(events, e)
  BY DEF Post
<1> HIDE DEF e
<1>4. QED
  BY <1>1, <1>2, <1>3, EarlierReports, Appended DEF ReportsInv

-----------------------------------------------------------------------------
(* The steps of the worker thread.                                         *)

LEMMA TakeTaskStep == ASSUME IInv, TakeTask PROVE IInv'
<1> USE DEF WorkerStep, guiVars, promptVars, histVars, sharedVars, TakeTask
<1>1. TypeOK'
  <2>1. inbox \in Seq(Task) /\ inbox # <<>>
    BY DEF IInv, TypeOK
  <2>2. /\ task' \in Task /\ inbox' \in Seq(Task) /\ tally' \in Tally /\ item' \in Items
        /\ request' \in Nat /\ pc' = "loop"
    BY <2>1, TallyType DEF IInv, Items
  <2>3. overwrite' \in BOOLEAN
    OBVIOUS
  <2>4. UNCHANGED <<guiVars, promptVars, histVars, exited, sharedVars, events>>
    OBVIOUS
  <2> HIDE DEF TakeTask, WorkerStep
  <2>5. QED
    BY <2>2, <2>3, <2>4 DEF IInv, TypeOK
<1>2. QueueInv'
  BY DEF IInv, QueueInv
<1>3. ThreadsInv'
  <2>1. busy /\ Len(inbox) = 1 /\ inbox[1].id = active /\ inbox \in Seq(Task)
    BY DEF IInv, TypeOK, ThreadsInv
  <2>2. task' = inbox[1] /\ inbox' = <<>> /\ task' \in Task
    BY <2>1
  <2>3. task' # NoTask /\ task'.size >= 1 /\ task'.size \in Nat
    BY <2>2 DEF Task, NoTask, TaskIds
  <2>4. UNCHANGED <<busy, active, ctl, events>> /\ pc' = "loop" /\ item' = 1 /\ ~overwrite'
    OBVIOUS
  <2> HIDE DEF TakeTask, WorkerStep
  <2>5. QED
    BY <2>1, <2>2, <2>3, <2>4 DEF IInv, ThreadsInv
<1>4. ReportsInv'
  BY TypeOfTask DEF IInv, TypeOK, ThreadsInv, ReportsInv, PromptInv, PromptFacesBlockedWorker
<1>5. PromptInv'
  BY DEF IInv, TypeOK, ThreadsInv, ReportsInv, PromptInv, TrashPromptOwnsQueueHead, PromptFacesBlockedWorker
<1>6. TokenInv'
  BY TypeOfTask DEF IInv, TypeOK, ThreadsInv, TokenInv, Answered
<1>7. ConsentInv'
  <2>1. Len(inbox) = 1 /\ inbox \in Seq(Task) /\ inbox # <<>>
    BY DEF IInv, TypeOK, ThreadsInv
  <2>2. task' = inbox[1] /\ inbox' = <<>>
    BY <2>1
  <2>3. pc' = "loop" /\ UNCHANGED consent
    OBVIOUS
  <2> HIDE DEF TakeTask, WorkerStep
  <2>4. QED
    BY <2>1, <2>2, <2>3 DEF IInv, ConsentInv, NothingDestroyedUnasked
<1>8. QED
  BY <1>1, <1>2, <1>3, <1>4, <1>5, <1>6, <1>7 DEF IInv

LEMMA BeginItemStep == ASSUME IInv, BeginItem PROVE IInv'
<1> USE DEF WorkerStep, guiVars, promptVars, histVars, sharedVars, BeginItem, Post, MoreItems
<1>1. TypeOK'
  <2>1. events' \in Seq(EventRecord)
    BY EventType DEF IInv, TypeOK
  <2>2. QED
    BY <2>1 DEF IInv, TypeOK, Items
<1>2. QueueInv'
  BY DEF IInv, QueueInv
<1>3. ThreadsInv'
  BY TypeOfTask DEF IInv, TypeOK, ThreadsInv, Task, NoTask
<1>4. ReportsInv'
  BY ReportPosted DEF IInv
<1>5. PromptInv'
  BY DEF IInv, TypeOK, ThreadsInv, ReportsInv, PromptInv, TrashPromptOwnsQueueHead, PromptFacesBlockedWorker
<1>6. TokenInv'
  BY TypeOfTask DEF IInv, TypeOK, ThreadsInv, TokenInv, Answered
<1>7. ConsentInv'
  BY TypeOfTask DEF IInv, ThreadsInv, TokenInv, Answered, ConsentInv, NothingDestroyedUnasked
<1>8. QED
  BY <1>1, <1>2, <1>3, <1>4, <1>5, <1>6, <1>7 DEF IInv

LEMMA FinishTaskStep == ASSUME IInv, FinishTask PROVE IInv'
<1> USE DEF WorkerStep, guiVars, promptVars, histVars, sharedVars, FinishTask, Post, MoreItems
<1>1. TypeOK'
  <2>1. TypeOK /\ ThreadsInv /\ request \in Nat
    BY DEF IInv, TypeOK
  <2>2. events' \in Seq(EventRecord) /\ tally' \in Tally
    BY <2>1, TallyType, EventType
  <2>3. task' = NoTask /\ item' \in Items /\ request' \in Nat /\ pc' = "idle"
    BY DEF Items
  <2>4. overwrite' \in BOOLEAN
    OBVIOUS
  <2>5. UNCHANGED <<guiVars, promptVars, histVars, exited, sharedVars, inbox>>
    OBVIOUS
  <2> HIDE DEF FinishTask, WorkerStep
  <2>6. QED
    BY <2>1, <2>2, <2>3, <2>4, <2>5 DEF TypeOK
<1>2. QueueInv'
  BY DEF IInv, QueueInv
<1>3. ThreadsInv'
  BY TypeOfTask DEF IInv, TypeOK, ThreadsInv, Task, NoTask
<1>4. ReportsInv'
  <2> DEFINE e == Event("finished", request)
  <2>1. TypeOK /\ ThreadsInv /\ request \in Nat /\ request <= serial /\ pc \notin {"idle", "wait"}
    BY DEF IInv, TypeOK, PromptInv
  <2>2. e \in EventRecord /\ e.type = "finished" /\ e.task = active /\ e.request = request
    BY <2>1, EventType
  <2>3. events' = Append(events, e)
    OBVIOUS
  <2>4. /\ UNCHANGED <<active, serial, cancelled>>
        /\ pc' = "idle" /\ inbox' = inbox /\ inbox = <<>>
    BY <2>1 DEF ThreadsInv
  <2> HIDE DEF e, FinishTask
  <2>5. QED
    BY <2>1, <2>2, <2>3, <2>4, EarlierReports, Appended DEF ReportsInv
<1>5. PromptInv'
  <2>1. prompt = "none"
    BY EarlierReports
  <2>2. QED
    BY <2>1 DEF IInv, TypeOK, PromptInv, TrashPromptOwnsQueueHead, PromptFacesBlockedWorker
<1>6. TokenInv'
  BY TypeOfTask DEF IInv, TypeOK, ThreadsInv, TokenInv, Answered
<1>7. ConsentInv'
  BY TypeOfTask DEF IInv, ThreadsInv, TokenInv, Answered, ConsentInv, NothingDestroyedUnasked
<1>8. QED
  BY <1>1, <1>2, <1>3, <1>4, <1>5, <1>6, <1>7 DEF IInv

LEMMA NoConflictStep == ASSUME IInv, NoConflict PROVE IInv'
<1> USE DEF WorkerStep, guiVars, promptVars, histVars, sharedVars, NoConflict
<1>1. TypeOK'
  BY DEF IInv, TypeOK, Items
<1>2. QueueInv'
  BY DEF IInv, QueueInv
<1>3. ThreadsInv'
  BY TypeOfTask DEF IInv, TypeOK, ThreadsInv, Task, NoTask
<1>4. ReportsInv'
  BY TypeOfTask DEF IInv, TypeOK, ThreadsInv, ReportsInv, PromptInv, PromptFacesBlockedWorker
<1>5. PromptInv'
  BY DEF IInv, TypeOK, ThreadsInv, ReportsInv, PromptInv, TrashPromptOwnsQueueHead, PromptFacesBlockedWorker
<1>6. TokenInv'
  BY TypeOfTask DEF IInv, TypeOK, ThreadsInv, TokenInv, Answered
<1>7. ConsentInv'
  BY TypeOfTask DEF IInv, ThreadsInv, TokenInv, Answered, ConsentInv, NothingDestroyedUnasked
<1>8. QED
  BY <1>1, <1>2, <1>3, <1>4, <1>5, <1>6, <1>7 DEF IInv

LEMMA DetectConflictStep == ASSUME IInv, DetectConflict PROVE IInv'
<1> USE DEF WorkerStep, guiVars, promptVars, histVars, sharedVars, DetectConflict, Post
<1>1. TypeOK'
  <2>1. events' \in Seq(EventRecord)
    BY EventType DEF IInv, TypeOK
  <2>2. answer' \in [0 .. MaxTasks -> Answers \cup {NoAnswer}]
    BY TypeOfTask DEF IInv, TypeOK
  <2>3. QED
    BY <2>1, <2>2 DEF IInv, TypeOK, Items
<1>2. QueueInv'
  BY DEF IInv, QueueInv
<1>3. ThreadsInv'
  BY TypeOfTask DEF IInv, TypeOK, ThreadsInv, Task, NoTask
<1>4. ReportsInv'
  <2> DEFINE e == Event("conflict", serial + 1)
  <2>1. TypeOK /\ ThreadsInv /\ serial + 1 \in Nat /\ serial \in Nat /\ pc \notin {"idle", "wait"}
    BY DEF IInv, TypeOK
  <2>2. /\ e \in EventRecord /\ e.type = "conflict" /\ e.task = active
        /\ e.request = serial + 1 /\ e.item = item
    BY <2>1, EventType
  <2>3. events' = Append(events, e)
    OBVIOUS
  <2>4. /\ UNCHANGED <<active, cancelled, prompt, lastPrompt, tokens, item>>
        /\ pc' = "wait" /\ serial' = serial + 1 /\ request' = serial + 1
    OBVIOUS
  <2>5. /\ lastPrompt < serial + 1 /\ serial < serial + 1
        /\ ~cancelled[active] => tokens[active] = 0
    BY <2>1 DEF IInv, TypeOK, PromptInv, TokenInv, ThreadsInv
  <2>6. \A i \in 1 .. Len(events) : events[i].request <= serial + 1
    BY <2>1, EventRequests, EarlierReports
  <2> HIDE DEF e, DetectConflict
  <2>7. QED
    BY <2>1, <2>2, <2>3, <2>4, <2>5, <2>6, EarlierReports, Appended DEF ReportsInv
<1>5. PromptInv'
  BY DEF IInv, TypeOK, ThreadsInv, ReportsInv, PromptInv, TrashPromptOwnsQueueHead, PromptFacesBlockedWorker
<1>6. TokenInv'
  BY TypeOfTask DEF IInv, TypeOK, ThreadsInv, TokenInv, Answered
<1>7. ConsentInv'
  BY TypeOfTask DEF IInv, ThreadsInv, TokenInv, Answered, ConsentInv, NothingDestroyedUnasked
<1>8. QED
  BY <1>1, <1>2, <1>3, <1>4, <1>5, <1>6, <1>7 DEF IInv

LEMMA AcquireStep == ASSUME IInv, Acquire PROVE IInv'
<1> USE DEF WorkerStep, guiVars, promptVars, histVars, sharedVars, Acquire
<1>1. TypeOK'
  <2>1. tokens' \in [0 .. MaxTasks -> 0 .. MaxTokens]
    <3>1. TypeOK /\ ThreadsInv /\ tokens \in [0 .. MaxTasks -> 0 .. MaxTokens]
      BY DEF IInv, TypeOK
    <3>2. task.id \in 0 .. MaxTasks
      BY <3>1, TypeOfTask
    <3>3. tokens[task.id] - 1 \in 0 .. MaxTokens
      BY <3>1, <3>2
    <3>4. QED
      BY <3>1, <3>3
  <2>2. QED
    BY <2>1 DEF IInv, TypeOK, Items
<1>2. QueueInv'
  BY DEF IInv, QueueInv
<1>3. ThreadsInv'
  BY TypeOfTask DEF IInv, TypeOK, ThreadsInv, Task, NoTask
<1>4. ReportsInv'
  <2>1. /\ TypeOK /\ ThreadsInv /\ pc = "wait" /\ tokens[task.id] # 0
        /\ UNCHANGED <<events, active, serial, cancelled>>
    BY DEF IInv, TypeOK
  <2>2. tokens[active] # 0
    BY <2>1, TypeOfTask
  <2> HIDE DEF Acquire, WorkerStep
  <2>3. \A i \in 1 .. Len(events) :
          /\ events[i].task = active /\ events[i].request <= serial
          /\ events[i].type # "finished"
          /\ events[i].type = "conflict" => cancelled[active]
    BY <2>1, <2>2 DEF IInv, ReportsInv
  <2>4. QED
    BY <2>1, <2>3 DEF ReportsInv
<1>5. PromptInv'
  <2>1. prompt = "none"
    <3>1. pc = "wait" /\ tokens[task.id] # 0
      BY TypeOfTask DEF IInv, TypeOK
    <3>2. QED
      BY <3>1 DEF IInv, TypeOK, PromptInv, TrashPromptOwnsQueueHead, PromptFacesBlockedWorker
  <2>2. QED
    BY <2>1 DEF IInv, PromptInv, TrashPromptOwnsQueueHead, PromptFacesBlockedWorker
<1>6. TokenInv'
  <2>1. /\ TypeOK /\ ThreadsInv /\ pc = "wait" /\ tokens[task.id] > 0 /\ pc' = "woken"
        /\ tokens' = [tokens EXCEPT ![task.id] = @ - 1]
        /\ tokens \in [0 .. MaxTasks -> 0 .. MaxTokens]
        /\ UNCHANGED <<busy, active, cancelled, task, item, answer, consent>>
    BY DEF IInv, TypeOK
  <2>2. task.id = active /\ active \in 0 .. MaxTasks
    BY <2>1, TypeOfTask
  <2> HIDE DEF Acquire, WorkerStep
  <2>3. ASSUME busy, ~cancelled[active] PROVE tokens'[active] = 0 /\ Answered
    BY <2>1, <2>2, <2>3 DEF IInv, TokenInv
  <2>4. QED
    BY <2>1, <2>2, <2>3 DEF TokenInv, Answered
<1>7. ConsentInv'
  BY TypeOfTask DEF IInv, ThreadsInv, TokenInv, Answered, ConsentInv, NothingDestroyedUnasked
<1>8. QED
  BY <1>1, <1>2, <1>3, <1>4, <1>5, <1>6, <1>7 DEF IInv

LEMMA AbortWaitStep == ASSUME IInv, AbortWait PROVE IInv'
<1> USE DEF WorkerStep, guiVars, promptVars, histVars, sharedVars, AbortWait
<1>1. TypeOK'
  BY DEF IInv, TypeOK, Items
<1>2. QueueInv'
  BY DEF IInv, QueueInv
<1>3. ThreadsInv'
  BY TypeOfTask DEF IInv, TypeOK, ThreadsInv, Task, NoTask
<1>4. ReportsInv'
  BY TypeOfTask DEF IInv, TypeOK, ThreadsInv, ReportsInv, PromptInv, PromptFacesBlockedWorker
<1>5. PromptInv'
  BY DEF IInv, TypeOK, ThreadsInv, ReportsInv, PromptInv, TrashPromptOwnsQueueHead, PromptFacesBlockedWorker
<1>6. TokenInv'
  BY TypeOfTask DEF IInv, TypeOK, ThreadsInv, TokenInv, Answered
<1>7. ConsentInv'
  BY TypeOfTask DEF IInv, ThreadsInv, TokenInv, Answered, ConsentInv, NothingDestroyedUnasked
<1>8. QED
  BY <1>1, <1>2, <1>3, <1>4, <1>5, <1>6, <1>7 DEF IInv

LEMMA ReadSkipStep == ASSUME IInv, ReadSkip PROVE IInv'
<1> USE DEF WorkerStep, guiVars, promptVars, histVars, sharedVars, ReadSkip, Post
<1>1. TypeOK'
  <2>1. events' \in Seq(EventRecord)
    BY EventType DEF IInv, TypeOK
  <2>2. tally' \in Tally
    BY AddedType DEF IInv
  <2>3. item' \in Items
    BY TypeOfItem DEF IInv
  <2>4. QED
    BY <2>1, <2>2, <2>3 DEF IInv, TypeOK, Items
<1>2. QueueInv'
  BY DEF IInv, QueueInv
<1>3. ThreadsInv'
  <2>1. pc' = "loop" /\ item' = item + 1 /\ ~overwrite' /\ pc \notin {"idle", "loop"}
    BY DEF IInv, ThreadsInv
  <2>2. UNCHANGED <<task, inbox, busy, active, ctl, cancelled>>
    OBVIOUS
  <2>3. item + 1 <= task.size + 1 /\ 1 <= item + 1
    BY <2>1, TypeOfItem DEF IInv
  <2> HIDE DEF ReadSkip, WorkerStep
  <2>4. QED
    BY <2>1, <2>2, <2>3 DEF IInv, ThreadsInv
<1>4. ReportsInv'
  BY ReportPosted DEF IInv
<1>5. PromptInv'
  BY DEF IInv, TypeOK, ThreadsInv, ReportsInv, PromptInv, TrashPromptOwnsQueueHead, PromptFacesBlockedWorker
<1>6. TokenInv'
  BY TypeOfTask DEF IInv, TypeOK, ThreadsInv, TokenInv, Answered
<1>7. ConsentInv'
  BY TypeOfTask DEF IInv, ThreadsInv, TokenInv, Answered, ConsentInv, NothingDestroyedUnasked
<1>8. QED
  BY <1>1, <1>2, <1>3, <1>4, <1>5, <1>6, <1>7 DEF IInv

LEMMA ReadAnswerStep == ASSUME IInv, ReadAnswer PROVE IInv'
<1> USE DEF WorkerStep, guiVars, promptVars, histVars, sharedVars, ReadAnswer
<1>1. TypeOK'
  BY DEF IInv, TypeOK, Items
<1>2. QueueInv'
  BY DEF IInv, QueueInv
<1>3. ThreadsInv'
  BY TypeOfTask DEF IInv, TypeOK, ThreadsInv, Task, NoTask
<1>4. ReportsInv'
  BY TypeOfTask DEF IInv, TypeOK, ThreadsInv, ReportsInv, PromptInv, PromptFacesBlockedWorker
<1>5. PromptInv'
  BY DEF IInv, TypeOK, ThreadsInv, ReportsInv, PromptInv, TrashPromptOwnsQueueHead, PromptFacesBlockedWorker
<1>6. TokenInv'
  BY TypeOfTask DEF IInv, TypeOK, ThreadsInv, TokenInv, Answered
<1>7. ConsentInv'
  <2>1. busy /\ ~cancelled[active] /\ task.id = active /\ pc = "woken" /\ task.kind # "trash"
    BY DEF IInv, ThreadsInv
  <2>2. [task |-> task.id, item |-> item, says |-> answer[task.id]] \in consent
    BY <2>1 DEF IInv, TokenInv, Answered
  <2>3. answer[task.id] # "rename" => answer[task.id] = "overwrite"
    <3>1. answer[task.id] \in Answers \cup {"trash"}
      BY <2>2 DEF IInv, TypeOK, Consent
    <3>2. answer[task.id] \in Answers \cup {NoAnswer}
      BY TypeOfTask DEF IInv, TypeOK
    <3>3. QED
      BY <3>1, <3>2 DEF Answers, NoAnswer
  <2>4. UNCHANGED <<task, item, consent, inbox>>
    OBVIOUS
  <2>5. QED
    BY <2>1, <2>2, <2>3, <2>4 DEF IInv, ConsentInv, NothingDestroyedUnasked
<1>8. QED
  BY <1>1, <1>2, <1>3, <1>4, <1>5, <1>6, <1>7 DEF IInv

LEMMA BeginOperationStep == ASSUME IInv, BeginOperation PROVE IInv'
<1> USE DEF WorkerStep, guiVars, promptVars, histVars, sharedVars, BeginOperation
<1>1. TypeOK'
  BY DEF IInv, TypeOK, Items
<1>2. QueueInv'
  BY DEF IInv, QueueInv
<1>3. ThreadsInv'
  BY TypeOfTask DEF IInv, TypeOK, ThreadsInv, Task, NoTask
<1>4. ReportsInv'
  BY TypeOfTask DEF IInv, TypeOK, ThreadsInv, ReportsInv, PromptInv, PromptFacesBlockedWorker
<1>5. PromptInv'
  BY DEF IInv, TypeOK, ThreadsInv, ReportsInv, PromptInv, TrashPromptOwnsQueueHead, PromptFacesBlockedWorker
<1>6. TokenInv'
  BY TypeOfTask DEF IInv, TypeOK, ThreadsInv, TokenInv, Answered
<1>7. ConsentInv'
  BY TypeOfTask DEF IInv, ThreadsInv, TokenInv, Answered, ConsentInv, NothingDestroyedUnasked
<1>8. QED
  BY <1>1, <1>2, <1>3, <1>4, <1>5, <1>6, <1>7 DEF IInv

LEMMA EndOperationStep == ASSUME IInv, NEW outcome, EndOperation(outcome) PROVE IInv'
<1> USE DEF WorkerStep, guiVars, promptVars, histVars, sharedVars, EndOperation, Post
<1>1. TypeOK'
  <2>1. events' \in Seq(EventRecord)
    BY EventType DEF IInv, TypeOK
  <2>2. tally' \in Tally
    BY TallyType DEF IInv
  <2>3. item' \in Items
    BY TypeOfItem DEF IInv
  <2>4. QED
    BY <2>1, <2>2, <2>3 DEF IInv, TypeOK, Items
<1>2. QueueInv'
  BY DEF IInv, QueueInv
<1>3. ThreadsInv'
  <2>1. pc' = "loop" /\ item' = item + 1 /\ ~overwrite' /\ pc \notin {"idle", "loop"}
    BY DEF IInv, ThreadsInv
  <2>2. UNCHANGED <<task, inbox, busy, active, ctl, cancelled>>
    OBVIOUS
  <2>3. item + 1 <= task.size + 1 /\ 1 <= item + 1
    BY <2>1, TypeOfItem DEF IInv
  <2> HIDE DEF EndOperation, WorkerStep
  <2>4. QED
    BY <2>1, <2>2, <2>3 DEF IInv, ThreadsInv
<1>4. ReportsInv'
  BY ReportPosted DEF IInv
<1>5. PromptInv'
  BY DEF IInv, TypeOK, ThreadsInv, ReportsInv, PromptInv, TrashPromptOwnsQueueHead, PromptFacesBlockedWorker
<1>6. TokenInv'
  BY TypeOfTask DEF IInv, TypeOK, ThreadsInv, TokenInv, Answered
<1>7. ConsentInv'
  BY TypeOfTask DEF IInv, ThreadsInv, TokenInv, Answered, ConsentInv, NothingDestroyedUnasked
<1>8. QED
  BY <1>1, <1>2, <1>3, <1>4, <1>5, <1>6, <1>7 DEF IInv

LEMMA OperationCancelledStep == ASSUME IInv, NEW outcome, OperationCancelled(outcome) PROVE IInv'
<1> USE DEF WorkerStep, guiVars, promptVars, histVars, sharedVars, OperationCancelled
<1>1. TypeOK'
  <2>1. tally' \in Tally
    BY TallyType DEF IInv, TypeOK
  <2>2. QED
    BY <2>1 DEF IInv, TypeOK, Items
<1>2. QueueInv'
  BY DEF IInv, QueueInv
<1>3. ThreadsInv'
  BY TypeOfTask DEF IInv, TypeOK, ThreadsInv, Task, NoTask
<1>4. ReportsInv'
  BY TypeOfTask DEF IInv, TypeOK, ThreadsInv, ReportsInv, PromptInv, PromptFacesBlockedWorker
<1>5. PromptInv'
  BY DEF IInv, TypeOK, ThreadsInv, ReportsInv, PromptInv, TrashPromptOwnsQueueHead, PromptFacesBlockedWorker
<1>6. TokenInv'
  BY TypeOfTask DEF IInv, TypeOK, ThreadsInv, TokenInv, Answered
<1>7. ConsentInv'
  BY TypeOfTask DEF IInv, ThreadsInv, TokenInv, Answered, ConsentInv, NothingDestroyedUnasked
<1>8. QED
  BY <1>1, <1>2, <1>3, <1>4, <1>5, <1>6, <1>7 DEF IInv

-----------------------------------------------------------------------------
(* The delivery of the worker's reports.                                   *)

LEMMA Shifted ==
  ASSUME TypeOK, events # <<>>
  PROVE  /\ Head(events) = events[1] /\ Tail(events) \in Seq(EventRecord)
         /\ Len(events) \in Nat /\ Len(events) >= 1
         /\ Len(Tail(events)) = Len(events) - 1
         /\ Len(events) = 1 => Tail(events) = <<>>
         /\ \A i \in 1 .. Len(Tail(events)) :
              i + 1 \in 1 .. Len(events) /\ Tail(events)[i] = events[i + 1]
<1>1. events \in Seq(EventRecord)
  BY DEF TypeOK
<1>2. QED
  BY <1>1

\* The first report is taken and nothing changes that the others depend on.
LEMMA ReportTaken ==
  ASSUME IInv, events # <<>>, events' = Tail(events),
         UNCHANGED <<active, serial, cancelled, pc, inbox, request, item, tokens,
                     prompt, lastPrompt>>
  PROVE  ReportsInv'
<1>1. TypeOK
  BY DEF IInv
<1>2. ASSUME NEW i \in 1 .. Len(events')
      PROVE  /\ events'[i] = events[i + 1] /\ i + 1 \in 1 .. Len(events)
             /\ i + 1 = Len(events) <=> i = Len(events')
  BY <1>1, Shifted
<1>3. QED
  BY <1>2 DEF IInv, ReportsInv

LEMMA ProgressStep ==
  ASSUME IInv, events # <<>>, events' = Tail(events), currentItem' \in Items, itemsDone' \in Nat,
         UNCHANGED <<workerVars, exited, queue, busy, active, stopping, nextTask, ctl,
                     itemsTotal, promptVars, sharedVars, histVars, inbox>>
  PROVE  IInv'
<1> USE DEF workerVars, promptVars, sharedVars, histVars
<1>1. TypeOK'
  BY Shifted DEF IInv, TypeOK
<1>2. QueueInv'
  BY DEF IInv, QueueInv
<1>3. ThreadsInv'
  BY DEF IInv, ThreadsInv
<1>4. ReportsInv'
  BY ReportTaken
<1>5. PromptInv'
  BY DEF IInv, PromptInv, TrashPromptOwnsQueueHead, PromptFacesBlockedWorker
<1>6. TokenInv' /\ ConsentInv'
  BY DEF IInv, TokenInv, Answered, ConsentInv, NothingDestroyedUnasked
<1>7. QED
  BY <1>1, <1>2, <1>3, <1>4, <1>5, <1>6 DEF IInv

LEMMA StartedStep ==
  ASSUME IInv, Delivered("started"), OnItemStarted(Head(events)) PROVE IInv'
<1>1. events # <<>> /\ TypeOK /\ events' = Tail(events)
  BY DEF IInv, Delivered
<1>2. Head(events) \in EventRecord
  BY <1>1, Shifted, EventRequests
<1>3. currentItem' \in Items
  BY <1>1, <1>2 DEF OnItemStarted, EventRecord, TypeOK
<1>4. itemsDone' \in Nat
  BY <1>1 DEF OnItemStarted, TypeOK
<1>5. QED
  BY <1>1, <1>3, <1>4, ProgressStep DEF OnItemStarted, Delivered

LEMMA ProcessedStep ==
  ASSUME IInv, Delivered("processed"), OnItemFinished(Head(events)) PROVE IInv'
<1>1. events # <<>> /\ TypeOK /\ events' = Tail(events)
  BY DEF IInv, Delivered
<1>2. currentItem' \in Items
  BY <1>1 DEF OnItemFinished, TypeOK
<1>3. itemsDone' \in Nat
  BY <1>1 DEF OnItemFinished, TypeOK
<1>4. QED
  BY <1>1, <1>2, <1>3, ProgressStep DEF OnItemFinished, Delivered

\* A question that nobody has cancelled comes from a worker that still waits.
LEMMA ConflictStep ==
  ASSUME IInv, Delivered("conflict"), OnConflictDetected(Head(events)) PROVE IInv'
<1> DEFINE e == Head(events)
<1>1. /\ events # <<>> /\ TypeOK /\ events' = Tail(events) /\ e.type = "conflict"
      /\ UNCHANGED <<guiVars, sharedVars, consent, barrier, inbox, workerVars, exited>>
  BY DEF IInv, Delivered, OnConflictDetected
<1>2. /\ e \in EventRecord /\ e = events[1] /\ 1 \in 1 .. Len(events)
      /\ Len(events) = 1 => Tail(events) = <<>>
      /\ Tail(events) \in Seq(EventRecord)
  BY <1>1, Shifted, EventRequests
<1>3. CASE Ignored(e) \/ stopping \/ Stale(e)
  <2>1. UNCHANGED <<promptVars, shown>>
    BY <1>3 DEF OnConflictDetected
  <2>2. currentItem' \in Items /\ itemsDone' \in Nat
    BY <1>1 DEF TypeOK, guiVars
  <2>3. QED
    BY <1>1, <2>1, <2>2, ProgressStep DEF guiVars, histVars
<1>4. CASE ~(Ignored(e) \/ stopping \/ Stale(e))
  <2>1. /\ prompt' = "conflict" /\ promptId' = e.request /\ lastPrompt' = e.request
        /\ promptItem' = e.item
        /\ shown' = shown \cup {[id |-> e.request, task |-> e.task, item |-> e.item]}
    BY <1>4 DEF OnConflictDetected
  <2>2. e.task = active /\ busy /\ ~cancelled[ctl] /\ ctl = active /\ ~stopping
    BY <1>4 DEF Ignored, IInv, ThreadsInv
  <2>3. /\ Len(events) = 1 /\ pc = "wait" /\ request = e.request /\ item = e.item
        /\ lastPrompt < request /\ tokens[active] = 0 /\ prompt = "none"
    BY <1>1, <1>2, <2>2 DEF IInv, ReportsInv
  <2>4. events' = <<>> /\ task.id = active /\ request <= serial
    BY <1>1, <1>2, <2>3 DEF IInv, ThreadsInv, PromptInv
  <2>5. e.request \in Nat /\ e.item \in Items /\ e.task \in TaskIds
    BY <1>2 DEF EventRecord
  <2> HIDE DEF e
  <2>6. TypeOK'
    <3>1. shown' \subseteq Question
      <4>1. [id |-> e.request, task |-> e.task, item |-> e.item] \in Question
        BY <2>5 DEF Question
      <4>2. shown \subseteq Question
        BY <1>1 DEF TypeOK
      <4>3. QED
        BY <2>1, <4>1, <4>2
    <3>2. QED
      BY <1>1, <1>2, <2>1, <2>5, <3>1 DEF TypeOK, guiVars, sharedVars, workerVars
  <2>7. QueueInv' /\ ThreadsInv'
    BY <1>1, <2>4 DEF IInv, QueueInv, ThreadsInv, guiVars, sharedVars, workerVars
  <2>8. ReportsInv'
    BY <2>4 DEF ReportsInv
  <2>9. PromptInv'
    <3>1. \A q \in shown : q.id <= lastPrompt /\ q.id \in Nat
      BY <1>1 DEF IInv, PromptInv, TypeOK, Question
    <3>2. \A q \in shown : q.id <= lastPrompt' /\ q.id # promptId'
      BY <3>1, <2>1, <2>3, <2>5, <1>1 DEF TypeOK
    <3>3. UNCHANGED <<busy, stopping, ctl, active, pc, task, request, cancelled, tokens, item, serial>>
      BY <1>1 DEF guiVars, sharedVars, workerVars
    <3>4. QED
      BY <2>1, <2>2, <2>3, <2>4, <2>5, <3>2, <3>3
      DEF PromptInv, TrashPromptOwnsQueueHead, PromptFacesBlockedWorker
  <2>10. TokenInv' /\ ConsentInv'
    BY <1>1 DEF IInv, TokenInv, Answered, ConsentInv, NothingDestroyedUnasked,
                guiVars, sharedVars, workerVars
  <2>11. QED
    BY <2>6, <2>7, <2>8, <2>9, <2>10 DEF IInv
<1>5. QED
  BY <1>3, <1>4

-----------------------------------------------------------------------------
(* The start of the next task, while the worker is idle.                   *)

\* Tasks that may be queued when nextTask' were submitted.
QueueOK(q) ==
  \A i \in 1 .. Len(q) :
    /\ q[i].id > ctl /\ q[i].id > barrier /\ q[i].id <= nextTask'
    /\ \A j \in 1 .. Len(q) : i < j => q[i].id < q[j].id

\* The worker is idle, and stays so for the moment.
Idle ==
  /\ pc = "idle" /\ inbox = <<>> /\ events' = <<>>
  /\ nextTask' \in 0 .. MaxTasks /\ nextTask <= nextTask'
  /\ UNCHANGED <<stopping, workerVars, barrier, exited>>
  /\ consent' \subseteq Consent

LEMMA AppendTo ==
  ASSUME NEW S, NEW q \in Seq(S), NEW x \in S
  PROVE  /\ Append(q, x) \in Seq(S) /\ Append(q, x) # <<>> /\ Len(Append(q, x)) = Len(q) + 1
         /\ Append(q, x)[Len(q) + 1] = x
         /\ \A i \in 1 .. Len(q) : Append(q, x)[i] = q[i]
  OBVIOUS

\* What TasksStartInTurn says of a step that starts a task.
InTurn ==
  /\ active' > ctl /\ active' > barrier
  /\ pc = "idle" /\ inbox = <<>> /\ events' = <<>>
  /\ ~stopping

LEMMA HeadTail ==
  ASSUME NEW S, NEW q \in Seq(S), q # <<>>
  PROVE  /\ Len(q) \in Nat /\ Len(q) >= 1 /\ Head(q) = q[1] /\ Head(q) \in S
         /\ Tail(q) \in Seq(S) /\ Len(Tail(q)) = Len(q) - 1
         /\ \A i \in 1 .. Len(Tail(q)) : i + 1 \in 1 .. Len(q) /\ Tail(q)[i] = q[i + 1]
  OBVIOUS

LEMMA StartStep ==
  ASSUME IInv, Idle, ~stopping, NEW q \in Seq(Task), q # <<>>, QueueOK(q),
         StartTask(Head(q)), queue' = Tail(q), ResetPrompt, UNCHANGED <<serial, shown>>,
         Head(q).kind = "trash" =>
           [task |-> Head(q).id, item |-> 0, says |-> "trash"] \in consent'
  PROVE  IInv' /\ InTurn
<1> DEFINE t == Head(q)
<1>1. t \in Task /\ t.id \in TaskIds /\ t.id \in 0 .. MaxTasks /\ t.id # 0
      /\ t.size \in 0 .. MaxItems /\ t = q[1]
  <2>1. t \in Task /\ t = q[1]
    BY HeadTail
  <2> HIDE DEF t
  <2>2. QED
    BY <2>1 DEF Task, TaskIds
<1>2. /\ cancelled' = [i \in 0 .. MaxTasks |-> FALSE]
      /\ tokens' = [i \in 0 .. MaxTasks |-> 0]
      /\ answer' = [i \in 0 .. MaxTasks |-> NoAnswer]
  <2>1. /\ cancelled' = Fresh(cancelled, FALSE) /\ tokens' = Fresh(tokens, 0)
        /\ answer' = Fresh(answer, NoAnswer) /\ pc = "idle"
    BY DEF Idle, StartTask
  <2>2. task.id = 0
    BY <2>1 DEF IInv, ThreadsInv, NoTask
  <2>3. QED
    BY <2>1, <2>2 DEF Fresh
<1>3. /\ active' = t.id /\ busy' = TRUE /\ ctl' = t.id
      /\ itemsDone' = 0 /\ currentItem' = 0 /\ itemsTotal' = t.size
      /\ inbox' = <<t>>
  BY DEF StartTask, ResetProgress, Idle
<1>4. /\ prompt' = "none" /\ promptId' = 0 /\ promptItem' = 0
      /\ UNCHANGED <<lastPrompt, serial, shown, stopping, workerVars, barrier, exited>>
      /\ pc = "idle" /\ events' = <<>>
  BY DEF ResetPrompt, Idle
<1>5. /\ queue' \in Seq(Task) /\ inbox' \in Seq(Task)
      /\ inbox' # <<>> /\ Len(inbox') = 1 /\ inbox'[1] = t
  BY <1>1, <1>3, HeadTail
<1> HIDE DEF t
<1>6. TypeOK'
  <2>1. events' \in Seq(EventRecord) /\ currentItem' \in Items /\ promptItem' \in Items
    BY <1>3, <1>4 DEF Items
  <2>2. nextTask' \in 0 .. MaxTasks /\ consent' \subseteq Consent
    BY DEF Idle
  <2>3. /\ cancelled' \in [0 .. MaxTasks -> BOOLEAN]
        /\ tokens' \in [0 .. MaxTasks -> 0 .. MaxTokens]
        /\ answer' \in [0 .. MaxTasks -> Answers \cup {NoAnswer}]
    BY <1>2
  <2>4. QED
    BY <1>1, <1>3, <1>4, <1>5, <2>1, <2>2, <2>3 DEF IInv, TypeOK, workerVars
<1>7. QueueInv'
  <2>1. \A i \in 1 .. Len(q) : q[i].id \in Nat /\ q[i] \in Task
    <3>1. \A i \in 1 .. Len(q) : q[i] \in Task
      OBVIOUS
    <3>2. QED
      BY <3>1 DEF Task, TaskIds
  <2>2. \A i \in 1 .. Len(queue') : i + 1 \in 1 .. Len(q) /\ queue'[i] = q[i + 1]
    BY HeadTail
  <2>3. 1 \in 1 .. Len(q) /\ Len(q) \in Nat /\ Len(queue') \in Nat
    BY HeadTail
  <2>4. barrier <= nextTask' /\ ctl' <= nextTask'
    BY <1>1, <1>3, <2>3 DEF QueueOK, IInv, TypeOK, QueueInv, Idle
  <2>5. \A i \in 1 .. Len(queue') :
          /\ queue'[i].id > ctl' /\ queue'[i].id > barrier /\ queue'[i].id <= nextTask'
          /\ \A j \in 1 .. Len(queue') : i < j => queue'[i].id < queue'[j].id
    BY <1>1, <1>3, <2>1, <2>2, <2>3 DEF QueueOK
  <2>6. QED
    BY <1>4, <2>4, <2>5 DEF QueueInv
<1>8. ThreadsInv'
  <2>1. task = NoTask
    BY <1>4 DEF IInv, ThreadsInv
  <2>2. QED
    BY <1>1, <1>3, <1>4, <1>5, <2>1 DEF ThreadsInv, workerVars
<1>9. ReportsInv'
  BY <1>4 DEF ReportsInv
<1>10. PromptInv'
  BY <1>4 DEF IInv, PromptInv, TrashPromptOwnsQueueHead, PromptFacesBlockedWorker, workerVars
<1>11. TokenInv'
  BY <1>1, <1>2, <1>3, <1>4 DEF TokenInv, workerVars
<1>12. ConsentInv'
  BY <1>4, <1>5 DEF ConsentInv, NothingDestroyedUnasked, workerVars, t
<1>13. InTurn
  <2>1. 1 \in 1 .. Len(q)
    BY HeadTail
  <2>2. QED
    BY <1>1, <1>3, <2>1 DEF QueueOK, Idle, InTurn
<1>14. QED
  BY <1>6, <1>7, <1>8, <1>9, <1>10, <1>11, <1>12, <1>13 DEF IInv

\* dispatchNextTask when nothing runs and no question is open.
LEMMA DispatchStep ==
  ASSUME IInv, Idle, NEW q \in Seq(Task), QueueOK(q), stopping => q = <<>>,
         NEW current \in 0 .. MaxTasks, DispatchNext(q, FALSE, FALSE, current)
  PROVE  IInv' /\ (Starts => InTurn)
<1>1. CASE Blocked(q, FALSE, FALSE)
  <2>1. /\ queue' = q /\ busy' = FALSE /\ active' = current
        /\ UNCHANGED <<startVars, serial, shown, lastPrompt>>
        /\ prompt' = "none" /\ promptId' = 0 /\ promptItem' = 0
    BY <1>1 DEF DispatchNext, ResetPrompt
  <2>2. /\ pc = "idle" /\ inbox = <<>> /\ events' = <<>> /\ inbox' = <<>>
        /\ UNCHANGED <<stopping, workerVars, barrier, exited, lastPrompt, ctl, serial, shown,
                       currentItem, itemsDone, itemsTotal, cancelled, tokens, answer>>
        /\ nextTask' \in 0 .. MaxTasks /\ nextTask <= nextTask' /\ consent' \subseteq Consent
    BY <2>1 DEF Idle, startVars
  <2>3. TypeOK'
    <3>1. events' \in Seq(EventRecord) /\ inbox' \in Seq(Task) /\ promptItem' \in Items
      BY <2>1, <2>2 DEF Items
    <3>2. QED
      BY <2>1, <2>2, <3>1 DEF IInv, TypeOK, workerVars
  <2>4. QueueInv'
    <3>1. barrier <= nextTask' /\ ctl <= nextTask'
      BY <2>2 DEF IInv, TypeOK, QueueInv
    <3>2. QED
      BY <2>1, <2>2, <3>1 DEF IInv, QueueInv, QueueOK
  <2>5. ThreadsInv' /\ ReportsInv' /\ TokenInv'
    BY <2>1, <2>2 DEF IInv, ThreadsInv, ReportsInv, TokenInv, workerVars
  <2>6. PromptInv'
    BY <2>1, <2>2 DEF IInv, PromptInv, TrashPromptOwnsQueueHead, PromptFacesBlockedWorker, workerVars
  <2>7. ConsentInv'
    BY <2>1, <2>2 DEF IInv, ConsentInv, NothingDestroyedUnasked, workerVars
  <2>8. QED
    BY <2>1, <2>3, <2>4, <2>5, <2>6, <2>7 DEF IInv, Starts
<1>2. CASE ~Blocked(q, FALSE, FALSE) /\ Head(q).kind = "trash"
  <2> DEFINE t == Head(q)
  <2>1. /\ q # <<>> /\ ~stopping /\ queue' = q /\ busy' = FALSE
        /\ UNCHANGED startVars /\ AskToTrash(t)
    BY <1>2 DEF DispatchNext, Blocked
  <2>2. t \in Task /\ t.id \in TaskIds /\ t.id \in 0 .. MaxTasks /\ t.kind = "trash"
    <3>1. t \in Task /\ t.kind = "trash"
      BY <1>2, <2>1, HeadTail
    <3> HIDE DEF t
    <3>2. QED
      BY <3>1 DEF Task, TaskIds
  <2> HIDE DEF t
  <2>3. /\ active' = t.id /\ serial' = serial + 1 /\ promptId' = serial + 1
        /\ lastPrompt' = serial + 1 /\ prompt' = "trash" /\ promptItem' = 0
        /\ shown' = shown \cup {[id |-> serial + 1, task |-> t.id, item |-> 0]}
    BY <2>1 DEF AskToTrash
  <2>4. /\ pc = "idle" /\ inbox = <<>> /\ events' = <<>> /\ inbox' = <<>>
        /\ UNCHANGED <<stopping, workerVars, barrier, exited, ctl,
                       currentItem, itemsDone, itemsTotal, cancelled, tokens, answer>>
        /\ nextTask' \in 0 .. MaxTasks /\ nextTask <= nextTask' /\ consent' \subseteq Consent
    BY <2>1 DEF Idle, startVars
  <2>5. serial \in Nat /\ serial + 1 \in Nat /\ lastPrompt \in Nat /\ request \in Nat
    BY DEF IInv, TypeOK
  <2>6. TypeOK'
    <3>1. events' \in Seq(EventRecord) /\ inbox' \in Seq(Task) /\ promptItem' \in Items
      BY <2>3, <2>4 DEF Items
    <3>2. shown' \subseteq Question
      BY <2>2, <2>3, <2>5 DEF IInv, TypeOK, Question, Items
    <3>3. QED
      BY <2>1, <2>2, <2>3, <2>4, <2>5, <3>1, <3>2 DEF IInv, TypeOK, workerVars
  <2>7. QueueInv'
    <3>1. barrier <= nextTask' /\ ctl <= nextTask'
      BY <2>4 DEF IInv, TypeOK, QueueInv
    <3>2. QED
      BY <2>1, <2>4, <3>1 DEF IInv, QueueInv, QueueOK
  <2>8. ThreadsInv' /\ ReportsInv' /\ TokenInv'
    BY <2>1, <2>4 DEF IInv, ThreadsInv, ReportsInv, TokenInv, workerVars
  <2>9. PromptInv'
    <3>1. \A s \in shown : s.id \in Nat /\ s.id <= lastPrompt /\ lastPrompt <= serial
      BY DEF IInv, PromptInv, TypeOK, Question
    <3>2. \A s \in shown : s.id <= serial + 1 /\ s.id # serial + 1
      BY <3>1, <2>5
    <3>3. request' <= serial'
      BY <2>3, <2>4, <2>5 DEF IInv, PromptInv, workerVars
    <3>4. \A s \in shown' :
            s.id <= lastPrompt' /\ (s.id = promptId' => s.task = active' /\ s.item = promptItem')
      BY <2>3, <2>5, <3>2
    <3>5. TrashPromptOwnsQueueHead'
      BY <2>1, <2>2, <2>3, <2>4 DEF TrashPromptOwnsQueueHead, workerVars, t
    <3>6. QED
      BY <2>1, <2>3, <2>4, <2>5, <3>3, <3>4, <3>5 DEF PromptInv, PromptFacesBlockedWorker
  <2>10. ConsentInv'
    BY <2>1, <2>4 DEF IInv, ConsentInv, NothingDestroyedUnasked, workerVars
  <2>11. QED
    BY <2>1, <2>6, <2>7, <2>8, <2>9, <2>10 DEF IInv, Starts
<1>3. CASE ~Blocked(q, FALSE, FALSE) /\ Head(q).kind # "trash"
  <2>1. /\ q # <<>> /\ ~stopping /\ queue' = Tail(q) /\ StartTask(Head(q)) /\ ResetPrompt
        /\ UNCHANGED <<serial, shown>>
    BY <1>3 DEF DispatchNext, Blocked
  <2>2. QED
    BY <1>3, <2>1, StartStep
<1>4. QED
  BY <1>1, <1>2, <1>3

\* What is queued may be queued still.
LEMMA QueueStaysOK ==
  ASSUME IInv, nextTask' \in 0 .. MaxTasks, nextTask <= nextTask'
  PROVE  queue \in Seq(Task) /\ QueueOK(queue)
<1>1. queue \in Seq(Task) /\ nextTask \in Nat
  BY DEF IInv, TypeOK
<1>2. \A i \in 1 .. Len(queue) : queue[i].id \in Nat
  <2>1. \A i \in 1 .. Len(queue) : queue[i] \in Task
    BY <1>1
  <2>2. QED
    BY <2>1 DEF Task, TaskIds
<1>3. QED
  BY <1>1, <1>2 DEF QueueOK, IInv, QueueInv

LEMMA FinishedStep ==
  ASSUME IInv, Delivered("finished"), OnTaskFinished(Head(events))
  PROVE  IInv' /\ (Starts => InTurn)
<1> DEFINE e == Head(events)
<1>1. /\ events # <<>> /\ TypeOK /\ events' = Tail(events) /\ e.type = "finished"
      /\ UNCHANGED <<workerVars, exited, barrier>> /\ consent' = {}
  BY DEF IInv, Delivered, OnTaskFinished
<1>2. /\ e = events[1] /\ 1 \in 1 .. Len(events)
      /\ Len(events) = 1 => Tail(events) = <<>>
  BY <1>1, Shifted
<1>3. e.task = active /\ pc = "idle" /\ inbox = <<>> /\ events' = <<>>
  BY <1>1, <1>2 DEF IInv, ReportsInv
<1>4. DispatchNext(queue, FALSE, FALSE, 0) /\ UNCHANGED <<stopping, nextTask>>
  BY <1>3 DEF OnTaskFinished, Unrelated
<1>5. nextTask' \in 0 .. MaxTasks /\ nextTask <= nextTask'
  BY <1>1, <1>4 DEF TypeOK
<1>6. Idle
  BY <1>1, <1>3, <1>4, <1>5 DEF Idle
<1>7. queue \in Seq(Task) /\ QueueOK(queue) /\ (stopping => queue = <<>>)
  BY <1>5, QueueStaysOK DEF IInv, QueueInv
<1>8. 0 \in 0 .. MaxTasks
  OBVIOUS
<1>9. QED
  BY <1>4, <1>6, <1>7, <1>8, DispatchStep

LEMMA DeliverStep == ASSUME IInv, Deliver PROVE IInv'
  BY StartedStep, ProcessedStep, ConflictStep, FinishedStep DEF Deliver

-----------------------------------------------------------------------------
(* The operations of the user.                                             *)

\* A trash prompt on screen: nothing runs, and its task heads the queue.
LEMMA TrashPrompt ==
  ASSUME IInv, prompt = "trash", UNCHANGED <<stopping, nextTask, workerVars, barrier, events, exited>>,
         consent' \subseteq Consent
  PROVE  /\ Idle /\ ~busy /\ ~stopping /\ queue # <<>>
         /\ Head(queue).kind = "trash" /\ Head(queue).id = active
         /\ queue \in Seq(Task) /\ QueueOK(queue)
         /\ Tail(queue) \in Seq(Task) /\ QueueOK(Tail(queue))
<1>1. /\ ~busy /\ ~stopping /\ queue # <<>> /\ pc = "idle" /\ inbox = <<>>
      /\ Head(queue).kind = "trash" /\ Head(queue).id = active
  BY DEF IInv, PromptInv, TrashPromptOwnsQueueHead
<1>2. events' = <<>>
  BY <1>1 DEF IInv, ThreadsInv
<1>3. nextTask' \in 0 .. MaxTasks /\ nextTask <= nextTask'
  BY DEF IInv, TypeOK
<1>4. queue \in Seq(Task) /\ QueueOK(queue)
  BY <1>3, QueueStaysOK
<1>5. Tail(queue) \in Seq(Task) /\ QueueOK(Tail(queue))
  <2>1. /\ Tail(queue) \in Seq(Task) /\ Len(Tail(queue)) \in Nat
        /\ \A i \in 1 .. Len(Tail(queue)) :
             i + 1 \in 1 .. Len(queue) /\ Tail(queue)[i] = queue[i + 1]
    BY <1>1, <1>4, HeadTail
  <2>2. QED
    BY <2>1, <1>4 DEF QueueOK
<1>6. QED
  BY <1>1, <1>2, <1>3, <1>4, <1>5 DEF Idle

LEMMA ConfirmTrashStep ==
  ASSUME IInv, NEW q \in shown, ConfirmTrash(q) PROVE IInv' /\ (Starts => InTurn)
<1>1. /\ prompt = "trash" /\ q.id = promptId
      /\ queue' = Tail(queue) /\ StartTask(Head(queue)) /\ ResetPrompt
      /\ consent' = consent \cup {[task |-> q.task, item |-> q.item, says |-> "trash"]}
      /\ UNCHANGED <<stopping, nextTask, workerVars, serial, shown, barrier, events, exited>>
  BY DEF ConfirmTrash
<1>2. q.task = active /\ q.item = 0 /\ q.task \in TaskIds /\ q.item \in Items
  BY <1>1 DEF IInv, PromptInv, TypeOK, Question
<1>3. consent' \subseteq Consent
  <2>1. [task |-> q.task, item |-> q.item, says |-> "trash"] \in Consent
    BY <1>2 DEF Consent
  <2>2. consent \subseteq Consent
    BY DEF IInv, TypeOK
  <2>3. QED
    BY <1>1, <2>1, <2>2
<1>4. QED
  BY <1>1, <1>2, <1>3, TrashPrompt, StartStep

LEMMA DeclineTrashStep ==
  ASSUME IInv, NEW q \in shown, DeclineTrash(q) PROVE IInv' /\ (Starts => InTurn)
<1>1. /\ prompt = "trash" /\ DispatchNext(Tail(queue), FALSE, FALSE, 0)
      /\ UNCHANGED <<stopping, nextTask, workerVars, barrier, events, exited, consent>>
  <2>1. prompt = "trash" /\ DispatchNext(Tail(queue), busy, FALSE, 0) /\ busy \in BOOLEAN
        /\ UNCHANGED <<stopping, nextTask, workerVars, barrier, events, exited, consent>>
    BY DEF DeclineTrash, IInv, TypeOK
  <2>2. busy = FALSE
    BY <2>1 DEF IInv, PromptInv, TrashPromptOwnsQueueHead
  <2>3. QED
    BY <2>1, <2>2
<1>2. consent' \subseteq Consent /\ 0 \in 0 .. MaxTasks
  BY <1>1 DEF IInv, TypeOK
<1>3. QED
  BY <1>1, <1>2, TrashPrompt, DispatchStep

LEMMA SubmitStep ==
  ASSUME IInv, NEW kind \in TransferKinds \cup {"trash"}, NEW n \in 1 .. MaxItems, Submit(kind, n)
  PROVE  IInv' /\ (Starts => InTurn)
<1> DEFINE t == [id |-> nextTask + 1, kind |-> kind, size |-> n]
           q == Append(queue, t)
<1>1. /\ ~stopping /\ nextTask' = nextTask + 1
      /\ nextTask \in Nat /\ nextTask' \in TaskIds /\ nextTask' \in 0 .. MaxTasks
      /\ DispatchNext(q, busy, HasPrompt, active)
      /\ UNCHANGED <<stopping, workerVars, consent, barrier, events, exited>>
  BY DEF Submit, IInv, TypeOK, TaskIds
<1>2. t \in Task /\ t.id = nextTask + 1
  BY <1>1 DEF Task
<1> HIDE DEF t
<1>3. /\ queue \in Seq(Task) /\ QueueOK(queue) /\ Len(queue) \in Nat
      /\ ctl <= nextTask /\ barrier <= nextTask /\ ctl \in Nat /\ barrier \in Nat
      /\ \A i \in 1 .. Len(queue) : queue[i].id <= nextTask
  <2>1. nextTask <= nextTask'
    BY <1>1
  <2>2. queue \in Seq(Task) /\ QueueOK(queue)
    BY <1>1, <2>1, QueueStaysOK
  <2>3. ctl \in Nat /\ barrier \in Nat
    BY DEF IInv, TypeOK
  <2>4. /\ ctl <= nextTask /\ barrier <= nextTask
        /\ \A i \in 1 .. Len(queue) : queue[i].id <= nextTask
    BY DEF IInv, QueueInv
  <2>5. QED
    BY <2>2, <2>3, <2>4
<1>4. /\ q \in Seq(Task) /\ q # <<>> /\ Len(q) = Len(queue) + 1 /\ q[Len(queue) + 1] = t
      /\ \A i \in 1 .. Len(queue) : q[i] = queue[i]
      /\ queue # <<>> => Head(q) = Head(queue)
  <2>1. /\ q \in Seq(Task) /\ q # <<>> /\ Len(q) = Len(queue) + 1 /\ q[Len(queue) + 1] = t
        /\ \A i \in 1 .. Len(queue) : q[i] = queue[i]
    BY <1>2, <1>3, AppendTo
  <2>2. queue # <<>> => 1 \in 1 .. Len(queue) /\ Head(queue) = queue[1]
    BY <1>3, HeadTail
  <2>3. Head(q) = q[1]
    BY <2>1, HeadTail
  <2>4. QED
    BY <2>1, <2>2, <2>3
<1> HIDE DEF q
<1>5. QueueOK(q)
  <2>1. \A i \in 1 .. Len(queue) : queue[i] \in Task
    BY <1>3
  <2>2. \A i \in 1 .. Len(queue) : queue[i].id \in Nat
    BY <2>1 DEF Task, TaskIds
  <2>3. \A i \in 1 .. Len(q) : i \in 1 .. Len(queue) \/ i = Len(queue) + 1
    BY <1>3, <1>4
  <2>4. \A i \in 1 .. Len(q) : q[i].id > ctl /\ q[i].id > barrier /\ q[i].id <= nextTask'
    <3>1. /\ t.id \in Nat /\ t.id > ctl /\ t.id > barrier /\ t.id <= nextTask'
      BY <1>1, <1>2, <1>3
    <3>2. \A i \in 1 .. Len(queue) :
            queue[i].id > ctl /\ queue[i].id > barrier /\ queue[i].id <= nextTask'
      BY <1>3 DEF QueueOK
    <3>3. QED
      BY <1>4, <2>3, <3>1, <3>2
  <2>5. ASSUME NEW i \in 1 .. Len(q), NEW j \in 1 .. Len(q), i < j
        PROVE  q[i].id < q[j].id
    <3>1. i \in 1 .. Len(queue) /\ q[i] = queue[i]
      BY <1>3, <1>4, <2>3, <2>5
    <3>2. CASE j \in 1 .. Len(queue)
      BY <1>3, <1>4, <2>5, <3>1, <3>2 DEF QueueOK
    <3>3. CASE j = Len(queue) + 1
      BY <1>1, <1>2, <1>3, <1>4, <2>2, <3>1, <3>3
    <3>4. QED
      BY <2>3, <3>2, <3>3
  <2>6. QED
    BY <2>4, <2>5 DEF QueueOK
<1>6. CASE busy \/ HasPrompt
  <2>1. /\ queue' = q /\ UNCHANGED <<busy, active, startVars, serial, shown, lastPrompt>>
        /\ HasPrompt => UNCHANGED promptVars
        /\ ~HasPrompt => prompt' = "none" /\ promptId' = 0 /\ promptItem' = 0
    BY <1>1, <1>6 DEF DispatchNext, Blocked, ResetPrompt
  <2>2. UNCHANGED <<stopping, workerVars, consent, barrier, events, exited, ctl, busy, active,
                    currentItem, itemsDone, itemsTotal, cancelled, tokens, answer, inbox,
                    serial, shown, lastPrompt, prompt>>
    BY <1>1, <2>1 DEF startVars, promptVars, HasPrompt
  <2>3. promptId' \in Nat /\ promptItem' \in Items
    BY <2>1 DEF promptVars, IInv, TypeOK, Items
  <2>4. TypeOK'
    BY <1>1, <1>4, <2>1, <2>2, <2>3 DEF IInv, TypeOK, workerVars
  <2>5. QueueInv'
    <3>1. ctl <= nextTask' /\ barrier <= nextTask'
      BY <1>1, <1>3
    <3>2. QED
      BY <1>1, <1>5, <2>1, <2>2, <3>1 DEF QueueInv, QueueOK
  <2>6. ThreadsInv' /\ ReportsInv' /\ TokenInv' /\ ConsentInv'
    BY <2>2 DEF IInv, ThreadsInv, ReportsInv, TokenInv, Answered, ConsentInv,
                NothingDestroyedUnasked, workerVars
  <2>7. PromptInv'
    <3>1. TrashPromptOwnsQueueHead'
      BY <1>4, <2>1, <2>2 DEF IInv, PromptInv, TrashPromptOwnsQueueHead, workerVars
    <3>2. prompt # "none" => UNCHANGED <<promptId, promptItem>>
      BY <2>1 DEF HasPrompt, promptVars
    <3>3. PromptFacesBlockedWorker'
      BY <2>2, <3>2 DEF IInv, PromptInv, PromptFacesBlockedWorker, workerVars
    <3>4. QED
      BY <2>2, <3>1, <3>2, <3>3 DEF IInv, PromptInv, workerVars
  <2>8. QED
    BY <2>2, <2>4, <2>5, <2>6, <2>7 DEF IInv, Starts
<1>7. CASE ~busy /\ ~HasPrompt
  <2>1. Idle
    <3>1. pc = "idle" /\ inbox = <<>> /\ events' = <<>>
      BY <1>1, <1>7 DEF IInv, ThreadsInv
    <3>2. consent' \subseteq Consent /\ nextTask <= nextTask'
      BY <1>1 DEF IInv, TypeOK
    <3>3. QED
      BY <1>1, <3>1, <3>2 DEF Idle
  <2>2. busy = FALSE /\ HasPrompt = FALSE /\ active \in 0 .. MaxTasks
    BY <1>7 DEF IInv, TypeOK, HasPrompt
  <2>3. DispatchNext(q, FALSE, FALSE, active)
    BY <1>1, <2>2
  <2>4. QED
    BY <1>1, <1>4, <1>5, <2>1, <2>2, <2>3, DispatchStep
<1>8. QED
  BY <1>6, <1>7

LEMMA ResolveConflictStep ==
  ASSUME IInv, NEW a \in Answers, NEW q \in shown, ResolveConflict(a, q) PROVE IInv'
<1>1. /\ prompt = "conflict" /\ q.id = promptId /\ TypeOK
      /\ answer' = [answer EXCEPT ![ctl] = a]
      /\ prompt' = "none" /\ promptId' = 0 /\ promptItem' = 0 /\ UNCHANGED lastPrompt
      /\ tokens' = [tokens EXCEPT ![ctl] = @ + 1]
      /\ consent' = consent \cup {[task |-> q.task, item |-> q.item, says |-> a]}
      /\ UNCHANGED <<guiVars, workerVars, cancelled, serial, shown, barrier, inbox, events, exited>>
  BY DEF ResolveConflict, ResetPrompt, IInv
<1>2. UNCHANGED <<queue, busy, active, stopping, nextTask, ctl, currentItem, itemsDone,
                  itemsTotal, pc, task, item, request, overwrite, tally, cancelled>>
  BY <1>1 DEF guiVars, workerVars
<1>3. /\ q.task = active /\ q.item = promptItem /\ promptItem = item
      /\ q.task \in TaskIds /\ q.item \in Items
  BY <1>1 DEF IInv, PromptInv, TypeOK, Question
<1>4. /\ busy /\ ctl = active /\ ctl \in 0 .. MaxTasks /\ tokens[ctl] = 0
      /\ pc = "wait" /\ task.id = active /\ events = <<>>
  BY <1>1 DEF IInv, PromptInv, PromptFacesBlockedWorker, TypeOK
<1>5. /\ tokens' \in [0 .. MaxTasks -> 0 .. MaxTokens] /\ tokens'[active] = 1
      /\ answer' \in [0 .. MaxTasks -> Answers \cup {NoAnswer}] /\ answer'[active] = a
  BY <1>1, <1>4 DEF TypeOK
<1>6. consent' \subseteq Consent
  <2>1. [task |-> q.task, item |-> q.item, says |-> a] \in Consent
    BY <1>3 DEF Consent
  <2>2. QED
    BY <1>1, <2>1 DEF TypeOK
<1>7. TypeOK'
  BY <1>1, <1>2, <1>5, <1>6 DEF TypeOK, Items
<1>8. QueueInv' /\ ThreadsInv' /\ ReportsInv'
  BY <1>1, <1>2, <1>4 DEF IInv, QueueInv, ThreadsInv, ReportsInv
<1>9. PromptInv'
  BY <1>1, <1>2 DEF IInv, PromptInv, TrashPromptOwnsQueueHead, PromptFacesBlockedWorker
<1>10. TokenInv'
  BY <1>1, <1>2, <1>3, <1>4, <1>5 DEF TokenInv, Answered
<1>11. ConsentInv'
  BY <1>1, <1>2 DEF IInv, ConsentInv, NothingDestroyedUnasked
<1>12. QED
  BY <1>7, <1>8, <1>9, <1>10, <1>11 DEF IInv

LEMMA DropStep ==
  ASSUME IInv, DropEverything, stopping' \in BOOLEAN, active' \in {active, IF busy THEN active ELSE 0},
         barrier' \in {barrier, nextTask}
  PROVE  IInv'
<1>1. /\ TypeOK /\ tokens[ctl] < MaxTokens
      /\ cancelled' = IF ctl = 0 THEN cancelled ELSE [cancelled EXCEPT ![ctl] = TRUE]
      /\ tokens' = [tokens EXCEPT ![ctl] = @ + 1]
      /\ queue' = <<>> /\ prompt' = "none" /\ promptId' = 0 /\ promptItem' = 0
      /\ UNCHANGED <<busy, nextTask, ctl, currentItem, itemsDone, itemsTotal, answer, serial, pc,
                     task, item, request, overwrite, tally, shown, consent, inbox, events,
                     exited, lastPrompt>>
  BY DEF DropEverything, RaiseFlag, ClearQueue, ResetPrompt, IInv, workerVars
<1>2. /\ ctl \in 0 .. MaxTasks /\ tokens[ctl] \in 0 .. MaxTokens
      /\ tokens \in [0 .. MaxTasks -> 0 .. MaxTokens] /\ cancelled \in [0 .. MaxTasks -> BOOLEAN]
  BY <1>1 DEF TypeOK
<1>3. tokens' \in [0 .. MaxTasks -> 0 .. MaxTokens] /\ cancelled' \in [0 .. MaxTasks -> BOOLEAN]
  BY <1>1, <1>2
<1>4. (ctl # 0 => cancelled'[ctl]) /\ (busy => active' = active /\ active # 0 /\ ctl = active)
  BY <1>1, <1>2 DEF IInv, ThreadsInv
<1>5. \A t \in 0 .. MaxTasks : cancelled[t] => cancelled'[t]
  BY <1>1, <1>2
<1>6. TypeOK'
  <2>1. queue' \in Seq(Task) /\ active' \in 0 .. MaxTasks /\ barrier' \in 0 .. MaxTasks
    BY <1>1 DEF TypeOK
  <2>2. prompt' \in {"none", "trash", "conflict"} /\ promptId' \in Nat /\ promptItem' \in Items
    BY <1>1 DEF Items
  <2> HIDE DEF DropEverything
  <2>3. QED
    BY <1>1, <1>3, <2>1, <2>2 DEF TypeOK
<1>7. QueueInv'
  <2>1. barrier' <= nextTask
    BY <1>1 DEF IInv, QueueInv, TypeOK
  <2>2. QED
    BY <1>1, <1>4, <2>1 DEF IInv, QueueInv
<1>8. ThreadsInv'
  BY <1>1, <1>4 DEF IInv, ThreadsInv
<1>9. ReportsInv'
  <2>1. events # <<>> => busy
    BY DEF IInv, ThreadsInv
  <2>2. events # <<>> => active' = active /\ cancelled'[active]
    BY <1>4, <2>1
  <2>3. events \in Seq(EventRecord)
    BY <1>1 DEF TypeOK
  <2>4. \A i \in 1 .. Len(events) : events # <<>>
    BY <2>3
  <2>5. QED
    BY <1>1, <2>2, <2>4 DEF IInv, ReportsInv
<1>10. PromptInv' /\ TokenInv' /\ ConsentInv'
  BY <1>1, <1>4 DEF IInv, PromptInv, TrashPromptOwnsQueueHead, PromptFacesBlockedWorker,
                    TokenInv, ConsentInv, NothingDestroyedUnasked
<1>11. QED
  BY <1>6, <1>7, <1>8, <1>9, <1>10 DEF IInv

LEMMA CancelStep == ASSUME IInv, CancelCurrentTask PROVE IInv'
<1>1. DropEverything /\ stopping' = stopping /\ stopping \in BOOLEAN
  BY DEF CancelCurrentTask, IInv, TypeOK
<1>2. active' = (IF busy THEN active ELSE 0) /\ barrier' = nextTask
  BY DEF CancelCurrentTask
<1>3. QED
  BY <1>1, <1>2, DropStep

LEMMA ShutdownStep == ASSUME IInv, Shutdown PROVE IInv'
<1>1. DropEverything /\ stopping' \in BOOLEAN /\ UNCHANGED <<active, barrier>>
  BY DEF Shutdown
<1>2. QED
  BY <1>1, DropStep

-----------------------------------------------------------------------------
(* The invariant and what follows from it.                                 *)

LEMMA ExitThreadStep == ASSUME IInv, ExitThread PROVE IInv'
<1> USE DEF ExitThread, guiVars, promptVars, sharedVars, workerVars, histVars
<1>1. exited' \in BOOLEAN
  OBVIOUS
<1>2. UNCHANGED <<guiVars, promptVars, sharedVars, workerVars, histVars, inbox, events>>
  OBVIOUS
<1> HIDE DEF ExitThread
<1>3. TypeOK'
  BY <1>1, <1>2 DEF IInv, TypeOK
<1>4. QueueInv' /\ ThreadsInv' /\ ReportsInv' /\ TokenInv'
  BY <1>2 DEF IInv, QueueInv, ThreadsInv, ReportsInv, TokenInv, Answered
<1>5. PromptInv' /\ ConsentInv'
  BY <1>2 DEF IInv, PromptInv, TrashPromptOwnsQueueHead, PromptFacesBlockedWorker,
              ConsentInv, NothingDestroyedUnasked
<1>6. QED
  BY <1>3, <1>4, <1>5 DEF IInv

LEMMA StutterStep == ASSUME IInv, UNCHANGED vars PROVE IInv'
<1>1. UNCHANGED <<guiVars, promptVars, sharedVars, workerVars, histVars, inbox, events, exited>>
  BY DEF vars
<1> USE DEF guiVars, promptVars, sharedVars, workerVars, histVars
<1>2. TypeOK'
  BY <1>1 DEF IInv, TypeOK
<1>3. QueueInv' /\ ThreadsInv' /\ ReportsInv' /\ TokenInv'
  BY <1>1 DEF IInv, QueueInv, ThreadsInv, ReportsInv, TokenInv, Answered
<1>4. PromptInv' /\ ConsentInv'
  BY <1>1 DEF IInv, PromptInv, TrashPromptOwnsQueueHead, PromptFacesBlockedWorker,
              ConsentInv, NothingDestroyedUnasked
<1>5. QED
  BY <1>2, <1>3, <1>4 DEF IInv

LEMMA WorkerPreserves == ASSUME IInv, Worker PROVE IInv'
<1>1. CASE TakeTask \/ BeginItem \/ FinishTask \/ NoConflict \/ DetectConflict \/ Acquire
  BY <1>1, TakeTaskStep, BeginItemStep, FinishTaskStep, NoConflictStep, DetectConflictStep,
     AcquireStep
<1>2. CASE AbortWait \/ ReadSkip \/ ReadAnswer \/ BeginOperation
  BY <1>2, AbortWaitStep, ReadSkipStep, ReadAnswerStep, BeginOperationStep
<1>3. CASE \E outcome \in {"complete", "failed", "skippedChildren"} : EndOperation(outcome)
  BY <1>3, EndOperationStep
<1>4. CASE \E outcome \in {"cancelled", "cancelledFailed"} : OperationCancelled(outcome)
  BY <1>4, OperationCancelledStep
<1>5. QED
  BY <1>1, <1>2, <1>3, <1>4 DEF Worker

LEMMA UserPreserves == ASSUME IInv, User PROVE IInv'
  BY SubmitStep, ConfirmTrashStep, DeclineTrashStep, ResolveConflictStep, CancelStep, ShutdownStep
  DEF User

LEMMA NextPreserves == IInv /\ [Next]_vars => IInv'
  BY WorkerPreserves, UserPreserves, DeliverStep, ExitThreadStep, StutterStep DEF Next

\* Every reachable state satisfies the inductive invariant: the six parts that
\* tie the threads, their reports, the prompt and the tokens together.
THEOREM Invariance == Spec => []IInv
<1>1. QED
  BY InitIInv, NextPreserves, PTL DEF Spec

\* The variables of both threads keep their types.
THEOREM TypeCorrect == Spec => []TypeOK
<1>1. IInv => TypeOK
  BY DEF IInv
<1>2. QED
  BY <1>1, Invariance, PTL

\* A conflict prompt on screen is the question the worker is blocked on, and a
\* trash confirmation is about the task respondToTrashConfirm takes
\* (onConflictDetected against waitForPromptAnswer, dispatchNextTask).
THEOREM PromptsStayLive == Spec => []PromptsAreLive
<1>1. IInv => PromptsAreLive
  BY DEF IInv, PromptInv, PromptsAreLive
<1>2. QED
  BY <1>1, Invariance, PTL

\* No destination is replaced and nothing is moved to the trash without the
\* user's answer about that very item or task (resolveConflictIfAny,
\* respondToTrashConfirm).
THEOREM Consented == Spec => []NothingDestroyedUnasked
<1>1. IInv => NothingDestroyedUnasked
  BY DEF IInv, ConsentInv
<1>2. QED
  BY <1>1, Invariance, PTL

\* No other step starts a task.
LEMMA StartsElsewhere ==
  ASSUME IInv, UNCHANGED busy, busy => UNCHANGED active
  PROVE  ~Starts
  BY DEF IInv, TypeOK, Starts

LEMMA NextInTurn == IInv /\ [Next]_vars /\ Starts => InTurn
<1> SUFFICES ASSUME IInv, [Next]_vars, Starts PROVE InTurn
  OBVIOUS
<1>1. CASE User
  <2>1. CASE \E q \in shown, a \in Answers : ResolveConflict(a, q)
    BY <2>1, StartsElsewhere DEF ResolveConflict, guiVars
  <2>2. CASE CancelCurrentTask \/ Shutdown
    BY <2>2, StartsElsewhere DEF CancelCurrentTask, Shutdown, DropEverything
  <2>3. QED
    BY <1>1, <2>1, <2>2, SubmitStep, ConfirmTrashStep, DeclineTrashStep DEF User
<1>2. CASE Deliver
  <2>1. CASE Delivered("started") /\ OnItemStarted(Head(events))
    BY <2>1, StartsElsewhere DEF OnItemStarted
  <2>2. CASE Delivered("processed") /\ OnItemFinished(Head(events))
    BY <2>2, StartsElsewhere DEF OnItemFinished
  <2>3. CASE Delivered("conflict") /\ OnConflictDetected(Head(events))
    BY <2>3, StartsElsewhere DEF OnConflictDetected, guiVars
  <2>4. QED
    BY <1>2, <2>1, <2>2, <2>3, FinishedStep DEF Deliver
<1>3. CASE Worker
  <2>1. WorkerStep
    BY <1>3 DEF Worker, TakeTask, BeginItem, FinishTask, NoConflict, DetectConflict, Acquire,
                AbortWait, ReadSkip, ReadAnswer, BeginOperation, EndOperation, OperationCancelled
  <2>2. QED
    BY <2>1, StartsElsewhere DEF WorkerStep, guiVars
<1>4. CASE ExitThread \/ UNCHANGED vars
  BY <1>4, StartsElsewhere DEF ExitThread, vars, guiVars
<1>5. QED
  BY <1>1, <1>2, <1>3, <1>4 DEF Next

\* Tasks start in the order they were submitted, one at a time, never after a
\* shutdown or once dropped by a cancellation (dispatchNextTask).
THEOREM StartOrder == Spec => TasksStartInTurn
<1>1. IInv /\ [Next]_vars => [Starts => InTurn]_vars
  BY NextInTurn
<1>2. Spec => [][Starts => InTurn]_vars
  BY <1>1, Invariance, PTL DEF Spec
<1>3. QED
  BY <1>2 DEF TasksStartInTurn, InTurn

-----------------------------------------------------------------------------
(* The reports and the summary: ReportsAreTrue.                            *)

\* The reports of each type, when one joins them and when the first is taken.
LEMMA OfPosted ==
  ASSUME TypeOK, NEW e \in EventRecord, events' = Append(events, e)
  PROVE  /\ Len(events) \in Nat /\ events' # <<>> /\ Len(events') = Len(events) + 1
         /\ events'[Len(events')] = e
         /\ \A i \in 1 .. Len(events) : events'[i] = events[i]
         /\ \A type, i : i \in Of(type)' <=>
              i \in Of(type) \/ (i = Len(events) + 1 /\ e.type = type)
         /\ \A type : \A i \in Of(type) : i \in 1 .. Len(events) /\ i # Len(events) + 1
<1>1. /\ Len(events) \in Nat /\ Len(events') = Len(events) + 1
      /\ events'[Len(events) + 1] = e /\ events' # <<>>
      /\ \A i \in 1 .. Len(events) : events'[i] = events[i]
      /\ \A i \in 1 .. Len(events') : i \in 1 .. Len(events) \/ i = Len(events) + 1
      /\ \A i \in 1 .. Len(events) : i \in 1 .. Len(events')
      /\ Len(events) + 1 \in 1 .. Len(events')
  <2>1. events \in Seq(EventRecord)
    BY DEF TypeOK
  <2>2. QED
    BY <2>1, Appended
<1>2. \A i \in 1 .. Len(events) : i # Len(events) + 1
  BY <1>1
<1>3. ASSUME NEW type, NEW i
      PROVE  i \in Of(type)' <=> i \in Of(type) \/ (i = Len(events) + 1 /\ e.type = type)
  BY <1>1 DEF Of
<1>4. QED
  BY <1>1, <1>2, <1>3 DEF Of

LEMMA OfTaken ==
  ASSUME TypeOK, events # <<>>, events' = Tail(events)
  PROVE  /\ Len(events) \in Nat /\ Len(events') = Len(events) - 1
         /\ 1 \in 1 .. Len(events) /\ Head(events) = events[1]
         /\ \A type, i : i \in Of(type)' <=> i \in Nat /\ i # 0 /\ i + 1 \in Of(type)
         /\ \A type : \A i \in Of(type)' : events'[i] = events[i + 1]
         /\ \A type : \A i \in Of(type) : i = 1 \/ (i - 1 \in Of(type)' /\ events'[i - 1] = events[i])
         /\ events' # <<>> => events'[Len(events')] = events[Len(events)]
<1>1. /\ Head(events) = events[1] /\ Len(events) \in Nat /\ Len(events) >= 1
      /\ Len(events') = Len(events) - 1 /\ events' \in Seq(EventRecord)
      /\ \A i \in 1 .. Len(events') : i + 1 \in 1 .. Len(events) /\ events'[i] = events[i + 1]
  BY Shifted
<1>2. ASSUME NEW type, NEW i
      PROVE  i \in Of(type)' <=> i \in Nat /\ i # 0 /\ i + 1 \in Of(type)
  <2>1. i \in 1 .. Len(events') <=> i \in Nat /\ i # 0 /\ i + 1 \in 1 .. Len(events)
    BY <1>1
  <2>2. i \in 1 .. Len(events') => events'[i] = events[i + 1]
    BY <1>1
  <2>3. QED
    BY <2>1, <2>2 DEF Of
<1>3. ASSUME NEW type, NEW i \in Of(type)' PROVE events'[i] = events[i + 1]
  BY <1>1 DEF Of
<1>4. ASSUME NEW type, NEW i \in Of(type), i # 1
      PROVE  i - 1 \in Of(type)' /\ events'[i - 1] = events[i]
  <2>1. i \in Nat /\ i - 1 \in Nat /\ i - 1 # 0 /\ (i - 1) + 1 = i
    BY <1>1, <1>4 DEF Of
  <2>2. i - 1 \in Of(type)'
    BY <1>2, <2>1
  <2>3. QED
    BY <1>3, <2>1, <2>2
<1>5. events' # <<>> => events'[Len(events')] = events[Len(events)]
  <2>1. events' # <<>> => Len(events') \in 1 .. Len(events')
    BY <1>1
  <2>2. QED
    BY <1>1, <2>1
<1>6. \A type : \A i \in Of(type) :
        i = 1 \/ (i - 1 \in Of(type)' /\ events'[i - 1] = events[i])
  BY <1>4
<1>7. \A type : \A i \in Of(type)' : events'[i] = events[i + 1]
  BY <1>3
<1>8. \A type, i : i \in Of(type)' <=> i \in Nat /\ i # 0 /\ i + 1 \in Of(type)
  BY <1>2
<1>9. 1 \in 1 .. Len(events)
  BY <1>1
<1>10. QED
  BY <1>1, <1>5, <1>6, <1>7, <1>8, <1>9, Zenon

\* The items of the reports and of the worker are numbers.
LEMMA ItemNumbers ==
  ASSUME TypeOK
  PROVE  /\ item \in Nat /\ currentItem \in Nat /\ itemsDone \in Nat
         /\ \A type : \A i \in Of(type) : events[i].item \in Nat /\ events[i] \in EventRecord
<1>1. \A i \in 1 .. Len(events) : events[i] \in EventRecord
  BY EventRequests
<1>2. QED
  BY <1>1 DEF TypeOK, Items, Of, EventRecord

\* The progress reported depends on nothing else.
LEMMA ProgressFrame ==
  ASSUME ProgressInv,
         UNCHANGED <<busy, cancelled, active, inbox, item, currentItem, itemsDone, events>>,
         pc' = pc \/ {pc, pc'} \cap {"idle", "loop"} = {}
  PROVE  ProgressInv'
<1>1. UNCHANGED <<Position, Begun>> /\ \A type : UNCHANGED Of(type)
  BY DEF Position, Begun, Of
<1>2. QED
  BY <1>1 DEF ProgressInv, EndOnItsWay, BeginningsInOrder, EndingsInOrder

\* The worker takes the task: it stands at its first item.
LEMMA TakeTaskProgress == ASSUME IInv, ProgressInv, TakeTask PROVE ProgressInv'
<1>1. /\ pc = "idle" /\ pc' = "loop" /\ inbox # <<>> /\ item' = 1
      /\ UNCHANGED <<busy, cancelled, active, currentItem, itemsDone, events>>
  BY DEF TakeTask, WorkerStep, sharedVars, guiVars
<1>2. Position = 1 /\ Position' = 1 /\ Begun = 1 /\ Begun' = 1
  BY <1>1 DEF Position, Begun
<1>3. \A type : UNCHANGED Of(type)
  BY <1>1 DEF Of
<1>4. QED
  BY <1>1, <1>2, <1>3 DEF ProgressInv, EndOnItsWay, BeginningsInOrder, EndingsInOrder

\* The worker reports the start of the item it stands at.
LEMMA BeginItemProgress == ASSUME IInv, ProgressInv, BeginItem PROVE ProgressInv'
<1> DEFINE e == Event("started", request)
           n == Len(events) + 1
<1>1. /\ pc = "loop" /\ pc' \notin {"idle", "loop"} /\ events' = Append(events, e)
      /\ UNCHANGED <<busy, cancelled, active, inbox, item, currentItem, itemsDone>>
      /\ TypeOK /\ ThreadsInv /\ request \in Nat
  BY DEF BeginItem, Post, WorkerStep, sharedVars, guiVars, IInv, TypeOK
<1>2. e \in EventRecord /\ e.type = "started" /\ e.item = item
  BY <1>1, EventType
<1> HIDE DEF e
<1>3. /\ Len(events) \in Nat /\ events'[n] = e
      /\ \A i \in 1 .. Len(events) : events'[i] = events[i]
      /\ \A type, i : i \in Of(type)' <=> i \in Of(type) \/ (i = n /\ e.type = type)
      /\ \A type : \A i \in Of(type) : i \in 1 .. Len(events) /\ i # n
  BY <1>1, <1>2, OfPosted, Zenon
<1> HIDE DEF n
<1>4. \A i : i \in Of("processed")' <=> i \in Of("processed")
  BY <1>2, <1>3
<1>5. \A type : \A i \in Of(type) : events'[i] = events[i] /\ i < n
  BY <1>3 DEF n
<1>6. Position = item /\ Position' = item /\ Begun = item /\ Begun' = item + 1 /\ item \in Nat
  BY <1>1, ItemNumbers DEF Position, Begun
<1>7. SUFFICES ASSUME busy, ~cancelled[active] PROVE (EndOnItsWay /\ BeginningsInOrder /\ EndingsInOrder)'
  BY <1>1 DEF ProgressInv
<1>8. BeginningsInOrder /\ EndingsInOrder
  BY <1>7 DEF ProgressInv
<1>9. EndOnItsWay'
  BY <1>1 DEF EndOnItsWay
<1>10. BeginningsInOrder'
  <2>1. ASSUME NEW i \in Of("started")'
        PROVE  /\ i = n => events'[i].item = item
               /\ i # n => /\ i \in Of("started") /\ events'[i].item = events[i].item
                           /\ events[i].item < item
               /\ events'[i].item < Begun'
    <3>1. i = n => events'[i].item = item
      BY <1>2, <1>3
    <3>2. i # n => i \in Of("started")
      BY <1>3
    <3>3. i \in Of("started") => /\ events'[i].item = events[i].item
                                  /\ events[i].item \in Nat /\ events[i].item < item
      BY <1>1, <1>5, <1>6, <1>8, ItemNumbers DEF BeginningsInOrder
    <3>4. QED
      BY <1>6, <3>1, <3>2, <3>3
  <2>2. ASSUME NEW i \in Of("started")', NEW j \in Of("started")', i < j
        PROVE  events'[i].item < events'[j].item
    <3>1. CASE j = n
      <4>1. i # n
        BY <2>2, <3>1, <1>3 DEF n
      <4>2. QED
        BY <3>1, <4>1, <2>1
    <3>2. CASE j # n
      <4>1. i # n
        BY <1>3, <1>5, <2>1, <2>2, <3>2 DEF n, Of
      <4>2. QED
        BY <2>1, <2>2, <3>2, <4>1, <1>8 DEF BeginningsInOrder
    <3>3. QED
      BY <3>1, <3>2
  <2>3. \E i \in Of("started")' : events'[i].item = item'
    BY <1>1, <1>2, <1>3
  <2>4. QED
    BY <2>1, <2>2, <2>3 DEF BeginningsInOrder
<1>11. EndingsInOrder'
  BY <1>1, <1>4, <1>5, <1>6, <1>8 DEF EndingsInOrder
<1>12. QED
  BY <1>9, <1>10, <1>11

\* The worker reports that it is done with the item and goes to the next.
LEMMA ItemDoneProgress ==
  ASSUME IInv, ProgressInv, pc \notin {"idle", "loop"}, Post("processed", request),
         pc' = "loop", item' = item + 1,
         UNCHANGED <<busy, cancelled, active, inbox, currentItem, itemsDone>>
  PROVE  ProgressInv'
<1> DEFINE e == Event("processed", request)
           n == Len(events) + 1
<1>1. events' = Append(events, e) /\ TypeOK /\ ThreadsInv /\ request \in Nat
  BY DEF Post, IInv, TypeOK
<1>2. e \in EventRecord /\ e.type = "processed" /\ e.item = item
  BY <1>1, EventType
<1> HIDE DEF e
<1>3. /\ Len(events) \in Nat /\ events'[n] = e
      /\ \A i \in 1 .. Len(events) : events'[i] = events[i]
      /\ \A type, i : i \in Of(type)' <=> i \in Of(type) \/ (i = n /\ e.type = type)
      /\ \A type : \A i \in Of(type) : i \in 1 .. Len(events) /\ i # n
  BY <1>1, <1>2, OfPosted, Zenon
<1> HIDE DEF n
<1>4. \A i : i \in Of("started")' <=> i \in Of("started")
  BY <1>2, <1>3
<1>5. \A type : \A i \in Of(type) : events'[i] = events[i] /\ i < n
  BY <1>3 DEF n
<1>6. Position = item /\ Position' = item + 1 /\ Begun = item + 1 /\ Begun' = item + 1 /\ item \in Nat
      /\ itemsDone \in Nat
  BY <1>1, ItemNumbers DEF Position, Begun
<1>7. SUFFICES ASSUME busy, ~cancelled[active] PROVE (EndOnItsWay /\ BeginningsInOrder /\ EndingsInOrder)'
  BY <1>1 DEF ProgressInv
<1>8. BeginningsInOrder /\ EndingsInOrder
  BY <1>7 DEF ProgressInv
<1>9. EndOnItsWay'
  BY <1>1 DEF EndOnItsWay
<1>10. BeginningsInOrder'
  BY <1>4, <1>5, <1>6, <1>8 DEF BeginningsInOrder
<1>11. EndingsInOrder'
  <2>1. itemsDone < item /\ \A i \in Of("processed") : itemsDone < events[i].item /\ events[i].item < item
    BY <1>6, <1>8 DEF EndingsInOrder
  <2>2. ASSUME NEW i \in Of("processed")'
        PROVE  (i = n => events'[i].item = item)
               /\ (i # n => i \in Of("processed") /\ events'[i].item = events[i].item)
               /\ events'[i].item \in Nat
    BY <1>2, <1>3, <1>5, <1>6, <1>1, ItemNumbers
  <2>3. ASSUME NEW i \in Of("processed")', NEW j \in Of("processed")', i < j
        PROVE  events'[i].item < events'[j].item
    <3>1. CASE j = n
      <4>1. i # n
        BY <2>3, <3>1, <1>3 DEF n
      <4>2. QED
        BY <3>1, <4>1, <2>1, <2>2
    <3>2. CASE j # n
      <4>1. i # n
        BY <1>3, <1>5, <2>2, <2>3, <3>2 DEF n, Of
      <4>2. QED
        BY <2>2, <2>3, <3>2, <4>1, <1>8 DEF EndingsInOrder
    <3>3. QED
      BY <3>1, <3>2
  <2>4. \A i \in Of("processed")' : itemsDone < events'[i].item /\ events'[i].item < item + 1
    BY <2>1, <2>2, <1>6
  <2>5. ASSUME NEW k \in itemsDone + 1 .. item
        PROVE  \E i \in Of("processed")' : events'[i].item = k
    <3>1. CASE k = item
      BY <3>1, <1>2, <1>3
    <3>2. CASE k # item
      <4>1. k \in itemsDone + 1 .. item - 1
        BY <3>2, <1>6
      <4>2. PICK i \in Of("processed") : events[i].item = k
        BY <4>1, <1>6, <1>8 DEF EndingsInOrder
      <4>3. QED
        BY <4>2, <1>3, <1>5
    <3>3. QED
      BY <3>1, <3>2
  <2>6. (item + 1) - 1 = item /\ itemsDone < item + 1
    BY <1>6, <2>1
  <2>7. QED
    BY <1>6, <2>3, <2>4, <2>5, <2>6 DEF EndingsInOrder
<1>12. QED
  BY <1>9, <1>10, <1>11

\* The end of an uncancelled task is reported when every item is done.
LEMMA FinishTaskProgress ==
  ASSUME IInv, ProgressInv, TallyInv, FinishTask PROVE ProgressInv'
<1> DEFINE e == Event("finished", request)
           n == Len(events) + 1
<1>1. /\ pc \in {"loop", "break"} /\ pc' = "idle" /\ events' = Append(events, e)
      /\ UNCHANGED <<busy, cancelled, active, inbox, currentItem, itemsDone>>
      /\ TypeOK /\ ThreadsInv /\ request \in Nat
  BY DEF FinishTask, Post, WorkerStep, sharedVars, guiVars, IInv, TypeOK
<1>2. e \in EventRecord /\ e.type = "finished" /\ e.item = item
  BY <1>1, EventType
<1> HIDE DEF e
<1>3. /\ Len(events) \in Nat /\ events'[n] = e /\ events' # <<>> /\ Len(events') = n
      /\ \A i \in 1 .. Len(events) : events'[i] = events[i]
      /\ \A type, i : i \in Of(type)' <=> i \in Of(type) \/ (i = n /\ e.type = type)
      /\ \A type : \A i \in Of(type) : i \in 1 .. Len(events) /\ i # n
  BY <1>1, <1>2, OfPosted, Zenon
<1> HIDE DEF n
<1>4. \A i : /\ i \in Of("started")' <=> i \in Of("started")
             /\ i \in Of("processed")' <=> i \in Of("processed")
  BY <1>2, <1>3
<1>5. \A type : \A i \in Of(type) : events'[i] = events[i]
  BY <1>3
<1>6. SUFFICES ASSUME busy, ~cancelled[active] PROVE (EndOnItsWay /\ BeginningsInOrder /\ EndingsInOrder)'
  BY <1>1 DEF ProgressInv
<1>7. BeginningsInOrder /\ EndingsInOrder /\ pc = "loop"
  BY <1>1, <1>6 DEF ProgressInv, TallyInv
<1>8. inbox' = <<>>
  BY <1>1 DEF ThreadsInv
<1>9. Position = item /\ Position' = item /\ Begun = item /\ Begun' = item
  BY <1>1, <1>2, <1>3, <1>7, <1>8 DEF Position, Begun
<1>10. EndOnItsWay'
  BY <1>2, <1>3 DEF EndOnItsWay
<1>11. BeginningsInOrder'
  BY <1>1, <1>4, <1>5, <1>7, <1>9 DEF BeginningsInOrder
<1>12. EndingsInOrder'
  BY <1>1, <1>4, <1>5, <1>7, <1>9 DEF EndingsInOrder
<1>13. QED
  BY <1>10, <1>11, <1>12

\* A question is a report of no progress.
LEMMA DetectConflictProgress == ASSUME IInv, ProgressInv, DetectConflict PROVE ProgressInv'
<1> DEFINE e == Event("conflict", serial + 1)
           n == Len(events) + 1
<1>1. /\ pc = "check" /\ pc' = "wait" /\ events' = Append(events, e)
      /\ UNCHANGED <<busy, cancelled, active, inbox, item, currentItem, itemsDone>>
      /\ TypeOK /\ ThreadsInv /\ serial + 1 \in Nat
  BY DEF DetectConflict, Post, WorkerStep, guiVars, IInv, TypeOK
<1>2. e \in EventRecord /\ e.type = "conflict"
  BY <1>1, EventType
<1> HIDE DEF e
<1>3. /\ \A i \in 1 .. Len(events) : events'[i] = events[i]
      /\ \A type, i : i \in Of(type)' <=> i \in Of(type) \/ (i = n /\ e.type = type)
      /\ \A type : \A i \in Of(type) : i \in 1 .. Len(events) /\ i # n
  BY <1>1, <1>2, OfPosted, Zenon
<1> HIDE DEF n
<1>4. \A i : /\ i \in Of("started")' <=> i \in Of("started")
             /\ i \in Of("processed")' <=> i \in Of("processed")
  BY <1>2, <1>3
<1>5. \A type : \A i \in Of(type) : events'[i] = events[i]
  BY <1>3
<1>6. UNCHANGED <<Position, Begun>>
  BY <1>1 DEF Position, Begun
<1>7. EndOnItsWay'
  BY <1>1 DEF EndOnItsWay
<1>8. BeginningsInOrder => BeginningsInOrder'
  BY <1>1, <1>4, <1>5, <1>6 DEF BeginningsInOrder
<1>9. EndingsInOrder => EndingsInOrder'
  BY <1>1, <1>4, <1>5, <1>6 DEF EndingsInOrder
<1>10. QED
  BY <1>1, <1>7, <1>8, <1>9 DEF ProgressInv

\* Where the worker stands does not depend on the reports taken before the end.
LEMMA TakenPosition ==
  ASSUME TypeOK, EndOnItsWay, events # <<>>, events' = Tail(events),
         Head(events).type # "finished", UNCHANGED <<pc, item, inbox>>
  PROVE  EndOnItsWay' /\ UNCHANGED <<Position, Begun>>
<1>1. pc = "idle" /\ inbox = <<>> => events' # <<>> /\ events'[Len(events')] = events[Len(events)]
  <2>1. /\ Len(events) \in Nat /\ Head(events) = events[1] /\ Len(events') = Len(events) - 1
        /\ events' # <<>> => events'[Len(events')] = events[Len(events)]
    BY OfTaken, Zenon
  <2>2. pc = "idle" /\ inbox = <<>> => Len(events) # 1
    BY <2>1 DEF EndOnItsWay
  <2>3. events' = <<>> => Len(events) = 1
    <3>1. events' = <<>> => Len(events') = 0
      OBVIOUS
    <3>2. QED
      BY <2>1, <3>1
  <2>4. QED
    BY <2>1, <2>2, <2>3
<1>2. EndOnItsWay'
  BY <1>1 DEF EndOnItsWay
<1>3. UNCHANGED Position
  BY <1>1 DEF Position
<1>4. QED
  BY <1>2, <1>3 DEF Begun

\* Taking a report leaves the others of its type in order.
LEMMA OrderTaken ==
  ASSUME TypeOK, events # <<>>, events' = Tail(events), NEW type,
         \A i, j \in Of(type) : i < j => events[i].item < events[j].item
  PROVE  /\ \A i, j \in Of(type)' : i < j => events'[i].item < events'[j].item
         /\ Head(events).type = type =>
              \A i \in Of(type)' : Head(events).item < events'[i].item
<1>1. /\ 1 \in 1 .. Len(events) /\ Head(events) = events[1]
      /\ \A i : i \in Of(type)' <=> i \in Nat /\ i # 0 /\ i + 1 \in Of(type)
      /\ \A i \in Of(type)' : events'[i] = events[i + 1]
  BY OfTaken, Zenon
<1>2. ASSUME NEW i \in Of(type)', NEW j \in Of(type)', i < j
      PROVE  events'[i].item < events'[j].item
  <2>1. i \in Nat /\ j \in Nat /\ i + 1 \in Of(type) /\ j + 1 \in Of(type)
    BY <1>1
  <2>2. i + 1 < j + 1
    BY <1>2, <2>1
  <2>3. events[i + 1].item < events[j + 1].item
    BY <2>1, <2>2
  <2>4. QED
    BY <1>1, <2>3
<1>3. ASSUME Head(events).type = type, NEW i \in Of(type)'
      PROVE  Head(events).item < events'[i].item
  <2>1. 1 \in Of(type)
    BY <1>1, <1>3 DEF Of
  <2>2. i + 1 \in Of(type) /\ 1 < i + 1
    BY <1>1
  <2>3. QED
    BY <1>1, <2>1, <2>2
<1>4. QED
  BY <1>2, <1>3

\* A report of an uncancelled task is not ignored.
LEMMA NotIgnored ==
  ASSUME IInv, busy, ~cancelled[active], events # <<>>
  PROVE  ~Ignored(Head(events))
<1>1. Head(events) = events[1] /\ 1 \in 1 .. Len(events)
  BY Shifted DEF IInv
<1>2. Head(events).task = active /\ ctl = active
  BY <1>1 DEF IInv, ReportsInv, ThreadsInv
<1>3. QED
  BY <1>2 DEF Ignored

\* What is reported of the items begun and done, when a report is taken that does
\* not count.
LEMMA BeginningsTaken ==
  ASSUME TypeOK, BeginningsInOrder, events # <<>>, events' = Tail(events),
         Head(events).type # "started", UNCHANGED <<pc, item, currentItem, Begun>>
  PROVE  BeginningsInOrder'
<1>1. /\ Head(events) = events[1]
      /\ \A i : i \in Of("started")' <=> i \in Nat /\ i # 0 /\ i + 1 \in Of("started")
      /\ \A i \in Of("started")' : events'[i] = events[i + 1]
      /\ \A i \in Of("started") :
           i = 1 \/ (i - 1 \in Of("started")' /\ events'[i - 1] = events[i])
  BY OfTaken, Zenon
<1>2. 1 \notin Of("started")
  BY <1>1 DEF Of
<1>3. \A i, j \in Of("started")' : i < j => events'[i].item < events'[j].item
  BY OrderTaken DEF BeginningsInOrder
<1>4. \A i \in Of("started")' : events'[i].item < Begun'
  BY <1>1 DEF BeginningsInOrder
<1>5. pc' \notin {"idle", "loop"} =>
        \/ \E i \in Of("started")' : events'[i].item = item'
        \/ currentItem' = item' /\ Of("started")' = {}
  <2>1. ASSUME NEW i \in Of("started"), events[i].item = item
        PROVE  \E k \in Of("started")' : events'[k].item = item'
    BY <1>1, <1>2, <2>1
  <2>2. Of("started") = {} => Of("started")' = {}
    BY <1>1
  <2>3. QED
    BY <2>1, <2>2 DEF BeginningsInOrder
<1>6. QED
  BY <1>3, <1>4, <1>5 DEF BeginningsInOrder

LEMMA EndingsTaken ==
  ASSUME TypeOK, EndingsInOrder, events # <<>>, events' = Tail(events),
         Head(events).type # "processed", UNCHANGED <<itemsDone, Position>>
  PROVE  EndingsInOrder'
<1>1. /\ Head(events) = events[1]
      /\ \A i : i \in Of("processed")' <=> i \in Nat /\ i # 0 /\ i + 1 \in Of("processed")
      /\ \A i \in Of("processed")' : events'[i] = events[i + 1]
      /\ \A i \in Of("processed") :
           i = 1 \/ (i - 1 \in Of("processed")' /\ events'[i - 1] = events[i])
  BY OfTaken, Zenon
<1>2. 1 \notin Of("processed")
  BY <1>1 DEF Of
<1>3. \A i, j \in Of("processed")' : i < j => events'[i].item < events'[j].item
  BY OrderTaken DEF EndingsInOrder
<1>4. ASSUME NEW i \in Of("processed")'
      PROVE  itemsDone' < events'[i].item /\ events'[i].item < Position'
  <2>1. i + 1 \in Of("processed") /\ events'[i] = events[i + 1]
    BY <1>1
  <2>2. itemsDone < events[i + 1].item /\ events[i + 1].item < Position
    BY <2>1 DEF EndingsInOrder
  <2>3. QED
    BY <2>1, <2>2
<1>5. ASSUME NEW k \in itemsDone' + 1 .. Position' - 1
      PROVE  \E i \in Of("processed")' : events'[i].item = k
  <2>1. PICK i \in Of("processed") : events[i].item = k
    BY DEF EndingsInOrder
  <2>2. QED
    BY <1>1, <1>2, <2>1
<1>6. QED
  BY <1>3, <1>4, <1>5 DEF EndingsInOrder

\* The report of an item's start shows that item.
LEMMA StartedProgress ==
  ASSUME IInv, ProgressInv, Delivered("started"), OnItemStarted(Head(events)) PROVE ProgressInv'
<1> DEFINE e == Head(events)
<1>1. /\ events # <<>> /\ events' = Tail(events) /\ e.type = "started"
      /\ UNCHANGED <<busy, cancelled, active, inbox, pc, item, itemsDone>>
      /\ TypeOK /\ ThreadsInv
  BY DEF Delivered, OnItemStarted, workerVars, sharedVars, IInv
<1>2. SUFFICES ASSUME busy, ~cancelled[active] PROVE (EndOnItsWay /\ BeginningsInOrder /\ EndingsInOrder)'
  BY <1>1 DEF ProgressInv
<1>3. EndOnItsWay /\ BeginningsInOrder /\ EndingsInOrder
  BY <1>2 DEF ProgressInv
<1>4. currentItem' = e.item
  BY <1>1, <1>2, NotIgnored DEF OnItemStarted
<1>5. EndOnItsWay' /\ UNCHANGED <<Position, Begun>>
  BY <1>1, <1>3, TakenPosition
<1>6. EndingsInOrder'
  BY <1>1, <1>3, <1>5, EndingsTaken
<1>7. BeginningsInOrder'
  <2>1. /\ e = events[1] /\ 1 \in 1 .. Len(events)
        /\ \A i : i \in Of("started")' <=> i \in Nat /\ i # 0 /\ i + 1 \in Of("started")
        /\ \A i \in Of("started")' : events'[i] = events[i + 1]
        /\ \A i \in Of("started") :
             i = 1 \/ (i - 1 \in Of("started")' /\ events'[i - 1] = events[i])
    BY <1>1, OfTaken, Zenon
  <2>2. /\ \A i, j \in Of("started")' : i < j => events'[i].item < events'[j].item
        /\ \A i \in Of("started")' : e.item < events'[i].item
    BY <1>1, <1>3, OrderTaken DEF BeginningsInOrder
  <2>3. \A i \in Of("started")' : events'[i].item < Begun'
    BY <1>3, <1>5, <2>1 DEF BeginningsInOrder
  <2>4. ASSUME pc \notin {"idle", "loop"}, ~\E i \in Of("started")' : events'[i].item = item
        PROVE  e.item = item /\ Of("started")' = {}
    <3>1. 1 \in Of("started")
      BY <1>1, <2>1 DEF Of
    <3>2. PICK i \in Of("started") : events[i].item = item
      BY <1>3, <2>4, <3>1 DEF BeginningsInOrder
    <3>3. i = 1
      BY <2>1, <2>4, <3>2
    <3>4. e.item = item
      BY <2>1, <3>2, <3>3
    <3>5. ASSUME NEW j \in Of("started")' PROVE FALSE
      <4>1. Begun' = item + 1 /\ item \in Nat
        BY <1>1, <1>5, <2>4, ItemNumbers DEF Begun, Position
      <4>2. events'[j].item \in Nat
        <5>1. j + 1 \in Of("started") /\ events'[j] = events[j + 1]
          BY <2>1
        <5>2. QED
          BY <1>1, <5>1, ItemNumbers
      <4>3. QED
        BY <2>2, <2>3, <3>4, <4>1, <4>2
    <3>6. QED
      BY <3>4, <3>5
  <2> HIDE DEF e
  <2>5. QED
    BY <1>1, <1>4, <2>2, <2>3, <2>4 DEF BeginningsInOrder
<1>8. QED
  BY <1>5, <1>6, <1>7

\* The report of an item's end counts that item.
LEMMA ProcessedProgress ==
  ASSUME IInv, ProgressInv, Delivered("processed"), OnItemFinished(Head(events)) PROVE ProgressInv'
<1> DEFINE e == Head(events)
<1>1. /\ events # <<>> /\ events' = Tail(events) /\ e.type = "processed"
      /\ UNCHANGED <<busy, cancelled, active, inbox, pc, item, currentItem>>
      /\ TypeOK /\ ThreadsInv
  BY DEF Delivered, OnItemFinished, workerVars, sharedVars, IInv
<1>2. SUFFICES ASSUME busy, ~cancelled[active] PROVE (EndOnItsWay /\ BeginningsInOrder /\ EndingsInOrder)'
  BY <1>1 DEF ProgressInv
<1>3. EndOnItsWay /\ BeginningsInOrder /\ EndingsInOrder
  BY <1>2 DEF ProgressInv
<1>4. itemsDone' = itemsDone + 1
  BY <1>1, <1>2, NotIgnored DEF OnItemFinished
<1>5. EndOnItsWay' /\ UNCHANGED <<Position, Begun>>
  BY <1>1, <1>3, TakenPosition
<1>6. BeginningsInOrder'
  BY <1>1, <1>3, <1>5, BeginningsTaken
<1>7. EndingsInOrder'
  <2>1. /\ e = events[1] /\ 1 \in 1 .. Len(events)
        /\ \A i : i \in Of("processed")' <=> i \in Nat /\ i # 0 /\ i + 1 \in Of("processed")
        /\ \A i \in Of("processed")' : events'[i] = events[i + 1]
        /\ \A i \in Of("processed") :
             i = 1 \/ (i - 1 \in Of("processed")' /\ events'[i - 1] = events[i])
    BY <1>1, OfTaken, Zenon
  <2>2. /\ \A i, j \in Of("processed")' : i < j => events'[i].item < events'[j].item
        /\ \A i \in Of("processed")' : e.item < events'[i].item
    BY <1>1, <1>3, OrderTaken DEF EndingsInOrder
  <2>3. 1 \in Of("processed")
    BY <1>1, <2>1 DEF Of
  <2>4. /\ itemsDone \in Nat /\ e.item \in Nat /\ itemsDone < e.item /\ e.item < Position
        /\ \A i \in Of("processed") : events[i].item \in Nat
    BY <1>1, <1>3, <2>1, <2>3, ItemNumbers DEF EndingsInOrder
  <2>5. Position \in Nat
    <3>1. pc = "idle" /\ inbox = <<>> => Len(events) \in 1 .. Len(events)
      BY <1>1, Shifted
    <3>2. \A i \in 1 .. Len(events) : events[i] \in EventRecord
      BY <1>1, EventRequests
    <3>3. QED
      BY <1>1, <3>1, <3>2, ItemNumbers DEF Position, EventRecord, Items
  <2>6. e.item = itemsDone + 1
    <3>1. itemsDone + 1 \in itemsDone + 1 .. Position - 1
      BY <2>4, <2>5
    <3>2. PICK i \in Of("processed") : events[i].item = itemsDone + 1
      BY <1>3, <3>1 DEF EndingsInOrder
    <3>3. CASE i = 1
      BY <2>1, <3>2, <3>3
    <3>4. CASE i # 1
      <4>1. e.item < itemsDone + 1
        BY <2>1, <2>2, <3>2, <3>4
      <4>2. QED
        BY <2>4, <4>1
    <3>5. QED
      BY <3>3, <3>4
  <2> HIDE DEF e
  <2>7. itemsDone + 1 < Position
    BY <2>4, <2>6
  <2>8. \A i \in Of("processed")' : itemsDone + 1 < events'[i].item /\ events'[i].item < Position
    BY <1>3, <2>1, <2>2, <2>6 DEF EndingsInOrder
  <2>9. ASSUME NEW k \in (itemsDone + 1) + 1 .. Position - 1
        PROVE  \E i \in Of("processed")' : events'[i].item = k
    <3>1. k \in itemsDone + 1 .. Position - 1 /\ k # itemsDone + 1
      BY <2>4, <2>5
    <3>2. PICK i \in Of("processed") : events[i].item = k
      BY <1>3, <3>1 DEF EndingsInOrder
    <3>3. i # 1
      BY <2>1, <2>6, <3>1, <3>2
    <3>4. QED
      BY <2>1, <3>2, <3>3
  <2>10. QED
    BY <1>4, <1>5, <2>2, <2>7, <2>8, <2>9 DEF EndingsInOrder
<1>8. QED
  BY <1>5, <1>6, <1>7

\* A question shown is no progress.
LEMMA ConflictProgress ==
  ASSUME IInv, ProgressInv, Delivered("conflict"), OnConflictDetected(Head(events)) PROVE ProgressInv'
<1>1. /\ events # <<>> /\ events' = Tail(events) /\ Head(events).type = "conflict"
      /\ UNCHANGED <<busy, cancelled, active, inbox, pc, item, currentItem, itemsDone>>
      /\ TypeOK
  BY DEF Delivered, OnConflictDetected, workerVars, sharedVars, guiVars, IInv
<1>2. ASSUME busy, ~cancelled[active] PROVE (EndOnItsWay /\ BeginningsInOrder /\ EndingsInOrder)'
  <2>1. EndOnItsWay /\ BeginningsInOrder /\ EndingsInOrder
    BY <1>2 DEF ProgressInv
  <2>2. EndOnItsWay' /\ UNCHANGED <<Position, Begun>>
    BY <1>1, <2>1, TakenPosition
  <2>3. BeginningsInOrder'
    BY <1>1, <2>1, <2>2, BeginningsTaken
  <2>4. EndingsInOrder'
    BY <1>1, <2>1, <2>2, EndingsTaken
  <2>5. QED
    BY <2>2, <2>3, <2>4
<1>3. QED
  BY <1>1, <1>2 DEF ProgressInv

-----------------------------------------------------------------------------
(* The tally of the worker and the summary it posts.                       *)

\* What none of these steps touches.
LEMMA TallyFrame ==
  ASSUME TallyInv, UNCHANGED <<task, itemsTotal, tally, item, cancelled, active, consent>>,
         pc' = pc \/ {pc, pc'} \cap {"idle", "break"} = {},
         ~cancelled[active] => (SkipPending' <=> SkipPending)
  PROVE  TallyInv'
<1>1. UNCHANGED Skips
  BY DEF Skips
<1>2. CASE pc = "idle"
  BY <1>2 DEF TallyInv
<1>3. CASE pc # "idle"
  BY <1>1, <1>3 DEF TallyInv, Count
<1>4. QED
  BY <1>2, <1>3

LEMMA SummaryFrame ==
  ASSUME SummaryInv, UNCHANGED <<itemsTotal, cancelled, active, consent>>,
         \A i \in Of("finished")' : \E j \in Of("finished") : events'[i] = events[j]
  PROVE  SummaryInv'
<1>1. UNCHANGED Skips
  BY DEF Skips
<1>2. QED
  BY <1>1 DEF SummaryInv, Count

LEMMA AnswersFrame ==
  ASSUME AnswersInv, UNCHANGED <<consent, ctl, active, itemsTotal>>, inbox' \in {inbox, <<>>}
  PROVE  AnswersInv'
  BY DEF AnswersInv, Skips

\* No other report is an end, and taking a report brings none.
LEMMA EndsPosted ==
  ASSUME TypeOK, NEW e \in EventRecord, events' = Append(events, e), e.type # "finished"
  PROVE  \A i \in Of("finished")' : \E j \in Of("finished") : events'[i] = events[j]
<1>1. /\ \A i \in 1 .. Len(events) : events'[i] = events[i]
      /\ \A type, i : i \in Of(type)' <=> i \in Of(type) \/ (i = Len(events) + 1 /\ e.type = type)
      /\ \A type : \A i \in Of(type) : i \in 1 .. Len(events)
  BY OfPosted, Zenon
<1>2. QED
  BY <1>1

LEMMA EndsTaken ==
  ASSUME TypeOK, events # <<>>, events' = Tail(events)
  PROVE  \A i \in Of("finished")' : \E j \in Of("finished") : events'[i] = events[j]
<1>1. /\ \A type, i : i \in Of(type)' <=> i \in Nat /\ i # 0 /\ i + 1 \in Of(type)
      /\ \A type : \A i \in Of(type)' : events'[i] = events[i + 1]
  BY OfTaken, Zenon
<1>2. QED
  BY <1>1

LEMMA TakeTaskAccount == ASSUME IInv, AccountInv, TakeTask PROVE AccountInv'
<1>1. /\ pc = "idle" /\ pc' = "loop" /\ inbox # <<>> /\ task' = Head(inbox) /\ inbox' = Tail(inbox)
      /\ item' = 1 /\ tally' = EmptyTally
      /\ UNCHANGED <<itemsTotal, cancelled, active, consent, ctl, events, tokens, answer>>
  BY DEF TakeTask, WorkerStep, sharedVars, guiVars, histVars
<1>2. Head(inbox) = inbox[1] /\ Tail(inbox) = <<>> /\ active # 0
  <2>1. inbox \in Seq(Task) /\ Len(inbox) = 1
    BY <1>1 DEF IInv, TypeOK, ThreadsInv
  <2>2. busy
    BY <1>1 DEF IInv, ThreadsInv
  <2>3. QED
    BY <1>1, <2>1, <2>2 DEF IInv, ThreadsInv
<1>3. inbox[1].size = itemsTotal /\ Skips = {} /\ Skips' = {}
  BY <1>1 DEF AccountInv, AnswersInv, Skips
<1>4. TallyInv'
  <2>1. Cardinality(Skips') = 0
    BY <1>3, FS_EmptySet
  <2>2. ~SkipPending'
    BY <1>1 DEF SkipPending
  <2>3. QED
    BY <1>1, <1>2, <1>3, <2>1, <2>2 DEF TallyInv, EmptyTally, Count
<1>5. \A i \in Of("finished")' : \E j \in Of("finished") : events'[i] = events[j]
  BY <1>1 DEF Of
<1>6. SummaryInv'
  BY <1>1, <1>5, SummaryFrame DEF AccountInv
<1>7. AnswersInv'
  BY <1>1, <1>2, AnswersFrame DEF AccountInv
<1>8. QED
  BY <1>4, <1>6, <1>7, TakeTaskProgress DEF AccountInv

LEMMA BeginItemAccount == ASSUME IInv, AccountInv, BeginItem PROVE AccountInv'
<1>1. /\ pc = "loop" /\ pc' \in {"call", "check"}
      /\ events' = Append(events, Event("started", request)) /\ TypeOK /\ ThreadsInv /\ request \in Nat
      /\ UNCHANGED <<task, tally, item, itemsTotal, cancelled, active, consent, ctl, inbox, tokens, answer>>
  BY DEF BeginItem, Post, WorkerStep, sharedVars, guiVars, histVars, IInv, TypeOK
<1>2. Event("started", request) \in EventRecord /\ Event("started", request).type = "started"
  BY <1>1, EventType
<1>3. TallyInv'
  BY <1>1, TallyFrame DEF AccountInv, SkipPending
<1>4. SummaryInv'
  BY <1>1, <1>2, EndsPosted, SummaryFrame DEF AccountInv
<1>5. AnswersInv'
  BY <1>1, AnswersFrame DEF AccountInv
<1>6. QED
  BY <1>3, <1>4, <1>5, BeginItemProgress DEF AccountInv

LEMMA FinishTaskAccount == ASSUME IInv, AccountInv, FinishTask PROVE AccountInv'
<1> DEFINE e == Event("finished", request)
<1>1. /\ pc = "break" \/ (pc = "loop" /\ (item > task.size \/ cancelled[task.id]))
      /\ pc' = "idle" /\ events' = Append(events, e) /\ TypeOK /\ ThreadsInv /\ request \in Nat
      /\ UNCHANGED <<itemsTotal, cancelled, active, consent, ctl, inbox>>
  <2>1. item \in Nat /\ (pc # "idle" => task.size \in Nat)
    BY TypeOfTask, ItemNumbers DEF IInv
  <2>2. /\ (pc = "loop" /\ (~MoreItems \/ cancelled[task.id])) \/ pc = "break"
        /\ pc' = "idle" /\ events' = Append(events, e)
        /\ UNCHANGED <<itemsTotal, cancelled, active, consent, ctl, inbox>>
    BY DEF FinishTask, Post, WorkerStep, sharedVars, guiVars, histVars
  <2>3. TypeOK /\ ThreadsInv /\ request \in Nat
    BY DEF IInv, TypeOK
  <2>4. pc = "loop" /\ ~MoreItems => item > task.size
    BY <2>1 DEF MoreItems
  <2>5. QED
    BY <2>2, <2>3, <2>4
<1>2. /\ e \in EventRecord /\ e.type = "finished" /\ e.item = item /\ e.tally = tally
  BY <1>1, EventType DEF Event
<1> HIDE DEF e
<1>3. /\ events'[Len(events) + 1] = e
      /\ \A i \in 1 .. Len(events) : events'[i] = events[i]
      /\ \A i : i \in Of("finished")' <=> i \in Of("finished") \/ i = Len(events) + 1
      /\ \A i \in Of("finished") : i \in 1 .. Len(events)
  BY <1>1, <1>2, OfPosted, Zenon
<1>4. Of("finished") = {}
  BY <1>1 DEF IInv, ReportsInv, Of
<1>5. /\ tally.failed <= tally.incomplete /\ Count(tally) <= itemsTotal
      /\ ~cancelled[active] =>
           /\ item = itemsTotal + 1 /\ Count(tally) = itemsTotal
           /\ tally.skipped = Cardinality(Skips)
  <2>1. /\ task.size = itemsTotal /\ task.size \in Nat /\ item \in Nat /\ task.id = active
        /\ item <= task.size + 1 /\ (pc = "break" => item <= task.size)
    <3>1. pc # "idle" /\ item \in Nat
      BY <1>1, ItemNumbers
    <3>2. task.size \in Nat /\ task.id = active
      BY <1>1, <3>1, TypeOfTask
    <3>3. task.size = itemsTotal
      BY <3>1 DEF AccountInv, TallyInv
    <3>4. /\ pc = "loop" => item <= task.size + 1
          /\ pc = "break" => item <= task.size
      BY <1>1 DEF ThreadsInv
    <3>5. QED
      BY <1>1, <3>1, <3>2, <3>3, <3>4
  <2>2. /\ tally.failed <= tally.incomplete
        /\ Count(tally) <= (IF pc = "break" THEN item ELSE item - 1)
        /\ ~cancelled[active] => /\ pc # "break" /\ Count(tally) = item - 1
                                 /\ Cardinality(Skips) = tally.skipped + (IF SkipPending THEN 1 ELSE 0)
    BY <1>1 DEF AccountInv, TallyInv
  <2>3. Count(tally) \in Nat /\ tally.skipped \in Nat
    BY <1>1 DEF TypeOK, Tally, Count
  <2>4. pc = "loop" => ~SkipPending
    BY DEF SkipPending
  <2>5. Count(tally) <= itemsTotal
    BY <1>1, <2>1, <2>2, <2>3
  <2>6. ASSUME ~cancelled[active]
        PROVE  item = itemsTotal + 1 /\ Count(tally) = itemsTotal /\ tally.skipped = Cardinality(Skips)
    <3>1. pc = "loop" /\ item > task.size /\ Count(tally) = item - 1
      BY <1>1, <2>1, <2>2, <2>6
    <3>2. Cardinality(Skips) = tally.skipped + 0
      BY <2>2, <2>4, <2>6, <3>1
    <3>3. QED
      BY <2>1, <2>3, <3>1, <3>2
  <2>7. QED
    BY <2>2, <2>5, <2>6
<1>6. TallyInv'
  BY <1>1 DEF TallyInv
<1>7. SummaryInv'
  <2>1. UNCHANGED Skips
    BY <1>1 DEF Skips
  <2>2. \A i \in Of("finished")' : events'[i] = e
    BY <1>3, <1>4
  <2>3. QED
    BY <1>1, <1>2, <1>5, <2>1, <2>2 DEF SummaryInv, Count
<1>8. AnswersInv'
  BY <1>1, AnswersFrame DEF AccountInv
<1>9. QED
  BY <1>6, <1>7, <1>8, FinishTaskProgress DEF AccountInv

\* The steps that neither report nor count.
LEMMA SilentAccount ==
  ASSUME IInv, AccountInv, NoConflict \/ BeginOperation \/ ReadAnswer PROVE AccountInv'
<1>1. /\ {pc, pc'} \cap {"idle", "loop", "break"} = {}
      /\ UNCHANGED <<task, tally, item, itemsTotal, cancelled, active, consent, ctl, inbox,
                     events, busy, currentItem, itemsDone, tokens, answer>>
  BY DEF NoConflict, BeginOperation, ReadAnswer, WorkerStep, sharedVars, guiVars, histVars
<1>2. ~cancelled[active] => (SkipPending' <=> SkipPending)
  <2>1. CASE ReadAnswer
    <3>1. pc = "woken" /\ pc' = "call" /\ task.id = active /\ answer[task.id] # "skip"
      BY <2>1, TypeOfTask DEF ReadAnswer, IInv
    <3>2. QED
      BY <3>1 DEF SkipPending
  <2>2. CASE NoConflict \/ BeginOperation
    BY <2>2 DEF SkipPending, NoConflict, BeginOperation
  <2>3. QED
    BY <2>1, <2>2
<1>3. TallyInv'
  BY <1>1, <1>2, TallyFrame DEF AccountInv
<1>4. \A i \in Of("finished")' : \E j \in Of("finished") : events'[i] = events[j]
  BY <1>1 DEF Of
<1>5. SummaryInv' /\ AnswersInv'
  BY <1>1, <1>4, SummaryFrame, AnswersFrame DEF AccountInv
<1>6. ProgressInv'
  BY <1>1, ProgressFrame DEF AccountInv
<1>7. QED
  BY <1>3, <1>5, <1>6 DEF AccountInv

LEMMA DetectConflictAccount == ASSUME IInv, AccountInv, DetectConflict PROVE AccountInv'
<1>1. /\ pc = "check" /\ pc' = "wait"
      /\ events' = Append(events, Event("conflict", serial + 1))
      /\ TypeOK /\ ThreadsInv /\ serial + 1 \in Nat
      /\ answer' = [answer EXCEPT ![task.id] = NoAnswer]
      /\ UNCHANGED <<task, tally, item, itemsTotal, cancelled, active, consent, ctl, inbox>>
  BY DEF DetectConflict, Post, WorkerStep, guiVars, histVars, IInv, TypeOK
<1>2. /\ Event("conflict", serial + 1) \in EventRecord
      /\ Event("conflict", serial + 1).type = "conflict"
  BY <1>1, EventType
<1>3. ~SkipPending /\ ~SkipPending'
  <2>1. task.id = active /\ active \in DOMAIN answer
    BY <1>1, TypeOfTask DEF TypeOK
  <2>2. answer'[active] = NoAnswer
    BY <1>1, <2>1
  <2>3. QED
    BY <1>1, <2>2 DEF SkipPending, NoAnswer
<1>4. TallyInv'
  BY <1>1, <1>3, TallyFrame DEF AccountInv
<1>5. SummaryInv'
  BY <1>1, <1>2, EndsPosted, SummaryFrame DEF AccountInv
<1>6. AnswersInv'
  BY <1>1, AnswersFrame DEF AccountInv
<1>7. QED
  BY <1>4, <1>5, <1>6, DetectConflictProgress DEF AccountInv

LEMMA AcquireAccount == ASSUME IInv, AccountInv, Acquire PROVE AccountInv'
<1>1. /\ pc = "wait" /\ pc' = "woken" /\ tokens[task.id] > 0 /\ TypeOK /\ ThreadsInv
      /\ UNCHANGED <<task, tally, item, itemsTotal, cancelled, active, consent, ctl, inbox,
                     events, busy, currentItem, itemsDone, answer>>
  BY DEF Acquire, WorkerStep, guiVars, histVars, IInv
<1>2. ~cancelled[active] => (SkipPending' <=> SkipPending)
  <2>1. task.id = active /\ busy
    BY <1>1, TypeOfTask DEF ThreadsInv
  <2>2. ~cancelled[active] => tokens[active] <= 1 /\ tokens[active] \in Nat
    BY <2>1 DEF IInv, TokenInv, TypeOK
  <2>3. ~cancelled[active] => tokens[active] = 1
    BY <1>1, <2>1, <2>2
  <2>4. QED
    BY <1>1, <2>3 DEF SkipPending
<1>3. TallyInv'
  BY <1>1, <1>2, TallyFrame DEF AccountInv
<1>4. \A i \in Of("finished")' : \E j \in Of("finished") : events'[i] = events[j]
  BY <1>1 DEF Of
<1>5. SummaryInv' /\ AnswersInv'
  BY <1>1, <1>4, SummaryFrame, AnswersFrame DEF AccountInv
<1>6. ProgressInv'
  BY <1>1, ProgressFrame DEF AccountInv
<1>7. QED
  BY <1>3, <1>5, <1>6 DEF AccountInv

\* The task is given up: what an item half done adds is within the bound.
LEMMA GivenUp ==
  ASSUME IInv, AccountInv, cancelled[task.id], pc \notin {"idle", "loop", "break"}, pc' = "break",
         tally' \in {tally, Added(0, 1, 1, 0), Added(0, 0, 1, 0)},
         UNCHANGED <<task, item, itemsTotal, cancelled, active, consent, ctl, inbox, events, busy>>
  PROVE  AccountInv'
<1>1. TypeOK /\ ThreadsInv /\ cancelled'[active'] /\ item \in Nat
  BY TypeOfTask, ItemNumbers DEF IInv
<1>2. /\ tally.succeeded \in Nat /\ tally.failed \in Nat /\ tally.incomplete \in Nat
      /\ tally.skipped \in Nat
  BY <1>1 DEF TypeOK, Tally
<1>3. task.size = itemsTotal /\ tally.failed <= tally.incomplete /\ Count(tally) <= item - 1
  BY DEF AccountInv, TallyInv
<1>4. tally'.failed <= tally'.incomplete /\ Count(tally)' <= item
  BY <1>1, <1>2, <1>3 DEF Added, Count
<1>5. TallyInv'
  BY <1>1, <1>3, <1>4 DEF TallyInv
<1>6. \A i \in Of("finished")' : \E j \in Of("finished") : events'[i] = events[j]
  BY DEF Of
<1>7. SummaryInv' /\ AnswersInv'
  BY <1>6, SummaryFrame, AnswersFrame DEF AccountInv
<1>8. ProgressInv'
  BY <1>1 DEF ProgressInv
<1>9. QED
  BY <1>5, <1>7, <1>8 DEF AccountInv

LEMMA GivenUpAccount ==
  ASSUME IInv, AccountInv,
         AbortWait \/ \E outcome \in {"cancelled", "cancelledFailed"} : OperationCancelled(outcome)
  PROVE  AccountInv'
<1>1. /\ cancelled[task.id] /\ pc \notin {"idle", "loop", "break"} /\ pc' = "break"
      /\ UNCHANGED <<task, item, itemsTotal, cancelled, active, consent, ctl, inbox, events, busy>>
  BY DEF AbortWait, OperationCancelled, WorkerStep, sharedVars, guiVars, histVars
<1>2. tally' \in {tally, Added(0, 1, 1, 0), Added(0, 0, 1, 0)}
  BY DEF AbortWait, OperationCancelled, Counted
<1>3. QED
  BY <1>1, <1>2, GivenUp

\* An item is done: it is counted once.
LEMMA ItemDone ==
  ASSUME IInv, AccountInv, pc \notin {"idle", "loop", "break"}, Post("processed", request),
         pc' = "loop", item' = item + 1,
         \/ SkipPending /\ tally' = Added(0, 0, 0, 1)
         \/ ~SkipPending /\ tally' \in {Added(1, 0, 0, 0), Added(0, 1, 1, 0), Added(0, 0, 1, 0)},
         UNCHANGED <<task, itemsTotal, cancelled, active, consent, ctl, inbox, busy,
                     currentItem, itemsDone>>
  PROVE  AccountInv'
<1>1. /\ events' = Append(events, Event("processed", request)) /\ TypeOK /\ ThreadsInv
      /\ request \in Nat /\ item \in Nat
  BY ItemNumbers DEF Post, IInv, TypeOK
<1>2. /\ Event("processed", request) \in EventRecord
      /\ Event("processed", request).type = "processed"
  BY <1>1, EventType
<1>3. /\ tally.succeeded \in Nat /\ tally.failed \in Nat /\ tally.incomplete \in Nat
      /\ tally.skipped \in Nat
  BY <1>1 DEF TypeOK, Tally
<1>4. /\ task.size = itemsTotal /\ tally.failed <= tally.incomplete /\ Count(tally) <= item - 1
      /\ ~cancelled[active] =>
           /\ Count(tally) = item - 1
           /\ \A c \in Skips : c.item < item \/ c.item = item
           /\ Cardinality(Skips) = tally.skipped + (IF SkipPending THEN 1 ELSE 0)
  BY DEF AccountInv, TallyInv
<1>5. UNCHANGED Skips /\ ~SkipPending' /\ \A c \in Skips : c.item \in Nat
  BY <1>1 DEF Skips, SkipPending, TypeOK, Consent, Items
<1>6. /\ tally'.failed <= tally'.incomplete /\ Count(tally') <= item
      /\ Count(tally) = item - 1 => Count(tally') = item
      /\ tally'.skipped = tally.skipped + (IF SkipPending THEN 1 ELSE 0)
  <2>1. \A s, f, i, k \in Nat :
          /\ Added(s, f, i, k).succeeded = tally.succeeded + s
          /\ Added(s, f, i, k).failed = tally.failed + f
          /\ Added(s, f, i, k).incomplete = tally.incomplete + i
          /\ Added(s, f, i, k).skipped = tally.skipped + k
    BY DEF Added
  <2>2. PICK s, f, i, k \in {0, 1} :
          /\ tally' = Added(s, f, i, k) /\ f <= i /\ s + i + k = 1
          /\ k = IF SkipPending THEN 1 ELSE 0
    <3>1. CASE SkipPending
      BY <3>1
    <3>2. CASE ~SkipPending
      <4>1. CASE tally' = Added(1, 0, 0, 0)
        <5>1. WITNESS 1 \in {0, 1}, 0 \in {0, 1}, 0 \in {0, 1}, 0 \in {0, 1}
        <5>2. QED
          BY <3>2, <4>1
      <4>2. CASE tally' = Added(0, 1, 1, 0)
        <5>1. WITNESS 0 \in {0, 1}, 1 \in {0, 1}, 1 \in {0, 1}, 0 \in {0, 1}
        <5>2. QED
          BY <3>2, <4>2
      <4>3. CASE tally' = Added(0, 0, 1, 0)
        <5>1. WITNESS 0 \in {0, 1}, 0 \in {0, 1}, 1 \in {0, 1}, 0 \in {0, 1}
        <5>2. QED
          BY <3>2, <4>3
      <4>4. QED
        BY <3>2, <4>1, <4>2, <4>3
    <3>3. QED
      BY <3>1, <3>2
  <2>3. /\ tally'.succeeded = tally.succeeded + s /\ tally'.failed = tally.failed + f
        /\ tally'.incomplete = tally.incomplete + i /\ tally'.skipped = tally.skipped + k
    BY <2>1, <2>2
  <2>4. Count(tally') = Count(tally) + 1
    BY <1>3, <2>2, <2>3 DEF Count
  <2>5. Count(tally) \in Nat
    BY <1>3 DEF Count
  <2>6. tally'.failed <= tally'.incomplete
    BY <1>3, <1>4, <2>2, <2>3
  <2>7. QED
    BY <1>1, <1>4, <2>2, <2>3, <2>4, <2>5, <2>6
<1>7. TallyInv'
  <2>1. \A c \in Skips : c.item < item \/ c.item = item => c.item < item + 1
    BY <1>1, <1>5
  <2>2. (item + 1) - 1 = item /\ Count(tally)' = Count(tally')
    BY <1>1 DEF Count
  <2>3. tally'.skipped \in Nat /\ tally'.skipped = tally'.skipped + 0
    BY <1>3, <1>6
  <2>4. ASSUME ~cancelled[active]
        PROVE  /\ Count(tally)' = item' - 1
               /\ \A c \in Skips' : c.item < item'
               /\ Cardinality(Skips') = tally'.skipped + 0
    BY <1>4, <1>5, <1>6, <2>1, <2>2, <2>3, <2>4
  <2>5. QED
    BY <1>4, <1>5, <1>6, <2>2, <2>4 DEF TallyInv
<1>8. SummaryInv'
  BY <1>1, <1>2, EndsPosted, SummaryFrame DEF AccountInv
<1>9. AnswersInv'
  BY AnswersFrame DEF AccountInv
<1>10. QED
  BY <1>7, <1>8, <1>9, ItemDoneProgress DEF AccountInv

LEMMA ItemDoneAccount ==
  ASSUME IInv, AccountInv,
         ReadSkip \/ \E outcome \in {"complete", "failed", "skippedChildren"} : EndOperation(outcome)
  PROVE  AccountInv'
<1>1. /\ pc \notin {"idle", "loop", "break"} /\ Post("processed", request)
      /\ pc' = "loop" /\ item' = item + 1
      /\ UNCHANGED <<task, itemsTotal, cancelled, active, consent, ctl, inbox, busy,
                     currentItem, itemsDone>>
  BY DEF ReadSkip, EndOperation, WorkerStep, sharedVars, guiVars, histVars
<1>2. CASE ReadSkip
  <2>1. SkipPending /\ tally' = Added(0, 0, 0, 1)
    BY <1>2, TypeOfTask DEF ReadSkip, SkipPending, IInv
  <2>2. QED
    BY <1>1, <2>1, ItemDone
<1>3. CASE \E outcome \in {"complete", "failed", "skippedChildren"} : EndOperation(outcome)
  <2>1. ~SkipPending /\ tally' \in {Added(1, 0, 0, 0), Added(0, 1, 1, 0), Added(0, 0, 1, 0)}
    BY <1>3 DEF EndOperation, Counted, SkipPending
  <2>2. QED
    BY <1>1, <2>1, ItemDone
<1>4. QED
  BY <1>2, <1>3

LEMMA WorkerAccount == ASSUME IInv, AccountInv, Worker PROVE AccountInv'
<1>1. CASE TakeTask \/ BeginItem \/ FinishTask \/ DetectConflict \/ Acquire
  BY <1>1, TakeTaskAccount, BeginItemAccount, FinishTaskAccount, DetectConflictAccount, AcquireAccount
<1>2. CASE NoConflict \/ BeginOperation \/ ReadAnswer
  BY <1>2, SilentAccount
<1>3. CASE AbortWait \/ \E outcome \in {"cancelled", "cancelledFailed"} : OperationCancelled(outcome)
  BY <1>3, GivenUpAccount
<1>4. CASE ReadSkip \/ \E outcome \in {"complete", "failed", "skippedChildren"} : EndOperation(outcome)
  BY <1>4, ItemDoneAccount
<1>5. QED
  BY <1>1, <1>2, <1>3, <1>4 DEF Worker

-----------------------------------------------------------------------------
(* The delivery of the reports and the operations of the user.             *)

\* Nothing runs after the step: nothing is reported.
LEMMA QuietAccount ==
  ASSUME ThreadsInv', ~busy', IsFiniteSet(consent'), \A c \in consent' : c.task <= ctl'
  PROVE  AccountInv'
<1>1. pc' = "idle" /\ inbox' = <<>> /\ events' = <<>>
  BY DEF ThreadsInv
<1>2. Of("finished")' = {}
  BY <1>1 DEF Of
<1>3. QED
  BY <1>1, <1>2 DEF AccountInv, ProgressInv, TallyInv, SummaryInv, AnswersInv

\* A task starts: nothing is done yet, and no answer is about it but the consent to
\* a trash operation.
LEMMA StartAccount ==
  ASSUME IInv, AccountInv, NEW t \in Task, StartTask(t), t.id > ctl, pc' = "idle", inbox = <<>>, events' = <<>>,
         IsFiniteSet(consent'),
         \A c \in consent' : c \in consent \/ (c.task = t.id /\ c.says = "trash")
  PROVE  AccountInv'
<1>1. /\ inbox' = <<t>> /\ inbox' # <<>> /\ inbox'[1] = t /\ active' = t.id /\ ctl' = t.id
      /\ itemsDone' = 0 /\ itemsTotal' = t.size
  BY DEF StartTask, ResetProgress
<1>2. \A type : Of(type)' = {}
  BY DEF Of
<1>3. Position' = 1 /\ Begun' = 1
  BY <1>1 DEF Position, Begun
<1>4. ProgressInv'
  BY <1>1, <1>2, <1>3 DEF ProgressInv, EndOnItsWay, BeginningsInOrder, EndingsInOrder
<1>5. TallyInv' /\ SummaryInv'
  BY <1>2 DEF TallyInv, SummaryInv
<1>6. \A c \in consent : c.task <= ctl /\ c.task \in Nat
  BY DEF AccountInv, AnswersInv, IInv, TypeOK, Consent, TaskIds
<1>7. ctl \in Nat /\ t.id \in Nat
  BY DEF IInv, TypeOK, Task, TaskIds
<1>8. \A c \in consent' : c.task <= t.id /\ (c.task = t.id => c.says = "trash")
  BY <1>6, <1>7
<1>9. Skips' = {}
  BY <1>1, <1>8 DEF Skips
<1>10. QED
  BY <1>1, <1>4, <1>5, <1>8, <1>9 DEF AccountInv, AnswersInv

\* The reports that count nothing in the tally.
LEMMA ReportAccount ==
  ASSUME IInv, AccountInv,
         \/ Delivered("started") /\ OnItemStarted(Head(events))
         \/ Delivered("processed") /\ OnItemFinished(Head(events))
         \/ Delivered("conflict") /\ OnConflictDetected(Head(events))
  PROVE  AccountInv'
<1>1. /\ events # <<>> /\ events' = Tail(events) /\ TypeOK
      /\ UNCHANGED <<pc, task, tally, item, itemsTotal, cancelled, active, consent, ctl, inbox,
                     tokens, answer>>
  BY DEF Delivered, OnItemStarted, OnItemFinished, OnConflictDetected, workerVars, sharedVars,
         guiVars, histVars, IInv
<1>2. TallyInv'
  BY <1>1, TallyFrame DEF AccountInv, SkipPending
<1>3. SummaryInv' /\ AnswersInv'
  BY <1>1, EndsTaken, SummaryFrame, AnswersFrame DEF AccountInv
<1>4. ProgressInv'
  BY StartedProgress, ProcessedProgress, ConflictProgress DEF AccountInv
<1>5. QED
  BY <1>2, <1>3, <1>4 DEF AccountInv

\* dispatchNextTask when nothing runs and no question is open.
LEMMA DispatchAccount ==
  ASSUME IInv, AccountInv, Idle, NEW q \in Seq(Task), QueueOK(q),
         NEW current \in 0 .. MaxTasks, DispatchNext(q, FALSE, FALSE, current),
         consent' \in {consent, {}}, ThreadsInv'
  PROVE  AccountInv'
<1>1. IsFiniteSet(consent') /\ \A c \in consent' : c \in consent /\ c.task <= ctl
  BY FS_EmptySet DEF AccountInv, AnswersInv
<1>2. CASE Blocked(q, FALSE, FALSE) \/ Head(q).kind = "trash"
  <2>1. ~busy' /\ ctl' = ctl
    BY <1>2 DEF DispatchNext, startVars
  <2>2. QED
    BY <1>1, <2>1, QuietAccount
<1>3. CASE ~Blocked(q, FALSE, FALSE) /\ Head(q).kind # "trash"
  <2>1. StartTask(Head(q)) /\ q # <<>>
    BY <1>3 DEF DispatchNext, Blocked
  <2>2. Head(q) \in Task /\ Head(q).id > ctl
    <3>1. Len(q) \in Nat /\ Len(q) >= 1 /\ Head(q) = q[1] /\ Head(q) \in Task
      BY <2>1, HeadTail
    <3>2. QED
      BY <3>1 DEF QueueOK
  <2>3. pc' = "idle" /\ inbox = <<>> /\ events' = <<>>
    BY DEF Idle, workerVars
  <2>4. QED
    BY <1>1, <2>1, <2>2, <2>3, StartAccount
<1>4. QED
  BY <1>2, <1>3

LEMMA FinishedAccount ==
  ASSUME IInv, AccountInv, Delivered("finished"), OnTaskFinished(Head(events))
  PROVE  AccountInv'
<1>1. /\ events # <<>> /\ TypeOK /\ events' = Tail(events) /\ Head(events).type = "finished"
      /\ UNCHANGED <<workerVars, exited, barrier>> /\ consent' = {}
  BY DEF IInv, Delivered, OnTaskFinished
<1>2. /\ Head(events) = events[1] /\ 1 \in 1 .. Len(events)
      /\ Len(events) = 1 => Tail(events) = <<>>
  BY <1>1, Shifted
<1>3. Head(events).task = active /\ pc = "idle" /\ inbox = <<>> /\ events' = <<>>
  BY <1>1, <1>2 DEF IInv, ReportsInv
<1>4. DispatchNext(queue, FALSE, FALSE, 0) /\ UNCHANGED <<stopping, nextTask>>
  BY <1>3 DEF OnTaskFinished, Unrelated
<1>5. nextTask' \in 0 .. MaxTasks /\ nextTask <= nextTask'
  BY <1>1, <1>4 DEF TypeOK
<1>6. Idle
  BY <1>1, <1>3, <1>4, <1>5 DEF Idle
<1>7. queue \in Seq(Task) /\ QueueOK(queue)
  BY <1>5, QueueStaysOK
<1>8. ThreadsInv' /\ 0 \in 0 .. MaxTasks
  <2>1. IInv'
    BY FinishedStep
  <2>2. ThreadsInv'
    BY <2>1 DEF IInv
  <2>3. 0 \in 0 .. MaxTasks
    BY BoundsAssumption
  <2>4. QED
    BY <2>2, <2>3
<1>9. QED
  BY <1>1, <1>4, <1>6, <1>7, <1>8, DispatchAccount

\* The user's answer is counted as soon as the worker may read it.
LEMMA ResolveConflictAccount ==
  ASSUME IInv, AccountInv, NEW a \in Answers, NEW q \in shown, ResolveConflict(a, q) PROVE AccountInv'
<1> DEFINE c0 == [task |-> q.task, item |-> q.item, says |-> a]
<1>1. /\ prompt = "conflict" /\ q.id = promptId /\ TypeOK
      /\ answer' = [answer EXCEPT ![ctl] = a] /\ tokens' = [tokens EXCEPT ![ctl] = @ + 1]
      /\ consent' = consent \cup {c0}
      /\ UNCHANGED <<busy, active, ctl, currentItem, itemsDone, itemsTotal, pc, task, item, tally,
                     cancelled, inbox, events>>
  BY DEF ResolveConflict, guiVars, workerVars, IInv
<1>2. /\ q.task = active /\ q.item = item /\ item \in Nat
      /\ busy /\ ctl = active /\ ctl \in 0 .. MaxTasks /\ tokens[active] = 0
      /\ pc = "wait" /\ task.id = active /\ events = <<>> /\ ~cancelled[active]
  BY <1>1, ItemNumbers DEF IInv, PromptInv, PromptFacesBlockedWorker, TypeOK, Question
<1>3. /\ tokens'[active] = 1 /\ answer'[active] = a
      /\ c0.task = active /\ c0.item = item /\ c0.says = a
  BY <1>1, <1>2 DEF TypeOK
<1> HIDE DEF c0
<1>4. ~SkipPending /\ (SkipPending' <=> a = "skip")
  BY <1>1, <1>2, <1>3 DEF SkipPending
<1>5. IsFiniteSet(consent) /\ IsFiniteSet(consent') /\ IsFiniteSet(Skips)
  <2>1. IsFiniteSet(consent)
    BY DEF AccountInv, AnswersInv
  <2>2. QED
    BY <1>1, <2>1, FS_AddElement, FS_Subset DEF Skips
<1>6. /\ task.size = itemsTotal /\ tally.failed <= tally.incomplete
      /\ Count(tally) = item - 1 /\ Count(tally) <= item - 1
      /\ \A c \in Skips : c.item < item
      /\ Cardinality(Skips) = tally.skipped /\ tally.skipped \in Nat
  <2>1. tally.skipped \in Nat /\ Count(tally) \in Nat
    BY <1>1 DEF TypeOK, Tally, Count
  <2>2. QED
    BY <1>2, <1>4, <2>1 DEF AccountInv, TallyInv
<1>7. /\ \A c \in Skips' : c.item < item \/ (c.item = item /\ a = "skip")
      /\ Cardinality(Skips') = tally.skipped + (IF a = "skip" THEN 1 ELSE 0)
  <2>1. CASE a = "skip"
    <3>1. Skips' = Skips \cup {c0} /\ c0 \notin Skips
      BY <1>1, <1>2, <1>3, <1>6, <2>1 DEF Skips
    <3>2. Cardinality(Skips') = Cardinality(Skips) + 1
      BY <1>5, <3>1, FS_AddElement
    <3>3. QED
      BY <1>3, <1>6, <2>1, <3>1, <3>2
  <2>2. CASE a # "skip"
    <3>1. Skips' = Skips
      BY <1>1, <1>3, <2>2 DEF Skips
    <3>2. QED
      BY <1>6, <2>2, <3>1
  <2>3. QED
    BY <2>1, <2>2
<1>8. TallyInv'
  BY <1>1, <1>2, <1>4, <1>6, <1>7 DEF TallyInv, Count
<1>9. SummaryInv' /\ AnswersInv'
  <2>1. Of("finished")' = {} /\ inbox' = <<>>
    BY <1>1, <1>2 DEF Of, IInv, ThreadsInv
  <2>2. \A c \in consent' : c.task <= ctl
    BY <1>1, <1>2, <1>3 DEF AccountInv, AnswersInv
  <2>3. QED
    BY <1>1, <1>5, <2>1, <2>2 DEF SummaryInv, AnswersInv
<1>10. ProgressInv'
  BY <1>1, ProgressFrame DEF AccountInv
<1>11. QED
  BY <1>8, <1>9, <1>10 DEF AccountInv

\* A task given up owes its user no exact count.
LEMMA DropAccount ==
  ASSUME IInv, AccountInv, DropEverything, active' \in {active, IF busy THEN active ELSE 0}, ThreadsInv'
  PROVE  AccountInv'
<1>1. /\ cancelled' = IF ctl = 0 THEN cancelled ELSE [cancelled EXCEPT ![ctl] = TRUE]
      /\ UNCHANGED <<busy, ctl, itemsTotal, pc, task, item, tally, consent, inbox, events>>
      /\ cancelled \in [0 .. MaxTasks -> BOOLEAN] /\ ctl \in 0 .. MaxTasks
  BY DEF DropEverything, RaiseFlag, workerVars, IInv, TypeOK
<1>2. CASE ~busy
  BY <1>1, <1>2, QuietAccount DEF AccountInv, AnswersInv
<1>3. CASE busy
  <2>1. active' = active /\ cancelled'[active']
    BY <1>1, <1>3 DEF IInv, ThreadsInv
  <2>2. Skips' = Skips /\ Of("finished")' = Of("finished")
    BY <1>1, <2>1 DEF Skips, Of
  <2>3. TallyInv'
    BY <1>1, <2>1 DEF AccountInv, TallyInv, Count
  <2>4. SummaryInv'
    BY <1>1, <2>1, <2>2 DEF AccountInv, SummaryInv, Count
  <2>5. AnswersInv' /\ ProgressInv'
    BY <1>1, <2>1, <2>2 DEF AccountInv, AnswersInv, ProgressInv
  <2>6. QED
    BY <2>3, <2>4, <2>5 DEF AccountInv
<1>4. QED
  BY <1>2, <1>3

\* Steps that leave alone all that is counted.
LEMMA AccountFrame ==
  ASSUME AccountInv,
         UNCHANGED <<pc, task, tally, item, itemsTotal, cancelled, active, consent, ctl, inbox,
                     events, busy, currentItem, itemsDone, tokens, answer>>
  PROVE  AccountInv'
<1>1. TallyInv'
  BY TallyFrame DEF AccountInv, SkipPending
<1>2. \A i \in Of("finished")' : \E j \in Of("finished") : events'[i] = events[j]
  BY DEF Of
<1>3. SummaryInv' /\ AnswersInv'
  BY <1>2, SummaryFrame, AnswersFrame DEF AccountInv
<1>4. ProgressInv'
  BY ProgressFrame DEF AccountInv
<1>5. QED
  BY <1>1, <1>3, <1>4 DEF AccountInv

LEMMA UserAccount == ASSUME IInv, AccountInv, User PROVE AccountInv'
<1>1. IInv'
  BY UserPreserves
<1>2. ThreadsInv' /\ IsFiniteSet(consent) /\ \A c \in consent : c.task <= ctl
  BY <1>1 DEF IInv, AccountInv, AnswersInv
<1>3. ASSUME NEW kind \in TransferKinds \cup {"trash"}, NEW n \in 1 .. MaxItems, Submit(kind, n)
      PROVE  AccountInv'
  <2> DEFINE q == Append(queue, [id |-> nextTask + 1, kind |-> kind, size |-> n])
  <2>1. /\ ~stopping /\ nextTask' = nextTask + 1 /\ nextTask + 1 \in TaskIds
        /\ DispatchNext(q, busy, HasPrompt, active)
        /\ UNCHANGED <<stopping, workerVars, consent, barrier, events, exited>>
    BY <1>3 DEF Submit, IInv, TypeOK, TaskIds
  <2> HIDE DEF q
  <2>2. CASE busy \/ HasPrompt
    <3>1. UNCHANGED <<busy, active, startVars>>
      BY <2>1, <2>2 DEF DispatchNext, Blocked
    <3>2. QED
      BY <2>1, <3>1, AccountFrame DEF startVars, workerVars
  <2>3. CASE ~busy /\ ~HasPrompt
    <3>1. CASE ~busy'
      <4>1. UNCHANGED <<ctl, consent>>
        BY <2>1, <2>3, <3>1 DEF DispatchNext, startVars, StartTask
      <4>2. QED
        BY <1>2, <3>1, <4>1, QuietAccount
    <3>2. CASE busy'
      <4>1. Starts /\ InTurn
        BY <1>3, <2>3, <3>2, SubmitStep DEF Starts
      <4>2. StartTask(Head(q)) /\ q # <<>>
        BY <2>1, <2>3, <3>2 DEF DispatchNext, Blocked
      <4>3. q \in Seq(Task)
        <5>1. [id |-> nextTask + 1, kind |-> kind, size |-> n] \in Task
          BY <2>1 DEF Task
        <5>2. queue \in Seq(Task)
          BY DEF IInv, TypeOK
        <5>3. QED
          BY <5>1, <5>2, AppendTo DEF q
      <4>4. Head(q) \in Task /\ active' = Head(q).id
        BY <4>2, <4>3, HeadTail DEF StartTask
      <4>5. pc' = "idle" /\ inbox = <<>> /\ events' = <<>> /\ Head(q).id > ctl
        BY <2>1, <4>1, <4>4 DEF InTurn, workerVars
      <4>6. QED
        BY <1>2, <2>1, <4>2, <4>4, <4>5, StartAccount
    <3>3. QED
      BY <3>1, <3>2
  <2>4. QED
    BY <2>2, <2>3
<1>4. ASSUME NEW q \in shown, ConfirmTrash(q) PROVE AccountInv'
  <2> DEFINE c0 == [task |-> q.task, item |-> q.item, says |-> "trash"]
  <2>1. /\ prompt = "trash" /\ q.id = promptId
        /\ StartTask(Head(queue)) /\ consent' = consent \cup {c0}
        /\ UNCHANGED <<stopping, nextTask, workerVars, barrier, events, exited>>
    BY <1>4 DEF ConfirmTrash
  <2>2. q.task = active /\ c0.task = active /\ c0.says = "trash"
    BY <2>1 DEF IInv, PromptInv, TypeOK, Question
  <2> HIDE DEF c0
  <2>3. consent' \subseteq Consent
    BY <1>1, UserPreserves DEF IInv, TypeOK
  <2>4. /\ Idle /\ queue # <<>> /\ Head(queue).id = active /\ queue \in Seq(Task) /\ QueueOK(queue)
    BY <2>1, <2>3, TrashPrompt
  <2>5. Head(queue) \in Task /\ Head(queue).id > ctl
    <3>1. Len(queue) \in Nat /\ Len(queue) >= 1 /\ Head(queue) = queue[1] /\ Head(queue) \in Task
      BY <2>4, HeadTail
    <3>2. QED
      BY <3>1, <2>4 DEF QueueOK
  <2>6. pc' = "idle" /\ inbox = <<>> /\ events' = <<>>
    BY <2>4 DEF Idle, workerVars
  <2>7. IsFiniteSet(consent')
    BY <1>2, <2>1, FS_AddElement
  <2>8. \A c \in consent' : c \in consent \/ (c.task = Head(queue).id /\ c.says = "trash")
    BY <2>1, <2>2, <2>4
  <2>9. QED
    BY <2>1, <2>5, <2>6, <2>7, <2>8, StartAccount
<1>5. ASSUME NEW q \in shown, DeclineTrash(q) PROVE AccountInv'
  <2>1. /\ prompt = "trash" /\ DispatchNext(Tail(queue), busy, FALSE, 0) /\ busy \in BOOLEAN
        /\ UNCHANGED <<stopping, nextTask, workerVars, barrier, events, exited, consent>>
    BY <1>5 DEF DeclineTrash, IInv, TypeOK
  <2>2. busy = FALSE
    BY <2>1 DEF IInv, PromptInv, TrashPromptOwnsQueueHead
  <2>3. DispatchNext(Tail(queue), FALSE, FALSE, 0)
    BY <2>1, <2>2
  <2>4. consent' \subseteq Consent /\ 0 \in 0 .. MaxTasks
    <3>1. consent \subseteq Consent
      BY DEF IInv, TypeOK
    <3>2. QED
      BY <2>1, <3>1
  <2>5. Idle /\ Tail(queue) \in Seq(Task) /\ QueueOK(Tail(queue))
    BY <2>1, <2>4, TrashPrompt
  <2>6. QED
    BY <1>2, <2>1, <2>3, <2>4, <2>5, DispatchAccount
<1>6. CASE CancelCurrentTask \/ Shutdown
  <2>1. DropEverything /\ active' \in {active, IF busy THEN active ELSE 0}
    BY <1>6 DEF CancelCurrentTask, Shutdown
  <2>2. QED
    BY <1>2, <2>1, DropAccount
<1>7. QED
  BY <1>3, <1>4, <1>5, <1>6, ResolveConflictAccount DEF User

LEMMA InitAccountInv == Init => AccountInv
<1> SUFFICES ASSUME Init PROVE AccountInv
  OBVIOUS
<1>1. /\ ~busy /\ pc = "idle" /\ inbox = <<>> /\ events = <<>> /\ consent = {}
  BY DEF Init
<1>2. Of("finished") = {} /\ IsFiniteSet(consent)
  BY <1>1, FS_EmptySet DEF Of
<1>3. QED
  BY <1>1, <1>2 DEF AccountInv, ProgressInv, TallyInv, SummaryInv, AnswersInv

LEMMA NextAccount == IInv /\ AccountInv /\ [Next]_vars => AccountInv'
<1> SUFFICES ASSUME IInv, AccountInv, [Next]_vars PROVE AccountInv'
  OBVIOUS
<1>1. CASE Deliver
  BY <1>1, ReportAccount, FinishedAccount DEF Deliver
<1>2. CASE ExitThread \/ UNCHANGED vars
  BY <1>2, AccountFrame DEF ExitThread, vars, guiVars, sharedVars, workerVars, histVars
<1>3. QED
  BY <1>1, <1>2, WorkerAccount, UserAccount DEF Next

\* A conflict prompt names the item the worker stands at.
LEMMA PromptNames == IInv /\ AccountInv => PromptNamesItsItem
<1> SUFFICES ASSUME IInv, AccountInv, prompt = "conflict"
             PROVE  promptItem = item /\ currentItem = item /\ itemsDone = item - 1
  BY DEF PromptNamesItsItem
<1>1. /\ busy /\ ~cancelled[active] /\ pc = "wait" /\ events = <<>> /\ promptItem = item
  BY DEF IInv, PromptInv, PromptFacesBlockedWorker
<1>2. BeginningsInOrder /\ EndingsInOrder /\ Position = item
  BY <1>1 DEF AccountInv, ProgressInv, Position
<1>3. Of("started") = {} /\ Of("processed") = {}
  BY <1>1 DEF Of
<1>4. currentItem = item
  BY <1>1, <1>2, <1>3 DEF BeginningsInOrder
<1>5. item \in Nat /\ itemsDone \in Nat /\ itemsDone < item
  BY <1>2, ItemNumbers DEF EndingsInOrder, IInv
<1>6. ~(itemsDone + 1 \in itemsDone + 1 .. item - 1)
  BY <1>2, <1>3 DEF EndingsInOrder
<1>7. itemsDone = item - 1
  BY <1>5, <1>6
<1>8. QED
  BY <1>1, <1>4, <1>7

\* The summary on its way counts every source.
LEMMA SummaryAccounts == IInv /\ AccountInv => EverySourceAccounted
<1> SUFFICES ASSUME IInv, AccountInv, NEW i \in DOMAIN events, events[i].type = "finished"
             PROVE  /\ events[i].tally.failed <= events[i].tally.incomplete
                    /\ Count(events[i].tally) <= itemsTotal
                    /\ ~cancelled[events[i].task] =>
                         /\ Count(events[i].tally) = itemsTotal
                         /\ events[i].tally.skipped =
                              Cardinality({c \in consent : c.task = events[i].task /\ c.says = "skip"})
                         /\ i = 1 => itemsDone = itemsTotal
  BY DEF EverySourceAccounted
<1>1. TypeOK /\ events \in Seq(EventRecord) /\ i \in 1 .. Len(events) /\ Len(events) \in Nat
  BY DEF IInv, TypeOK
<1>2. i \in Of("finished") /\ events[i].task = active /\ i = Len(events) /\ pc = "idle" /\ inbox = <<>>
  BY <1>1 DEF Of, IInv, ReportsInv
<1>3. /\ events[i].tally.failed <= events[i].tally.incomplete
      /\ Count(events[i].tally) <= itemsTotal
      /\ ~cancelled[active] => /\ events[i].item = itemsTotal + 1
                               /\ Count(events[i].tally) = itemsTotal
                               /\ events[i].tally.skipped = Cardinality(Skips)
  BY <1>2 DEF AccountInv, SummaryInv
<1>4. ASSUME ~cancelled[active], i = 1 PROVE itemsDone = itemsTotal
  <2>1. busy /\ Position = itemsTotal + 1 /\ itemsDone \in Nat /\ itemsTotal \in Nat
    BY <1>1, <1>2, <1>3, <1>4 DEF Position, IInv, ThreadsInv, TypeOK
  <2>2. EndingsInOrder
    BY <1>4, <2>1 DEF AccountInv, ProgressInv
  <2>3. Of("processed") = {}
    BY <1>2, <1>4 DEF Of
  <2>4. itemsDone < itemsTotal + 1 /\ ~(itemsDone + 1 \in itemsDone + 1 .. (itemsTotal + 1) - 1)
    BY <2>1, <2>2, <2>3 DEF EndingsInOrder
  <2>5. QED
    BY <2>1, <2>4
<1>5. Skips = {c \in consent : c.task = events[i].task /\ c.says = "skip"}
  BY <1>2 DEF Skips
<1>6. QED
  BY <1>2, <1>3, <1>4, <1>5

\* A conflict prompt names the item the worker stands at with the progress of that
\* item, and the summary of an uncancelled task counts every source once and as
\* skipped those the user answered Skip to (onItemStarted to onTaskFinished).
THEOREM ReportsTrue == Spec => []ReportsAreTrue
<1>1. Spec => []AccountInv
  <2>1. Init => AccountInv
    BY InitAccountInv
  <2>2. IInv /\ AccountInv /\ [Next]_vars => AccountInv'
    BY NextAccount
  <2>3. QED
    BY <2>1, <2>2, Invariance, PTL DEF Spec
<1>2. IInv /\ AccountInv => ReportsAreTrue
  BY PromptNames, SummaryAccounts DEF ReportsAreTrue
<1>3. QED
  BY <1>1, <1>2, Invariance, PTL

-----------------------------------------------------------------------------
(* The refinement of OperationQueue.                                       *)

\* While the worker runs a task the operation is under way.
LEMMA AtWork ==
  ASSUME IInv, pc # "idle"
  PROVE  /\ busy /\ inbox = <<>> /\ Stage = "working" /\ task.id = active /\ task.size \in 1 .. MaxItems
         /\ item \in Nat
<1>1. busy /\ inbox = <<>> /\ TypeOK /\ ThreadsInv
  BY DEF IInv, ThreadsInv
<1>2. task.id = active /\ task.size \in 1 .. MaxItems
  BY <1>1, TypeOfTask
<1>3. item \in Nat
  BY <1>1, ItemNumbers
<1>4. QED
  BY <1>1, <1>2, <1>3 DEF Stage

LEMMA AtWorkStill == ASSUME IInv', pc' # "idle" PROVE Stage' = "working"
BY DEF IInv, ThreadsInv, Stage

\* The worker leaves alone all that is the GUI thread's in the mapping.
LEMMA WorkerMapped ==
  ASSUME WorkerStep, UNCHANGED cancelled
  PROVE  UNCHANGED <<nextTask, queue, Asking, Running, Abandoned, stopping>>
BY DEF WorkerStep, guiVars, promptVars, Asking, Running, Abandoned

\* An item is passed, touched or left behind.
LEMMA ItemPassed ==
  ASSUME IInv, pc \in {"check", "wait", "woken", "call"}, Stage' = "working",
         \/ pc' = "break" /\ item' = item
         \/ pc' = "loop" /\ item' = item + 1,
         UNCHANGED <<nextTask, queue, Asking, Running, Abandoned, stopping>>
  PROVE  Promise!PassItem
<1>1. /\ Stage = "working" /\ item \in Nat /\ item <= MaxItems /\ 1 <= item
  <2>1. Stage = "working" /\ item \in Nat /\ task.size \in 1 .. MaxItems
    BY AtWork
  <2>2. 1 <= item /\ item <= task.size
    BY DEF IInv, ThreadsInv
  <2>3. QED
    BY <2>1, <2>2
<1>2. Touching = 0 /\ Touching' = 0
  BY DEF Touching
<1>3. Reached = item - 1 /\ Reached' = item
  BY <1>1 DEF Reached
<1>4. Reached < MaxItems /\ Reached' = Reached + 1
  BY <1>1, <1>3
<1>5. QED
  BY <1>1, <1>2, <1>4 DEF Promise!PassItem

LEMMA ItemLeft ==
  ASSUME IInv, pc = "operate", Stage' = "working",
         \/ pc' = "break" /\ item' = item
         \/ pc' = "loop" /\ item' = item + 1,
         UNCHANGED <<nextTask, queue, Asking, Running, Abandoned, stopping>>
  PROVE  Promise!Release
<1>1. Stage = "working" /\ item \in Nat /\ 1 <= item
  BY AtWork DEF IInv, ThreadsInv
<1>2. Touching = item /\ Touching' = 0 /\ item # 0
  BY <1>1 DEF Touching
<1>3. Reached = item /\ Reached' = item
  BY <1>1 DEF Reached
<1>4. QED
  BY <1>1, <1>2, <1>3 DEF Promise!Release

LEMMA ItemTouched ==
  ASSUME IInv, IInv', BeginOperation,
         UNCHANGED <<nextTask, queue, Asking, Running, Abandoned, stopping>>
  PROVE  Promise!Touch
<1>1. pc = "call" /\ ~cancelled[task.id] /\ pc' = "operate" /\ item' = item
  BY DEF BeginOperation
<1>2. /\ Stage = "working" /\ item \in Nat /\ task.size \in 1 .. MaxItems /\ task.id = active
  BY <1>1, AtWork
<1>3. Stage' = "working"
  BY <1>1, AtWorkStill
<1>4. 1 <= item /\ item <= task.size
  BY <1>1 DEF IInv, ThreadsInv
<1>5. ~Abandoned
  BY <1>1, <1>2 DEF Abandoned
<1>6. Touching = 0 /\ Touching' = item
  BY <1>1 DEF Touching
<1>7. Reached = item - 1 /\ Reached' = item
  BY <1>1 DEF Reached
<1>8. Reached < MaxItems /\ Touching' = Reached + 1 /\ Reached' = Touching'
  BY <1>2, <1>4, <1>6, <1>7
<1>9. QED
  BY <1>2, <1>3, <1>5, <1>6, <1>8 DEF Promise!Touch

LEMMA WorkerKeepsPromise ==
  ASSUME IInv, IInv', Worker PROVE Promise!Next \/ UNCHANGED Promise!vars
<1>1. WorkerStep /\ UNCHANGED cancelled
  BY DEF Worker, TakeTask, BeginItem, FinishTask, NoConflict, DetectConflict, Acquire, AbortWait,
         ReadSkip, ReadAnswer, BeginOperation, EndOperation, OperationCancelled, sharedVars
<1>2. UNCHANGED <<nextTask, queue, Asking, Running, Abandoned, stopping>>
  BY <1>1, WorkerMapped
<1>3. CASE TakeTask
  <2>1. /\ pc = "idle" /\ inbox # <<>> /\ pc' = "loop" /\ item' = 1
    BY <1>3 DEF TakeTask
  <2>2. busy
    BY <2>1 DEF IInv, ThreadsInv
  <2>3. Stage = "begun" /\ Stage' = "working"
    BY <2>1, <2>2, AtWorkStill DEF Stage
  <2>4. UNCHANGED <<Touching, Reached>>
    BY <2>1 DEF Touching, Reached
  <2>5. Promise!Proceed
    BY <1>2, <2>3, <2>4 DEF Promise!Proceed
  <2>6. QED
    BY <2>5 DEF Promise!Next
<1>4. CASE BeginItem \/ NoConflict \/ DetectConflict \/ Acquire \/ ReadAnswer
  <2>1. /\ {pc, pc'} \cap {"idle", "operate", "break"} = {} /\ UNCHANGED item
    BY <1>4 DEF BeginItem, NoConflict, DetectConflict, Acquire, ReadAnswer
  <2>2. UNCHANGED <<Touching, Reached>>
    BY <2>1 DEF Touching, Reached
  <2>3. Stage = "working" /\ Stage' = "working"
    BY <2>1, AtWork, AtWorkStill
  <2>4. QED
    BY <1>2, <2>2, <2>3 DEF Promise!vars
<1>5. CASE FinishTask
  <2>1. /\ pc \in {"loop", "break"} /\ pc' = "idle" /\ UNCHANGED <<inbox, busy>>
    BY <1>1, <1>5 DEF FinishTask, guiVars, WorkerStep
  <2>2. Stage = "working" /\ busy /\ inbox = <<>>
    BY <2>1, AtWork
  <2>3. Stage' = "settled"
    BY <2>1, <2>2 DEF Stage
  <2>4. Touching = 0 /\ Touching' = 0 /\ Reached' = 0
    BY <2>1 DEF Touching, Reached
  <2>5. Promise!Settle
    BY <1>2, <2>2, <2>3, <2>4 DEF Promise!Settle
  <2>6. QED
    BY <2>5 DEF Promise!Next
<1>6. CASE AbortWait \/ ReadSkip
  <2>1. /\ pc \in {"wait", "woken"} /\ pc' # "idle"
        /\ (pc' = "break" /\ item' = item) \/ (pc' = "loop" /\ item' = item + 1)
    BY <1>6 DEF AbortWait, ReadSkip
  <2>2. Promise!PassItem
    BY <1>2, <2>1, AtWorkStill, ItemPassed
  <2>3. QED
    BY <2>2 DEF Promise!Next
<1>7. CASE BeginOperation
  <2>1. Promise!Touch
    BY <1>2, <1>7, ItemTouched
  <2>2. QED
    BY <2>1 DEF Promise!Next
<1>8. CASE \E outcome \in {"complete", "failed", "skippedChildren"} : EndOperation(outcome)
  <2>1. pc = "operate" /\ pc' = "loop" /\ item' = item + 1 /\ pc' # "idle"
    BY <1>8 DEF EndOperation
  <2>2. Promise!Release
    BY <1>2, <2>1, AtWorkStill, ItemLeft
  <2>3. QED
    BY <2>2 DEF Promise!Next
<1>9. CASE \E outcome \in {"cancelled", "cancelledFailed"} : OperationCancelled(outcome)
  <2>1. pc \in {"call", "operate"} /\ pc' = "break" /\ item' = item /\ pc' # "idle"
    BY <1>9 DEF OperationCancelled
  <2>2. Stage' = "working"
    BY <2>1, AtWorkStill
  <2>3. CASE pc = "call"
    <3>1. Promise!PassItem
      BY <1>2, <2>1, <2>2, <2>3, ItemPassed
    <3>2. QED
      BY <3>1 DEF Promise!Next
  <2>4. CASE pc = "operate"
    <3>1. Promise!Release
      BY <1>2, <2>1, <2>2, <2>4, ItemLeft
    <3>2. QED
      BY <3>1 DEF Promise!Next
  <2>5. QED
    BY <2>1, <2>3, <2>4
<1>10. QED
  BY <1>3, <1>4, <1>5, <1>6, <1>7, <1>8, <1>9 DEF Worker

-----------------------------------------------------------------------------

\* A task starts afresh: whatever the flag of an earlier task said.
LEMMA StartMapped ==
  ASSUME NEW t \in Task, StartTask(t), pc' = "idle", inbox = <<>>, task.id = 0
  PROVE  Promise!Start(t)
<1>1. t.id \in 0 .. MaxTasks
  BY DEF Task, TaskIds
<1>2. busy' /\ active' = t.id /\ inbox' # <<>> /\ ~cancelled'[t.id]
  BY <1>1 DEF StartTask, Fresh
<1>3. Running' = t.id /\ Stage' = "begun" /\ Reached' = 0
  BY <1>2 DEF Running, Stage, Reached
<1>4. Abandoned' = FALSE
  BY <1>2 DEF Abandoned
<1>5. QED
  BY <1>3, <1>4 DEF Promise!Start

\* dispatchNextTask goes on with the operations that wait.
LEMMA DispatchGoesOn ==
  ASSUME IInv, Idle, NEW q \in Seq(Task), NEW current, DispatchNext(q, FALSE, FALSE, current)
  PROVE  /\ Promise!GoOn(q)
         /\ UNCHANGED <<Touching, stopping>>
<1>1. /\ pc = "idle" /\ pc' = "idle" /\ inbox = <<>> /\ stopping' = stopping /\ task.id = 0
  BY DEF Idle, workerVars, IInv, ThreadsInv, NoTask
<1>2. UNCHANGED Touching /\ Reached' = 0
  BY <1>1 DEF Touching, Reached
<1>3. CASE Blocked(q, FALSE, FALSE)
  <2>1. (q = <<>> \/ stopping) /\ queue' = q /\ ~busy' /\ prompt' = "none"
    BY <1>3 DEF DispatchNext, Blocked, ResetPrompt
  <2>2. Running' = 0 /\ Stage' = "none"
    BY <2>1 DEF Running, Stage
  <2>3. Asking' = FALSE /\ Abandoned' = FALSE
    BY <2>1 DEF Asking, Abandoned
  <2>4. QED
    BY <1>1, <1>2, <2>1, <2>2, <2>3 DEF Promise!GoOn, Promise!Rest
<1>4. CASE ~Blocked(q, FALSE, FALSE) /\ Head(q).kind = "trash"
  <2>1. q # <<>> /\ ~stopping /\ queue' = q /\ ~busy' /\ prompt' = "trash"
    BY <1>4 DEF DispatchNext, Blocked, AskToTrash
  <2>2. Running' = 0 /\ Stage' = "none"
    BY <2>1 DEF Running, Stage
  <2>3. Asking' = TRUE /\ Abandoned' = FALSE
    BY <2>1 DEF Asking, Abandoned
  <2>4. QED
    BY <1>1, <1>2, <1>4, <2>1, <2>2, <2>3 DEF Promise!GoOn, Promise!Rest
<1>5. CASE ~Blocked(q, FALSE, FALSE) /\ Head(q).kind # "trash"
  <2>1. /\ q # <<>> /\ ~stopping /\ queue' = Tail(q) /\ StartTask(Head(q)) /\ prompt' = "none"
    BY <1>5 DEF DispatchNext, Blocked, ResetPrompt
  <2>2. Promise!Start(Head(q))
    BY <1>1, <1>2, <2>1, StartMapped
  <2>3. Asking' = FALSE
    BY <2>1 DEF Asking
  <2>4. QED
    BY <1>1, <1>2, <1>5, <2>1, <2>2, <2>3 DEF Promise!GoOn
<1>6. QED
  BY <1>2, <1>1, <1>3, <1>4, <1>5

\* A submission joins the others, or the dispatcher goes on with it.
LEMMA SubmitKeepsPromise ==
  ASSUME IInv, NEW kind \in TransferKinds \cup {"trash"}, NEW n \in 1 .. MaxItems, Submit(kind, n)
  PROVE  Promise!Next
<1> DEFINE op == [id |-> nextTask + 1, kind |-> kind, size |-> n]
           q == Append(queue, op)
<1>1. /\ ~stopping /\ nextTask' = nextTask + 1 /\ nextTask + 1 \in TaskIds /\ nextTask + 1 \in 0 .. MaxTasks
      /\ DispatchNext(q, busy, HasPrompt, active)
      /\ UNCHANGED <<stopping, workerVars, consent, barrier, events, exited>>
      /\ nextTask <= nextTask'
  BY DEF Submit, IInv, TypeOK, TaskIds
<1>2. op \in Task /\ op.id = nextTask + 1 /\ queue \in Seq(Task)
  BY <1>1 DEF Task, IInv, TypeOK
<1>3. op \in Promise!Operation
  BY <1>2 DEF Promise!Operation, Task, TaskIds
<1> HIDE DEF op
<1>4. q \in Seq(Task)
  BY <1>2, AppendTo
<1>5. q = Append(queue, op)
  OBVIOUS
<1> HIDE DEF q
<1>6. busy \/ HasPrompt <=> Running # 0 \/ Asking
  <2>1. busy => active # 0
    BY DEF IInv, ThreadsInv
  <2>2. HasPrompt <=> Asking \/ prompt = "conflict"
    BY DEF HasPrompt, Asking, IInv, TypeOK
  <2>3. prompt = "conflict" => busy
    BY DEF IInv, PromptInv, PromptFacesBlockedWorker
  <2>4. QED
    BY <2>1, <2>2, <2>3 DEF Running
<1>7. UNCHANGED <<Touching, stopping>>
  BY <1>1 DEF Touching, workerVars
<1>8. CASE busy \/ HasPrompt
  <2>1. /\ queue' = q /\ UNCHANGED <<busy, active, startVars>>
        /\ IF HasPrompt THEN UNCHANGED promptVars ELSE ResetPrompt
    BY <1>1, <1>8 DEF DispatchNext, Blocked
  <2>2. UNCHANGED Asking
    BY <2>1 DEF HasPrompt, ResetPrompt, promptVars, Asking
  <2>3. UNCHANGED <<Running, Stage, Reached, Abandoned>>
    BY <1>1, <2>1 DEF Running, Stage, Reached, Abandoned, startVars, workerVars
  <2>4. Promise!Submit(op)
    BY <1>1, <1>2, <1>5, <1>6, <1>7, <1>8, <2>1, <2>2, <2>3 DEF Promise!Submit
  <2>5. QED
    BY <1>3, <2>4 DEF Promise!Next
<1>9. CASE ~(busy \/ HasPrompt)
  <2>1. busy = FALSE /\ HasPrompt = FALSE
    BY <1>9 DEF IInv, TypeOK, HasPrompt
  <2>2. DispatchNext(q, FALSE, FALSE, active)
    BY <1>1, <2>1
  <2>3. Idle
    <3>1. pc = "idle" /\ inbox = <<>> /\ events' = <<>>
      BY <1>1, <2>1 DEF IInv, ThreadsInv
    <3>2. consent \subseteq Consent
      BY DEF IInv, TypeOK
    <3>3. QED
      BY <1>1, <3>1, <3>2 DEF Idle
  <2>4. Promise!GoOn(q)
    BY <1>4, <2>2, <2>3, DispatchGoesOn
  <2>5. Promise!Submit(op)
    BY <1>1, <1>2, <1>5, <1>6, <1>7, <1>9, <2>4 DEF Promise!Submit
  <2>6. QED
    BY <1>3, <2>5 DEF Promise!Next
<1>10. QED
  BY <1>8, <1>9

LEMMA ConfirmKeepsPromise ==
  ASSUME IInv, IInv', NEW q \in shown, ConfirmTrash(q) PROVE Promise!Next
<1>1. /\ prompt = "trash" /\ queue' = Tail(queue) /\ StartTask(Head(queue)) /\ prompt' = "none"
      /\ UNCHANGED <<stopping, nextTask, workerVars, barrier, events, exited>>
  BY DEF ConfirmTrash, ResetPrompt
<1>2. consent' \subseteq Consent
  BY DEF IInv, TypeOK
<1>3. Idle /\ queue # <<>> /\ queue \in Seq(Task)
  BY <1>1, <1>2, TrashPrompt
<1>4. Head(queue) \in Task
  BY <1>3, HeadTail
<1>5. pc = "idle" /\ pc' = "idle" /\ inbox = <<>> /\ task.id = 0
  BY <1>3 DEF Idle, workerVars, IInv, ThreadsInv, NoTask
<1>6. Promise!Start(Head(queue))
  BY <1>1, <1>4, <1>5, StartMapped
<1>7. Asking /\ Asking' = FALSE /\ UNCHANGED Touching
  BY <1>1, <1>5 DEF Asking, Touching
<1>8. Promise!Confirm
  BY <1>1, <1>6, <1>7 DEF Promise!Confirm
<1>9. QED
  BY <1>8 DEF Promise!Next

LEMMA DeclineKeepsPromise ==
  ASSUME IInv, NEW q \in shown, DeclineTrash(q) PROVE Promise!Next
<1>1. /\ prompt = "trash" /\ DispatchNext(Tail(queue), busy, FALSE, 0) /\ busy \in BOOLEAN
      /\ UNCHANGED <<stopping, nextTask, workerVars, barrier, events, exited, consent>>
  BY DEF DeclineTrash, IInv, TypeOK
<1>2. busy = FALSE
  BY <1>1 DEF IInv, PromptInv, TrashPromptOwnsQueueHead
<1>3. DispatchNext(Tail(queue), FALSE, FALSE, 0)
  BY <1>1, <1>2
<1>4. consent' \subseteq Consent
  <2>1. consent \subseteq Consent
    BY DEF IInv, TypeOK
  <2>2. QED
    BY <1>1, <2>1
<1>5. Idle /\ Tail(queue) \in Seq(Task)
  BY <1>1, <1>4, TrashPrompt
<1>6. Promise!GoOn(Tail(queue)) /\ UNCHANGED Touching
  BY <1>3, <1>5, DispatchGoesOn
<1>7. Asking
  BY <1>1 DEF Asking
<1>8. Promise!Decline
  BY <1>1, <1>6, <1>7 DEF Promise!Decline
<1>9. QED
  BY <1>8 DEF Promise!Next

\* Ctrl+C and shutdown give up what runs and drop what waits.
LEMMA DropKeepsPromise ==
  ASSUME IInv, CancelCurrentTask \/ Shutdown PROVE Promise!Next
<1>1. /\ cancelled' = IF ctl = 0 THEN cancelled ELSE [cancelled EXCEPT ![ctl] = TRUE]
      /\ queue' = <<>> /\ prompt' = "none"
      /\ UNCHANGED <<busy, nextTask, ctl, pc, item, inbox>>
      /\ active' \in {active, IF busy THEN active ELSE 0} /\ stopping' \in {stopping, TRUE}
      /\ cancelled \in [0 .. MaxTasks -> BOOLEAN] /\ ctl \in 0 .. MaxTasks
  BY DEF CancelCurrentTask, Shutdown, DropEverything, RaiseFlag, ClearQueue, ResetPrompt,
         workerVars, IInv, TypeOK
<1>2. busy => active # 0 /\ ctl = active /\ active' = active
  BY <1>1 DEF IInv, ThreadsInv
<1>3. UNCHANGED <<Running, Stage, Touching, Reached>>
  BY <1>1, <1>2 DEF Running, Stage, Touching, Reached
<1>4. Asking' = FALSE
  BY <1>1 DEF Asking
<1>5. Abandoned' = (Running # 0)
  <2>1. Abandoned' <=> busy
    BY <1>1, <1>2 DEF Abandoned
  <2>2. Running # 0 <=> busy
    BY <1>2 DEF Running
  <2>3. Abandoned' \in BOOLEAN
    BY DEF Abandoned
  <2>4. QED
    BY <2>1, <2>2, <2>3
<1>6. Promise!GiveUp
  BY <1>1, <1>3, <1>4, <1>5 DEF Promise!GiveUp
<1>7. QED
  BY <1>6 DEF Promise!Next

\* The reports before the last, and an answer to a conflict, change nothing that the
\* promise is about.
LEMMA ReportsUnseen ==
  ASSUME IInv,
         \/ Delivered("started") /\ OnItemStarted(Head(events))
         \/ Delivered("processed") /\ OnItemFinished(Head(events))
         \/ Delivered("conflict") /\ OnConflictDetected(Head(events))
         \/ \E q \in shown, a \in Answers : ResolveConflict(a, q)
  PROVE  UNCHANGED Promise!vars
<1>1. UNCHANGED <<queue, busy, active, stopping, nextTask, cancelled, inbox, pc, item>>
  BY DEF Delivered, OnItemStarted, OnItemFinished, OnConflictDetected, ResolveConflict,
         guiVars, sharedVars, workerVars
<1>2. UNCHANGED <<Running, Stage, Touching, Reached>>
  BY <1>1 DEF Running, Stage, Touching, Reached
<1>3. UNCHANGED Abandoned
  BY <1>1 DEF Abandoned
<1>4. UNCHANGED Asking
  <2>1. CASE \E q \in shown, a \in Answers : ResolveConflict(a, q)
    <3>1. prompt = "conflict" /\ prompt' = "none"
      BY <2>1 DEF ResolveConflict, ResetPrompt
    <3>2. QED
      BY <3>1 DEF Asking
  <2>2. CASE events # <<>> /\ prompt' \in {prompt, "conflict"}
    <3>1. prompt # "trash"
      BY <2>2 DEF IInv, ThreadsInv, PromptInv, TrashPromptOwnsQueueHead
    <3>2. prompt' # "trash"
      BY <2>2, <3>1
    <3>3. QED
      BY <3>1, <3>2 DEF Asking
  <2>3. QED
    BY <2>1, <2>2 DEF Delivered, OnItemStarted, OnItemFinished, OnConflictDetected, promptVars
<1>5. QED
  BY <1>1, <1>2, <1>3, <1>4 DEF Promise!vars

LEMMA FinishedKeepsPromise ==
  ASSUME IInv, Delivered("finished"), OnTaskFinished(Head(events)) PROVE Promise!Next
<1>1. /\ events # <<>> /\ TypeOK /\ events' = Tail(events) /\ Head(events).type = "finished"
      /\ UNCHANGED <<workerVars, exited, barrier>> /\ consent' = {}
  BY DEF IInv, Delivered, OnTaskFinished
<1>2. /\ Head(events) = events[1] /\ 1 \in 1 .. Len(events)
      /\ Len(events) = 1 => Tail(events) = <<>>
  BY <1>1, Shifted
<1>3. Head(events).task = active /\ pc = "idle" /\ inbox = <<>> /\ events' = <<>> /\ busy
  BY <1>1, <1>2 DEF IInv, ReportsInv, ThreadsInv
<1>4. DispatchNext(queue, FALSE, FALSE, 0) /\ UNCHANGED <<stopping, nextTask>>
  BY <1>3 DEF OnTaskFinished, Unrelated
<1>5. nextTask' \in 0 .. MaxTasks /\ nextTask <= nextTask' /\ queue \in Seq(Task)
  BY <1>1, <1>4 DEF TypeOK
<1>6. Idle
  BY <1>1, <1>3, <1>4, <1>5 DEF Idle
<1>7. Promise!GoOn(queue) /\ UNCHANGED <<Touching, stopping>>
  BY <1>4, <1>5, <1>6, DispatchGoesOn
<1>8. Stage = "settled"
  BY <1>3 DEF Stage
<1>9. Promise!Finish
  BY <1>4, <1>7, <1>8 DEF Promise!Finish
<1>10. QED
  BY <1>9 DEF Promise!Next

LEMMA StepKeepsPromise == IInv /\ IInv' /\ [Next]_vars => [Promise!Next]_(Promise!vars)
<1> SUFFICES ASSUME IInv, IInv', [Next]_vars PROVE Promise!Next \/ UNCHANGED Promise!vars
  OBVIOUS
<1>1. CASE User
  BY <1>1, SubmitKeepsPromise, ConfirmKeepsPromise, DeclineKeepsPromise, DropKeepsPromise,
     ReportsUnseen DEF User
<1>2. CASE Deliver
  BY <1>2, ReportsUnseen, FinishedKeepsPromise DEF Deliver
<1>3. CASE ExitThread \/ UNCHANGED vars
  <2>1. UNCHANGED <<queue, busy, active, stopping, nextTask, cancelled, inbox, pc, item, prompt>>
    BY <1>3 DEF ExitThread, vars, guiVars, promptVars, sharedVars, workerVars
  <2>2. UNCHANGED <<Running, Stage, Touching, Reached>>
    BY <2>1 DEF Running, Stage, Touching, Reached
  <2>3. UNCHANGED <<Asking, Abandoned>>
    BY <2>1 DEF Asking, Abandoned
  <2>4. QED
    BY <2>1, <2>2, <2>3 DEF Promise!vars
<1>4. QED
  BY <1>1, <1>2, <1>3, WorkerKeepsPromise DEF Next

\* The task manager implements OperationQueue: with every interleaving of the two
\* threads, the prompts and the cancellations, operations run one at a time, in the
\* order they were submitted, and no item is touched outside of its operation's run
\* (TaskManager against the promise of its header).
THEOREM TaskManagerKeepsPromise == Spec => KeepsPromise
<1>1. Init => Promise!Init
  <2> SUFFICES ASSUME Init PROVE Promise!Init
    OBVIOUS
  <2>1. Running = 0 /\ Stage = "none" /\ Touching = 0 /\ Reached = 0
    BY DEF Init, Running, Stage, Touching, Reached
  <2>2. Asking = FALSE /\ Abandoned = FALSE
    BY DEF Init, Asking, Abandoned
  <2>3. QED
    BY <2>1, <2>2 DEF Init, Promise!Init
<1>2. IInv /\ IInv' /\ [Next]_vars => [Promise!Next]_(Promise!vars)
  BY StepKeepsPromise
<1>3. Spec => Promise!Spec
  BY <1>1, <1>2, Invariance, PTL DEF Spec, Promise!Spec
<1>4. QED
  BY <1>3 DEF KeepsPromise

=============================================================================
