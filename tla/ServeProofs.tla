----------------------------- MODULE ServeProofs -----------------------------
(***************************************************************************)
(* Proofs about Serve, for every number of tasks, events, jobs and workers *)
(* and every value of the bounds.                                          *)
(***************************************************************************)
EXTENDS Serve, TLAPS

-----------------------------------------------------------------------------
(* The type invariant, cut into the groups of variables that the operators *)
(* of the stores, the registry, the channel and the control change.        *)

TaskType    == task \in [Task -> Tasks!TaskRow]
EventType   == event \in [Event -> Events!EventRow]
WorkerType  == worker \in [Persistent -> WorkerState]
QueueType   == queue \in Seq(Task) /\ Len(queue) <= QueueCap
ControlType == /\ pc \in [Job -> PC]
               /\ on \in [Job -> Task \cup {NoTask}]
               /\ \A j \in Job : pc[j] = "idle" <=> on[j] = NoTask
               /\ saw \in [Job -> BOOLEAN]
               /\ tries \in [Job -> Nat]
ServerType  == ctx \in {"live", "cancelled"} /\ faults \in Nat
IntakeType  == /\ found \subseteq Scanner \X Task
               /\ intake \in [Task -> IntakePC]
               /\ wb \in [Event -> {"idle", "send", "ok", "failed"}]
WroteType   == wrote \in [Event -> Nat]

LEMMA TypeParts ==
    TypeOK <=> /\ TaskType /\ EventType /\ WorkerType /\ QueueType
               /\ ControlType /\ ServerType /\ IntakeType /\ WroteType
BY DEF TypeOK, DispatchTypeOK, TaskType, EventType, WorkerType, QueueType,
       ControlType, ServerType, IntakeType, WroteType

(* Every operation of the task table leaves well-formed rows. *)
LEMMA TaskWriteType ==
    ASSUME TaskType, NEW t \in Task, NEW state \in Tasks!Active \cup Tasks!Settled,
           NEW attempts \in Nat, NEW retry \in {"none", "later", "due"},
           Tasks!Write(t, state, attempts, retry)
    PROVE  TaskType'
BY DEF TaskType, Tasks!TaskRow, Tasks!Write

LEMMA TaskOpsType ==
    ASSUME TaskType, NEW t \in Task,
           \/ Tasks!CreateWithEvent(t) \/ Tasks!SetDispatched(t)
           \/ Tasks!Complete(t)        \/ Tasks!Fail(t)
           \/ \E seen \in Nat : Tasks!RetryOrFail(t, seen)
           \/ task' = task
    PROVE  TaskType'
<1>1. /\ task[t].attempts \in Nat
      /\ task[t].retry \in {"none", "later", "due"}
  BY DEF TaskType, Tasks!TaskRow
<1>2. CASE task' = task
  BY <1>2 DEF TaskType
<1>3. CASE \E state \in Tasks!Active \cup Tasks!Settled, attempts \in Nat,
              retry \in {"none", "later", "due"} : Tasks!Write(t, state, attempts, retry)
  BY <1>3, TaskWriteType
<1>4. QED
  BY <1>1, <1>2, <1>3
     DEF Tasks!CreateWithEvent, Tasks!SetDispatched, Tasks!Complete, Tasks!Fail,
         Tasks!RetryOrFail, Tasks!Update, Tasks!Active, Tasks!Settled

LEMMA TimeType ==
    ASSUME TaskType, NEW t \in Task, Tasks!BackoffElapses(t) \/ Tasks!GrowsOld(t)
    PROVE  TaskType'
BY DEF TaskType, Tasks!TaskRow, Tasks!BackoffElapses, Tasks!GrowsOld

(* Likewise the table of events. *)
LEMMA TransitionType ==
    ASSUME EventType, NEW e, NEW from, NEW to \in Events!EventState,
           Events!Transition(e, from, to)
    PROVE  EventType'
BY DEF EventType, Events!EventRow, Events!Transition

LEMMA EventOpsType ==
    ASSUME EventType, NEW e,
           \/ Events!Create(e)       \/ Events!SetMatched(e) \/ Events!SetDispatched(e)
           \/ Events!SetCompleted(e) \/ Events!SetSkipped(e) \/ Events!SetFailed(e)
           \/ Events!SetWriteBackCompleted(e) \/ Events!SetWriteBackFailed(e)
           \/ event' = event
    PROVE  EventType'
<1>1. CASE Events!SetWriteBackFailed(e)
  <2>1. CASE e \in Event
    BY <1>1, <2>1
       DEF EventType, Events!EventRow, Events!EventState, Events!SetWriteBackFailed
  <2>2. CASE e \notin Event
    <3>1. event' = event
      BY <1>1, <2>2 DEF EventType, Events!SetWriteBackFailed
    <3>2. QED  BY <3>1 DEF EventType
  <2>3. QED  BY <2>1, <2>2
<1>2. CASE event' = event
  BY <1>2 DEF EventType
<1>3. CASE ~Events!SetWriteBackFailed(e) /\ event' # event
  BY <1>3, TransitionType
     DEF Events!Create, Events!SetMatched, Events!SetDispatched, Events!SetCompleted,
         Events!SetSkipped, Events!SetFailed, Events!SetWriteBackCompleted,
         Events!EventState
<1>4. QED  BY <1>1, <1>2, <1>3

(* The registry and the channel. *)
LEMMA WorkerOpsType ==
    ASSUME WorkerType, NEW w, SetBusy(w) \/ SetOnline(w) \/ SetError(w) \/ worker' = worker
    PROVE  WorkerType'
BY DEF WorkerType, WorkerState, SetBusy, SetOnline, SetError, SetWorker

LEMMA OfferType ==
    ASSUME QueueType, NEW t \in Task, Offer(t)
    PROVE  QueueType'
BY DispatchAssumption DEF QueueType, Offer, DispatchAssumption

(* Control of a job. *)
LEMMA FinishType ==
    ASSUME ControlType, NEW j \in Job, Finish(j)
    PROVE  ControlType'
BY DEF ControlType, Finish, PC, Held, Telling

LEMMA GotoType ==
    ASSUME ControlType, NEW j \in Job, pc[j] # "idle", NEW l \in PC, Goto(j, l)
    PROVE  ControlType'
<1>1. CASE Target(j, l) = "idle"
  BY <1>1, FinishType DEF Goto
<1>2. CASE Target(j, l) # "idle"
  <2>1. Target(j, l) \in PC
    BY DEF Target, AfterRetry, PC, Held, Telling
  <2>2. QED  BY <1>2, <2>1 DEF Goto, ControlType
<1>3. QED  BY <1>1, <1>2

LEMMA OnTask ==
    ASSUME ControlType, NEW j \in Job, pc[j] # "idle"
    PROVE  on[j] \in Task
BY DEF ControlType

LEMMA CtxErrorType ==
    ASSUME ServerType, CtxError
    PROVE  faults' \in Nat
BY DEF ServerType, CtxError, Fault
LEMMA StatementType ==
    ASSUME ServerType, CtxError \/ Fault \/ UNCHANGED faults, UNCHANGED ctx
    PROVE  ServerType'
BY DEF ServerType, CtxError, Fault

LEMMA TypeInit == Init => TypeOK
<1> SUFFICES ASSUME Init PROVE TypeOK
  OBVIOUS
<1> USE DEF Init, DispatchInit
<1>1. TaskType
  BY DEF TaskType, Tasks!Init, Tasks!TaskRow
<1>2. EventType
  BY DEF EventType, Events!Init, Events!EventRow, Events!EventState
<1>3. WorkerType
  BY DEF WorkerType, WorkerState
<1>4. QueueType
  BY DispatchAssumption DEF QueueType, DispatchAssumption
<1>5. ControlType
  BY DEF ControlType, PC
<1>6. ServerType /\ IntakeType /\ WroteType
  BY DEF ServerType, IntakeType, IntakePC, WroteType
<1>7. QED  BY <1>1, <1>2, <1>3, <1>4, <1>5, <1>6, TypeParts

(* Every step of a job keeps the types. *)
LEMMA JobStepType ==
    ASSUME TypeOK, NEW j \in Job, Take(j) \/ Step(j) \/ Panic(j), UNCHANGED intakeVars
    PROVE  TypeOK'
<1> /\ TaskType /\ EventType /\ WorkerType /\ QueueType
    /\ ControlType /\ ServerType /\ IntakeType /\ WroteType
  BY TypeParts
<1>1. IntakeType'
  BY DEF IntakeType, intakeVars
<1>2. pc[j] # "idle" => on[j] \in Task
  BY OnTask
<1>3. \A l \in PC : pc[j] # "idle" /\ Goto(j, l) => ControlType'
  BY GotoType
<1>4. AfterRetry(j) \in PC
  BY DEF AfterRetry, PC, Held
<1> SUFFICES /\ TaskType' /\ EventType' /\ WorkerType' /\ QueueType'
             /\ ControlType' /\ ServerType' /\ WroteType'
  BY <1>1 DEF TypeOK, DispatchTypeOK, TaskType, EventType, WorkerType, QueueType,
              ControlType, ServerType, IntakeType, WroteType
<1>a. CASE Take(j)
  <2>1. Head(queue) \in Task /\ Tail(queue) \in Seq(Task) /\ Len(Tail(queue)) <= Len(queue)
    BY <1>a DEF Take, QueueType
  <2>2. QueueType'
    BY <1>a, <2>1, DispatchAssumption DEF Take, QueueType, DispatchAssumption
  <2>3. ControlType'
    BY <1>a, <2>1, DispatchAssumption DEF Take, ControlType, PC, DispatchAssumption
  <2>4. QED
    BY <1>a, <2>2, <2>3 DEF Take, TaskType, EventType, WorkerType, ServerType, WroteType
<1>b. CASE GetTask(j)
  <2>1. ControlType'
    BY <1>b, FinishType DEF GetTask, ControlType, PC
  <2>2. QED
    BY <1>b, <2>1, StatementType
       DEF GetTask, TaskType, EventType, WorkerType, QueueType, WroteType
<1>c. CASE Route(j)
  BY <1>c, <1>3
     DEF Route, PC, TaskType, EventType, WorkerType, QueueType, ServerType, WroteType
<1>d. CASE Refuse(j)
  <2>1. TaskType'
    BY <1>d, <1>2, TaskOpsType DEF Refuse, TryCtx
  <2>2. ControlType'
    BY <1>d, <1>3 DEF Refuse, PC, Telling
  <2>3. QED
    BY <1>d, <2>1, <2>2, StatementType
       DEF Refuse, TryCtx, EventType, WorkerType, QueueType, WroteType
<1>e. CASE Mark(j)
  <2>1. TaskType'
    BY <1>e, <1>2, TaskOpsType DEF Mark, TryCtx
  <2>2. ControlType'
    BY <1>e, <1>3 DEF Mark, PC, Held
  <2>3. ServerType'
    BY <1>e, StatementType DEF Mark, TryCtx
  <2>4. QED
    BY <1>e, <2>1, <2>2, <2>3 DEF Mark, EventType, WorkerType, QueueType, WroteType
<1>f. CASE Claim(j)
  <2>1. WorkerType'
    BY <1>f, WorkerOpsType DEF Claim, TrySql
  <2>2. ControlType'
    BY <1>f, <1>3 DEF Claim, PC, Held
  <2>3. QED
    BY <1>f, <2>1, <2>2, StatementType
       DEF Claim, TrySql, TaskType, EventType, QueueType, WroteType
<1>g. CASE Requeue(j)
  <2>1. QueueType'
    BY <1>g, <1>2, OfferType DEF Requeue
  <2>2. QED
    BY <1>g, <2>1, FinishType
       DEF Requeue, TaskType, EventType, WorkerType, ServerType, WroteType
<1>h. CASE CompleteTask(j)
  <2>1. TaskType'
    BY <1>h, <1>2, TaskOpsType DEF CompleteTask, TryCtx
  <2>2. ControlType'
    BY <1>h, <1>3 DEF CompleteTask, PC, Held, Telling
  <2>3. QED
    BY <1>h, <2>1, <2>2, StatementType
       DEF CompleteTask, TryCtx, EventType, WorkerType, QueueType, WroteType
<1>i. CASE RejectTask(j)
  <2>1. TaskType'
    BY <1>i, <1>2, TaskOpsType DEF RejectTask, TryCtx
  <2>2. ControlType'
    BY <1>i, <1>3 DEF RejectTask, PC, Held, Telling
  <2>3. QED
    BY <1>i, <2>1, <2>2, StatementType
       DEF RejectTask, TryCtx, EventType, WorkerType, QueueType, WroteType
<1>j. CASE ReadAttempts(j)
  <2>1. task[on[j]].attempts \in Nat
    BY <1>j, <1>2 DEF ReadAttempts, TaskType, Tasks!TaskRow
  <2>2. ControlType'
    BY <1>j, <1>3, <2>1 DEF ReadAttempts, ControlType, PC, Held, Telling
  <2>3. QED
    BY <1>j, <2>2, StatementType
       DEF ReadAttempts, TaskType, EventType, WorkerType, QueueType, WroteType
<1>k. CASE RetryOrFail(j)
  <2>1. TaskType'
    BY <1>k, <1>2, TaskOpsType DEF RetryOrFail, ControlType
  <2>2. ControlType'
    BY <1>k, <1>3, <1>4 DEF RetryOrFail, PC, Held, Telling
  <2>3. QED
    BY <1>k, <2>1, <2>2, StatementType
       DEF RetryOrFail, EventType, WorkerType, QueueType, WroteType
<1>l. CASE Blame(j)
  <2>1. WorkerType'
    BY <1>l, WorkerOpsType DEF Blame
  <2>2. ControlType'
    BY <1>l, <1>3, FinishType DEF Blame, PC, Held
  <2>3. QED
    BY <1>l, <2>1, <2>2, StatementType
       DEF Blame, TaskType, EventType, QueueType, WroteType
<1>m. CASE Release(j)
  <2>1. WorkerType'
    BY <1>m, WorkerOpsType DEF Release, TrySql
  <2>2. ControlType'
    BY <1>m, <1>3 DEF Release, AfterRelease, PC, Held, Telling
  <2>3. QED
    BY <1>m, <2>1, <2>2, StatementType
       DEF Release, TrySql, TaskType, EventType, QueueType, WroteType
<1>n. CASE WriteBack(j)
  <2>1. WroteType'
    BY <1>n DEF WriteBack, WroteType
  <2>2. ControlType'
    BY <1>n, <1>3 DEF WriteBack, PC, Telling
  <2>3. QED
    BY <1>n, <2>1, <2>2, StatementType
       DEF WriteBack, TaskType, EventType, WorkerType, QueueType
<1>o. CASE CompleteEvent(j)
  <2>1. EventType'
    BY <1>o, EventOpsType DEF CompleteEvent, TryCtx
  <2>2. ControlType'
    BY <1>o, <1>3, <1>4 DEF CompleteEvent, PC
  <2>3. QED
    BY <1>o, <2>1, <2>2, StatementType
       DEF CompleteEvent, TryCtx, TaskType, WorkerType, QueueType, WroteType
<1>p. CASE Panic(j)
  <2>1. ControlType'
    BY <1>p, <1>3, FinishType DEF Panic, PC, Held
  <2>2. QED
    BY <1>p, <2>1, StatementType
       DEF Panic, TaskType, EventType, WorkerType, QueueType, WroteType
<1>q. QED
  BY <1>a, <1>b, <1>c, <1>d, <1>e, <1>f, <1>g, <1>h, <1>i, <1>j, <1>k, <1>l,
     <1>m, <1>n, <1>o, <1>p DEF Step
LEMMA ToIntakeType ==
    ASSUME IntakeType, NEW t, NEW l \in IntakePC, ToIntake(t, l), UNCHANGED <<found, wb>>
    PROVE  IntakeType'
BY DEF IntakeType, ToIntake

(* Every step of a request or webhook keeps the types. *)
LEMMA IntakeStepType ==
    ASSUME TypeOK, NEW t \in Task, PostTask(t) \/ IntakeStep(t) \/ (t \in Event /\ Webhook(t))
    PROVE  TypeOK'
<1> /\ TaskType /\ EventType /\ WorkerType /\ QueueType
    /\ ControlType /\ ServerType /\ IntakeType /\ WroteType
  BY TypeParts
<1>1. WorkerType' /\ ControlType' /\ WroteType'
  BY DEF PostTask, OfferTask, Overflow, Webhook, Match, CreateTask, Link, Abort, Undo,
         Enqueue, RecoverEvent, IntakeStep, jobVars, WorkerType, ControlType, WroteType
<1> SUFFICES TaskType' /\ EventType' /\ QueueType' /\ ServerType' /\ IntakeType'
  BY <1>1 DEF TypeOK, DispatchTypeOK, TaskType, EventType, WorkerType, QueueType,
              ControlType, ServerType, IntakeType, WroteType
<1>2. TaskType'
  BY TaskOpsType
     DEF PostTask, OfferTask, Overflow, Webhook, Match, CreateTask, Link, Abort, Undo,
         Enqueue, RecoverEvent, IntakeStep, TrySql
<1>3. EventType'
  BY EventOpsType
     DEF PostTask, OfferTask, Overflow, Webhook, Match, CreateTask, Link, Abort, Undo,
         Enqueue, RecoverEvent, IntakeStep, TrySql, TryCtx
<1>4. QueueType'
  <2>1. Offer(t) \/ UNCHANGED queue
    BY DEF PostTask, OfferTask, Overflow, Webhook, Match, CreateTask, Link, Abort, Undo,
           Enqueue, RecoverEvent, IntakeStep
  <2>2. QED  BY <2>1, OfferType DEF QueueType
<1>5. ServerType'
  BY StatementType
     DEF PostTask, OfferTask, Overflow, Webhook, Match, CreateTask, Link, Abort, Undo,
         Enqueue, RecoverEvent, IntakeStep, TrySql, TryCtx
<1>6. IntakeType'
  <2>1. /\ \E l \in IntakePC : ToIntake(t, l)
        /\ UNCHANGED <<found, wb>>
    BY DEF PostTask, OfferTask, Overflow, Webhook, Match, CreateTask, Link, Abort, Undo,
           Enqueue, RecoverEvent, IntakeStep, IntakePC
  <2>2. QED  BY <2>1, ToIntakeType
<1>7. QED  BY <1>2, <1>3, <1>4, <1>5, <1>6

(* Every step of a scanning loop, and the passage of time, keep the types. *)
LEMMA LoopStepType ==
    ASSUME TypeOK, NEW t \in Task,
           Scan(t) \/ Backoff(t) \/ Age(t) \/ (t \in Event /\ WriteBackLoop(t))
    PROVE  TypeOK'
<1> /\ TaskType /\ EventType /\ WorkerType /\ QueueType
    /\ ControlType /\ ServerType /\ IntakeType /\ WroteType
  BY TypeParts
<1>1. WorkerType' /\ ControlType' /\ WroteType'
  BY DEF Scan, ScanRetries, ScanPending, SendFound, SkipFound, Backoff, Age, WriteBackLoop,
         WriteBackDeadLetter, ScanWriteBack, RepeatWriteBack, RecordWriteBack,
         dispatchVars, jobVars, WorkerType, ControlType, WroteType
<1> SUFFICES TaskType' /\ EventType' /\ QueueType' /\ ServerType' /\ IntakeType'
  BY <1>1 DEF TypeOK, DispatchTypeOK, TaskType, EventType, WorkerType, QueueType,
              ControlType, ServerType, IntakeType, WroteType
<1>2. TaskType'
  <2>1. task' = task \/ Tasks!BackoffElapses(t) \/ Tasks!GrowsOld(t)
    BY DEF Scan, ScanRetries, ScanPending, SendFound, SkipFound, Backoff, Age,
           WriteBackLoop, WriteBackDeadLetter, ScanWriteBack, RepeatWriteBack,
           RecordWriteBack, dispatchVars
  <2>2. QED  BY <2>1, TimeType DEF TaskType
<1>3. EventType'
  BY EventOpsType
     DEF Scan, ScanRetries, ScanPending, SendFound, SkipFound, Backoff, Age, WriteBackLoop,
         WriteBackDeadLetter, ScanWriteBack, RepeatWriteBack, RecordWriteBack,
         dispatchVars, TryCtx
<1>4. QueueType'
  <2>1. Offer(t) \/ UNCHANGED queue
    BY DEF Scan, ScanRetries, ScanPending, SendFound, SkipFound, Backoff, Age,
           WriteBackLoop, WriteBackDeadLetter, ScanWriteBack, RepeatWriteBack,
           RecordWriteBack, dispatchVars
  <2>2. QED  BY <2>1, OfferType DEF QueueType
<1>5. ServerType'
  BY StatementType
     DEF Scan, ScanRetries, ScanPending, SendFound, SkipFound, Backoff, Age, WriteBackLoop,
         WriteBackDeadLetter, ScanWriteBack, RepeatWriteBack, RecordWriteBack,
         dispatchVars, TryCtx
<1>6. IntakeType'
  <2>1. CASE Scan(t)
    BY <2>1 DEF Scan, ScanRetries, ScanPending, SendFound, SkipFound, IntakeType, Scanner
  <2>2. CASE WriteBackLoop(t)
    BY <2>2 DEF WriteBackLoop, WriteBackDeadLetter, ScanWriteBack, RepeatWriteBack,
                RecordWriteBack, IntakeType, intakeVars
  <2>3. CASE Backoff(t) \/ Age(t)
    BY <2>3 DEF Backoff, Age, IntakeType, intakeVars
  <2>4. QED  BY <2>1, <2>2, <2>3
<1>7. QED  BY <1>2, <1>3, <1>4, <1>5, <1>6

(* So do the end and the start of a process, and what an operator does. *)
LEMMA ProcessStepType ==
    ASSUME TypeOK, Crash \/ Shutdown \/ Restart \/ \E w \in Persistent : Reload(w)
    PROVE  TypeOK'
<1> /\ TaskType /\ EventType /\ WorkerType /\ QueueType
    /\ ControlType /\ ServerType /\ IntakeType /\ WroteType
  BY TypeParts
<1>1. TaskType' /\ EventType' /\ WroteType'
  BY DEF Crash, Shutdown, Restart, Boot, Reload, TaskType, EventType, WroteType
<1> SUFFICES /\ WorkerType' /\ QueueType' /\ ControlType' /\ ServerType' /\ IntakeType'
  BY <1>1 DEF TypeOK, DispatchTypeOK, TaskType, EventType, WorkerType, QueueType,
              ControlType, ServerType, IntakeType, WroteType
<1>2. CASE Boot /\ (Fault \/ UNCHANGED faults)
  <2>1. WorkerType' /\ ServerType'
    BY <1>2 DEF Boot, WorkerType, ServerType, Fault
  <2>2. QueueType'
    BY <1>2, DispatchAssumption DEF Boot, QueueType, DispatchAssumption
  <2>3. ControlType'
    BY <1>2 DEF Boot, ControlType, PC
  <2>4. IntakeType'
    BY <1>2 DEF Boot, IntakeType, IntakePC, Scanner, Tasks!Pending
  <2>5. QED  BY <2>1, <2>2, <2>3, <2>4
<1>3. CASE Shutdown
  BY <1>3 DEF Shutdown, Fault, jobVars, WorkerType, QueueType, ControlType, ServerType,
              IntakeType
<1>4. CASE \E w \in Persistent : Reload(w)
  BY <1>4 DEF Reload, jobVars, intakeVars, WorkerType, WorkerState, QueueType,
              ControlType, ServerType, IntakeType
<1>5. QED  BY <1>2, <1>3, <1>4 DEF Crash, Restart

LEMMA TypeStep == TypeOK /\ [Next]_vars => TypeOK'
<1> SUFFICES ASSUME TypeOK, [Next]_vars PROVE TypeOK'
  OBVIOUS
<1>1. CASE DispatchNext /\ UNCHANGED intakeVars
  BY <1>1, JobStepType DEF DispatchNext
<1>2. CASE \E t \in Task : PostTask(t) \/ IntakeStep(t)
  BY <1>2, IntakeStepType
<1>3. CASE \E t \in Task : Scan(t) \/ Backoff(t) \/ Age(t)
  BY <1>3, LoopStepType
<1>4. CASE \E e \in Event : Webhook(e) \/ WriteBackLoop(e)
  BY <1>4, IntakeStepType, LoopStepType, DispatchAssumption DEF DispatchAssumption
<1>5. CASE (\E w \in Persistent : Reload(w)) \/ Crash \/ Shutdown \/ Restart
  BY <1>5, ProcessStepType
<1>6. CASE UNCHANGED vars
  BY <1>6 DEF vars, dispatchVars, jobVars, intakeVars, TypeOK, DispatchTypeOK
<1>7. QED  BY <1>1, <1>2, <1>3, <1>4, <1>5, <1>6 DEF Next

(* The rows, the registry, the channel and the control of every goroutine  *)
(* stay well formed: the channel never exceeds its capacity, and a job has *)
(* a task exactly while it is not idle.                                    *)
THEOREM TypeCorrect == Spec => []TypeOK
<1>1. QED  BY TypeInit, TypeStep, PTL DEF Spec

-----------------------------------------------------------------------------
(* One task at a time.  SingleFlight alone is not inductive: a goroutine   *)
(* that claims an online worker must know that nobody holds it, and that   *)
(* is what HeldBusy says.                                                  *)

HeldBusy  == \A j \in Job : Holding(j) => worker[W(j)] = "busy"
FlightInv == HeldBusy /\ SingleFlight

(* A step of one job leaves the others where they are. *)
LEMMA OtherJobs ==
    ASSUME ControlType, NEW j \in Job, NEW k \in Job, k # j,
           Take(j) \/ Step(j) \/ Panic(j)
    PROVE  /\ pc'[k] = pc[k] /\ on'[k] = on[k]
           /\ saw'[k] = saw[k] /\ tries'[k] = tries[k]
<1>1. (\E l : Goto(j, l)) \/ Finish(j)
      => /\ pc'[k] = pc[k] /\ on'[k] = on[k]
         /\ saw'[k] = saw[k] /\ tries'[k] = tries[k]
  BY DEF Goto, Finish, ControlType
<1>2. CASE Take(j) \/ GetTask(j) \/ ReadAttempts(j)
  BY <1>1, <1>2 DEF Take, GetTask, ReadAttempts, ControlType
<1>3. CASE Panic(j) \/ (Step(j) /\ ~GetTask(j) /\ ~ReadAttempts(j))
  <2>1. (\E l : Goto(j, l)) \/ Finish(j)
    BY <1>3
       DEF Panic, Step, Route, Refuse, Mark, Claim, Requeue, CompleteTask, RejectTask,
           RetryOrFail, Blame, Release, WriteBack, CompleteEvent
  <2>2. QED  BY <1>1, <2>1
<1>4. QED  BY <1>2, <1>3
(* What a step may do to the worker of the job that takes it. *)
LEMMA FlightKept ==
    ASSUME TypeOK, FlightInv, NEW j \in Job,
           \A k \in Job \ {j} : pc'[k] = pc[k] /\ on'[k] = on[k],
           Holding(j)' => Holding(j) /\ on'[j] = on[j],
           \/ worker' = worker
           \/ /\ Holding(j) /\ ~Holding(j)'
              /\ \E s : worker' = [worker EXCEPT ![W(j)] = s]
    PROVE  FlightInv'
<1>1. \A k \in Job : Holding(k)' => Holding(k) /\ W(k)' = W(k)
  BY DEF Holding, IsPersistent, W
<1>2. SingleFlight'
  BY <1>1 DEF FlightInv, SingleFlight
<1>3. ASSUME NEW k \in Job, Holding(k)'
      PROVE  worker'[W(k)'] = "busy"
  <2>1. Holding(k) /\ W(k)' = W(k) /\ worker[W(k)] = "busy"
    BY <1>1, <1>3 DEF FlightInv, HeldBusy
  <2>2. CASE worker' = worker
    BY <2>1, <2>2
  <2>3. CASE /\ Holding(j) /\ ~Holding(j)'
             /\ \E s : worker' = [worker EXCEPT ![W(j)] = s]
    <3>1. W(k) # W(j)
      BY <1>3, <2>1, <2>3 DEF FlightInv, SingleFlight
    <3>2. W(k) \in Persistent
      BY <2>1 DEF Holding, IsPersistent, W
    <3>3. QED  BY <2>1, <2>3, <3>1, <3>2 DEF TypeOK, DispatchTypeOK
  <2>4. QED  BY <2>2, <2>3
<1>4. QED  BY <1>2, <1>3 DEF FlightInv, HeldBusy

LEMMA JobStepFlight ==
    ASSUME TypeOK, FlightInv, NEW j \in Job, Take(j) \/ Step(j) \/ Panic(j)
    PROVE  FlightInv'
<1> ControlType /\ WorkerType
  BY TypeParts
<1>1. \A k \in Job \ {j} : pc'[k] = pc[k] /\ on'[k] = on[k]
  BY OtherJobs
<1>2. CASE Claim(j)
  <2>1. CASE worker' = worker
    <3>1. ~Holding(j)'
      BY <1>2, <2>1 DEF Claim, Goto, Finish, Target, Holding, Held, Telling, ControlType
    <3>2. QED  BY <1>1, <2>1, <3>1, FlightKept
  <2>2. CASE worker' # worker
    <3>1. /\ W(j) \in Persistent /\ worker[W(j)] = "online"
          /\ worker' = [worker EXCEPT ![W(j)] = "busy"]
      BY <1>2, <2>2 DEF Claim, TrySql, SetBusy, SetWorker, WorkerType
    <3>2. on' = on
      BY <1>2, <2>2 DEF Claim, Goto, Target, Telling
    <3>3. \A k \in Job : Holding(k) => W(k) # W(j)
      BY <3>1 DEF FlightInv, HeldBusy
    <3>4. \A k \in Job : Holding(k)' => k = j \/ (Holding(k) /\ W(k)' = W(k))
      BY <1>1 DEF Holding, IsPersistent, W
    <3>5. W(j)' = W(j)
      BY <3>2 DEF W
    <3>6. SingleFlight'
      BY <3>3, <3>4, <3>5 DEF FlightInv, SingleFlight
    <3>7. \A k \in Job : Holding(k) /\ k # j => worker'[W(k)] = "busy"
      BY <3>1, <3>3 DEF FlightInv, HeldBusy, Holding, IsPersistent, W, WorkerType
    <3>8. worker'[W(j)] = "busy"
      BY <3>1 DEF WorkerType
    <3>9. HeldBusy'
      BY <3>4, <3>5, <3>7, <3>8 DEF HeldBusy
    <3>10. QED  BY <3>6, <3>9 DEF FlightInv
  <2>3. QED  BY <2>1, <2>2
<1>3. CASE Blame(j) \/ Release(j) \/ Panic(j)
  <2>1. worker' = worker \/ \E s : worker' = [worker EXCEPT ![W(j)] = s]
    BY <1>3 DEF Blame, Release, Panic, TrySql, SetError, SetOnline, SetWorker
  <2>2. CASE ~IsPersistent(j)
    <3>1. worker' = worker
      BY <2>1, <2>2 DEF WorkerType, IsPersistent, W
    <3>2. ~Holding(j)'
      BY <1>3, <2>2
         DEF Blame, Release, Panic, Goto, Finish, Target, Holding, IsPersistent, Held,
             ControlType
    <3>3. QED  BY <1>1, <3>1, <3>2, FlightKept
  <2>3. CASE IsPersistent(j)
    <3>1. CASE worker' = worker
      <4>1. Holding(j)' => Holding(j) /\ on'[j] = on[j]
        BY <1>3, <2>3, <3>1
           DEF Blame, Release, Panic, Goto, Finish, Target, AfterRelease, Holding,
               IsPersistent, Guarded, Held, Telling, ControlType
      <4>2. QED  BY <1>1, <3>1, <4>1, FlightKept
    <3>2. CASE worker' # worker
      <4>1. Holding(j) /\ ~Holding(j)'
        BY <1>3, <2>3, <3>2
           DEF Blame, Release, Panic, TrySql, Goto, Finish, Target, AfterRelease, AfterRetry,
               Holding, IsPersistent, Guarded, Held, Telling, ControlType
      <4>2. QED  BY <1>1, <2>1, <3>2, <4>1, FlightKept
    <3>3. QED  BY <3>1, <3>2
  <2>4. QED  BY <2>2, <2>3
<1>4. CASE ~Claim(j) /\ ~Blame(j) /\ ~Release(j) /\ ~Panic(j)
  <2>1. worker' = worker
    BY <1>4
       DEF Take, Step, GetTask, Route, Refuse, Mark, Requeue, CompleteTask, RejectTask,
           ReadAttempts, RetryOrFail, WriteBack, CompleteEvent
  <2>2. Holding(j)' => Holding(j) /\ on'[j] = on[j]
    <3>1. CASE Take(j)
      BY <3>1 DEF Take, Holding, Held, ControlType
    <3>2. CASE GetTask(j) \/ Requeue(j)
      BY <3>2 DEF GetTask, Requeue, Finish, Holding, Held, ControlType
    <3>3. CASE Route(j) \/ Refuse(j) \/ WriteBack(j)
      BY <3>3 DEF Route, Refuse, WriteBack, Goto, Finish, Target, AfterRetry, Holding, Held,
                  Telling, ControlType
    <3>4. CASE Mark(j)
      BY <3>4 DEF Mark, Goto, Finish, Target, Holding, IsPersistent, Held, Telling,
                  ControlType
    <3>5. CASE CompleteTask(j) \/ RejectTask(j)
      BY <3>5 DEF CompleteTask, RejectTask, Goto, Finish, Target, Holding, IsPersistent,
                  Held, Telling, ControlType
    <3>6. CASE ReadAttempts(j) \/ RetryOrFail(j) \/ CompleteEvent(j)
      BY <3>6 DEF ReadAttempts, RetryOrFail, CompleteEvent, Goto, Finish, Target, AfterRetry,
                  Holding, IsPersistent, Held, Telling, ControlType
    <3>7. QED
      BY <1>4, <3>1, <3>2, <3>3, <3>4, <3>5, <3>6 DEF Step
  <2>3. QED  BY <1>1, <2>1, <2>2, FlightKept
<1>5. QED  BY <1>2, <1>3, <1>4
(* Requests, webhooks, scans and time touch neither the registry nor a job. *)
LEMMA OtherSteps ==
    ASSUME NEW t \in Task,
           \/ PostTask(t) \/ IntakeStep(t) \/ Scan(t) \/ Backoff(t) \/ Age(t)
           \/ Webhook(t)  \/ WriteBackLoop(t)
    PROVE  UNCHANGED <<worker, pc, on, saw, tries, wrote>>
BY DEF PostTask, OfferTask, Overflow, Webhook, Match, CreateTask, Link, Abort, Undo, Enqueue,
       RecoverEvent, IntakeStep, Scan, ScanRetries, ScanPending, SendFound, SkipFound,
       Backoff, Age, WriteBackLoop, WriteBackDeadLetter, ScanWriteBack, RepeatWriteBack,
       RecordWriteBack, dispatchVars, jobVars

LEMMA FlightStep == TypeOK /\ FlightInv /\ [Next]_vars => FlightInv'
<1> SUFFICES ASSUME TypeOK, FlightInv, [Next]_vars PROVE FlightInv'
  OBVIOUS
<1>1. CASE DispatchNext
  BY <1>1, JobStepFlight DEF DispatchNext
<1>2. CASE UNCHANGED <<worker, pc, on>>
  BY <1>2 DEF FlightInv, HeldBusy, SingleFlight, Holding, IsPersistent, W
<1>3. CASE Crash \/ Restart
  <2>1. \A j \in Job : ~Holding(j)'
    BY <1>3 DEF Crash, Restart, Boot, Holding, Held
  <2>2. QED  BY <2>1 DEF FlightInv, HeldBusy, SingleFlight
<1>4. CASE \E w \in Persistent : Reload(w)
  BY <1>4 DEF Reload, jobVars, FlightInv, HeldBusy, SingleFlight, Holding, IsPersistent, W,
              TypeOK, DispatchTypeOK
<1>5. CASE Shutdown \/ UNCHANGED vars
  BY <1>2, <1>5 DEF Shutdown, vars, dispatchVars, jobVars
<1>6. CASE \E t \in Task : PostTask(t) \/ IntakeStep(t) \/ Scan(t) \/ Backoff(t) \/ Age(t)
  BY <1>2, <1>6, OtherSteps
<1>7. CASE \E e \in Event : Webhook(e) \/ WriteBackLoop(e)
  BY <1>2, <1>7, OtherSteps, DispatchAssumption DEF DispatchAssumption
<1>8. QED  BY <1>1, <1>3, <1>4, <1>5, <1>6, <1>7 DEF Next

LEMMA FlightAlways == Spec => []FlightInv
<1>1. Init => FlightInv
  BY DEF Init, DispatchInit, FlightInv, HeldBusy, SingleFlight, Holding, Held
<1>2. QED  BY <1>1, FlightStep, TypeCorrect, PTL DEF Spec

(* A worker is given one task at a time, for any number of goroutines and  *)
(* however many copies of an id the loops put into the channel.            *)
THEOREM OneTaskAtATime == Spec => []SingleFlight
<1>1. FlightInv => SingleFlight
  BY DEF FlightInv
<1>2. QED  BY <1>1, FlightAlways, PTL

(* A goroutine that lets go of a worker hands it back: only the death of   *)
(* the process or a failing SetOnline leaves the worker busy.              *)
THEOREM HandsBack == Spec => WorkerHandedBack
<1>1. TypeOK /\ FlightInv /\ [Next]_vars
      => [\A j \in Job : Holding(j) /\ ~Holding(j)' /\ worker'[W(j)] = "busy"
                            => Crash \/ Release(j)]_vars
  <2> SUFFICES ASSUME TypeOK, FlightInv, Next, ~Crash, NEW j \in Job, Holding(j),
                      ~Holding(j)', worker'[W(j)] = "busy"
               PROVE  Release(j)
    OBVIOUS
  <2> ControlType /\ WorkerType
    BY TypeParts
  <2>1. PICK k \in Job : Take(k) \/ Step(k) \/ Panic(k)
    <3>1. ~UNCHANGED <<pc, on>>
      BY DEF Holding, IsPersistent, W
    <3>2. ~Restart
      BY DEF Restart, Holding, Held
    <3>3. ~Shutdown /\ ~\E w \in Persistent : Reload(w)
      BY <3>1 DEF Shutdown, Reload, jobVars
    <3>4. QED
      BY <3>1, <3>2, <3>3, OtherSteps, DispatchAssumption
         DEF Next, DispatchNext, DispatchAssumption
  <2>2. k = j
    BY <2>1, OtherJobs DEF Holding, IsPersistent, W
  <2>3. pc[j] \in Held /\ IsPersistent(j) /\ W(j) \in Persistent
    BY DEF Holding, IsPersistent, W
  <2>4. worker[W(j)] = "busy"
    BY DEF FlightInv, HeldBusy
  <2>5. CASE Take(j) \/ GetTask(j) \/ Route(j) \/ Refuse(j) \/ Mark(j) \/ Claim(j)
             \/ Requeue(j) \/ WriteBack(j)
    BY <2>3, <2>5
       DEF Take, GetTask, Route, Refuse, Mark, Claim, Requeue, WriteBack, Held
  <2>6. CASE CompleteTask(j) \/ RejectTask(j)
    BY <2>3, <2>6
       DEF CompleteTask, RejectTask, Goto, Finish, Target, Telling, Held, Holding,
           IsPersistent, ControlType
  <2>7. CASE ReadAttempts(j) \/ RetryOrFail(j) \/ CompleteEvent(j)
    BY <2>3, <2>7
       DEF ReadAttempts, RetryOrFail, CompleteEvent, Goto, Finish, Target, AfterRetry,
           Telling, Held, Holding, IsPersistent, ControlType
  <2>8. CASE Blame(j)
    <3>1. SetError(W(j)) => worker'[W(j)] = "error"
      BY <2>3, <2>4 DEF SetError, SetWorker, WorkerState, WorkerType
    <3>2. SetError(W(j))
      BY <2>3, <2>8
         DEF Blame, Goto, Finish, Target, Telling, Held, Holding, IsPersistent, ControlType
    <3>3. QED  BY <3>1, <3>2
  <2>9. CASE Panic(j)
    BY <2>3, <2>9
       DEF Panic, Goto, Target, Telling, Finish, Held, Guarded, Holding, IsPersistent,
           ControlType
  <2>10. QED
    BY <2>1, <2>2, <2>5, <2>6, <2>7, <2>8, <2>9 DEF Step
<1>2. QED  BY <1>1, TypeCorrect, FlightAlways, PTL DEF Spec, WorkerHandedBack
=============================================================================
