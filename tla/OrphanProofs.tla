---------------------------- MODULE OrphanProofs ----------------------------
(***************************************************************************)
(* Proofs about Serve: how an event and its task can come apart, for every *)
(* number of jobs, tasks and faults.                                       *)
(***************************************************************************)
EXTENDS ContractProofs

-----------------------------------------------------------------------------
(* The strengthening: on the way from the webhook to the task, the rows    *)
(* say how far it has come.                                                *)
Early(e)    == intake[e] \in {"stuck", "match", "create", "abort"}
Unlinked(e) == Early(e) \/ intake[e] \in {"link", "undo"}
Unmatched(e) == event[e].state \in {"absent", "received"}

Admitted(e) ==
    /\ Unmatched(e) \/ Early(e) => task[e].state = "absent"
    /\ Unlinked(e) => event[e].state # "dispatched"
    /\ intake[e] = "create" => ~Unmatched(e)
    /\ intake[e] \notin {"offer", "overflow"}

AdmitInv == \A e \in Event : Admitted(e)

-----------------------------------------------------------------------------
(* What the operations on the table of events can make of a row.           *)
LEMMA EventRows ==
    ASSUME EventType, NEW e \in Event, NEW x, NEW from, NEW to,
           Events!Transition(x, from, to)
    PROVE  event'[e].state = IF x = e /\ event[e].state \in from THEN to ELSE event[e].state
BY DEF Events!Transition, EventType, Events!EventRow

LEMMA EventOps ==
    ASSUME EventType, NEW e \in Event, NEW x
    PROVE  /\ event' = event => event'[e].state = event[e].state
           /\ Events!Create(x) => event'[e].state = IF x = e /\ event[e].state = "absent"
                                                    THEN "received" ELSE event[e].state
           /\ Events!SetMatched(x) => event'[e].state = IF x = e /\ event[e].state = "received"
                                                        THEN "matched" ELSE event[e].state
           /\ Events!SetDispatched(x) =>
                 event'[e].state = IF x = e /\ event[e].state = "matched"
                                   THEN "dispatched" ELSE event[e].state
           /\ Events!SetSkipped(x) => event'[e].state = IF x = e /\ event[e].state = "received"
                                                        THEN "skipped" ELSE event[e].state
           /\ Events!SetFailed(x) =>
                 event'[e].state = IF x = e /\ event[e].state \notin {"absent", "completed", "skipped"}
                                   THEN "failed" ELSE event[e].state
           /\ Events!SetCompleted(x) => event'[e].state = IF x = e /\ event[e].state = "dispatched"
                                                          THEN "completed" ELSE event[e].state
           /\ Events!SetWriteBackCompleted(x) =>
                 event'[e].state = IF x = e /\ event[e].state = "write_back_failed"
                                   THEN "completed" ELSE event[e].state
           /\ Events!SetWriteBackFailed(x) =>
                 event'[e].state = IF x = e /\ event[e].state \in {"dispatched", "write_back_failed"}
                                   THEN "write_back_failed" ELSE event[e].state
<1>1. event[e].state \in Events!EventState
  BY DEF EventType, Events!EventRow
<1>2. Events!SetWriteBackFailed(x) =>
         event'[e].state = IF x = e /\ event[e].state \in {"dispatched", "write_back_failed"}
                           THEN "write_back_failed" ELSE event[e].state
  BY DEF Events!SetWriteBackFailed, EventType, Events!EventRow
<1>3. QED
  BY <1>1, <1>2, EventRows
     DEF Events!Create, Events!SetMatched, Events!SetDispatched, Events!SetSkipped,
         Events!SetFailed, Events!SetCompleted, Events!SetWriteBackCompleted, Events!EventState

(* No step of a job or of the write-back loop takes an event back, or points *)
(* it to a task.                                                            *)
Late(e) == /\ event'[e].state = "dispatched" => event[e].state = "dispatched"
           /\ Unmatched(e)' => Unmatched(e)
           /\ event[e].state = "absent" => event'[e].state = "absent"

LEMMA LateOps ==
    ASSUME EventType, NEW e \in Event, NEW x,
           \/ event' = event          \/ Events!SetFailed(x)
           \/ Events!SetCompleted(x)  \/ Events!SetSkipped(x)
           \/ Events!SetMatched(x)    \/ Events!SetWriteBackCompleted(x)
           \/ Events!SetWriteBackFailed(x)
    PROVE  Late(e)
BY EventOps DEF Late, Unmatched

LEMMA JobEvents ==
    ASSUME TypeOK, NEW j \in Job, Take(j) \/ Step(j) \/ Panic(j), NEW e \in Event
    PROVE  Late(e)
<1> EventType
  BY TypeParts
<1>1. \/ event' = event \/ Events!SetFailed(on[j]) \/ Events!SetCompleted(on[j])
      \/ Events!SetWriteBackFailed(on[j])
  BY DEF Take, Step, Panic, GetTask, Route, Refuse, Mark, Claim, Requeue, CompleteTask,
         RejectTask, ReadAttempts, RetryOrFail, Blame, Release, WriteBack, CompleteEvent,
         TryCtx
<1>2. QED  BY <1>1, LateOps

(* A task appears by CreateTask and in no other way.                       *)
LEMMA AbsentOps ==
    ASSUME TaskType, NEW e \in Task, NEW t \in Task, task[e].state = "absent",
           \/ task' = task            \/ Tasks!SetDispatched(t)  \/ Tasks!Fail(t)
           \/ Tasks!BackoffElapses(t) \/ Tasks!GrowsOld(t)       \/ Tasks!Complete(t)
           \/ \E seen : Tasks!RetryOrFail(t, seen)
           \/ Tasks!CreateWithEvent(t) /\ t # e
    PROVE  task'[e].state = "absent"
BY DEF TaskType, Tasks!TaskRow, Tasks!SetDispatched, Tasks!Fail, Tasks!BackoffElapses,
       Tasks!GrowsOld, Tasks!Complete, Tasks!RetryOrFail, Tasks!CreateWithEvent, Tasks!Update,
       Tasks!Write, Tasks!Active

LEMMA JobTasks ==
    ASSUME TypeOK, NEW j \in Job, Take(j) \/ Step(j) \/ Panic(j),
           NEW e \in Event, task[e].state = "absent"
    PROVE  task'[e].state = "absent"
<1> TaskType /\ ControlType
  BY TypeParts
<1>1. e \in Task
  BY DispatchAssumption DEF DispatchAssumption
<1>2. CASE pc[j] = "idle"
  BY <1>2
     DEF Take, Step, Panic, GetTask, Route, Refuse, Mark, Claim, Requeue, CompleteTask,
         RejectTask, ReadAttempts, RetryOrFail, Blame, Release, WriteBack, CompleteEvent,
         AfterRelease
<1>3. CASE pc[j] # "idle"
  <2>1. on[j] \in Task
    BY <1>3, OnTask
  <2>2. \/ task' = task \/ Tasks!SetDispatched(on[j]) \/ Tasks!Fail(on[j])
        \/ Tasks!Complete(on[j]) \/ \E seen : Tasks!RetryOrFail(on[j], seen)
    BY DEF Take, Step, Panic, GetTask, Route, Refuse, Mark, Claim, Requeue, CompleteTask,
           RejectTask, ReadAttempts, RetryOrFail, Blame, Release, WriteBack, CompleteEvent,
           TryCtx
  <2>3. QED  BY <1>1, <2>1, <2>2, AbsentOps
<1>4. QED  BY <1>2, <1>3

-----------------------------------------------------------------------------
(* What is not on the way of e itself, and does not empty the memory of    *)
(* the process, leaves that way alone.                                     *)
Aside(e) == /\ intake'[e] = intake[e] /\ Late(e)
            /\ task[e].state = "absent" => task'[e].state = "absent"

LEMMA OwnWay ==
    ASSUME TypeOK, [Next]_vars, NEW e \in Event
    PROVE  Aside(e) \/ Webhook(e) \/ IntakeStep(e) \/ Boot
<1> /\ TaskType /\ EventType /\ IntakeType /\ ControlType
    /\ e \in Task
  BY TypeParts, DispatchAssumption DEF DispatchAssumption
<1>1. CASE DispatchNext /\ UNCHANGED intakeVars
  BY <1>1, JobEvents, JobTasks DEF DispatchNext, intakeVars, Aside
<1>2. ASSUME NEW t \in Task, PostTask(t) \/ IntakeStep(t) \/ (t \in Event /\ Webhook(t)), t # e
      PROVE  Aside(e)
  <2>1. intake'[e] = intake[e]
    BY <1>2
       DEF PostTask, OfferTask, Overflow, Webhook, Match, CreateTask, Link, Abort, Undo,
           Enqueue, RecoverEvent, IntakeStep, ToIntake, IntakeType
  <2>2. \/ task' = task \/ Tasks!Fail(t)
        \/ Tasks!CreateWithEvent(t) /\ t # e
    BY <1>2
       DEF PostTask, OfferTask, Overflow, Webhook, Match, CreateTask, Link, Abort, Undo,
           Enqueue, RecoverEvent, IntakeStep, TrySql
  <2>3. \/ event' = event \/ Events!Create(t) \/ Events!SetMatched(t) \/ Events!SetSkipped(t)
        \/ Events!SetFailed(t) \/ Events!SetDispatched(t)
    BY <1>2
       DEF PostTask, OfferTask, Overflow, Webhook, Match, CreateTask, Link, Abort, Undo,
           Enqueue, RecoverEvent, IntakeStep, TrySql, TryCtx
  <2>4. event'[e].state = event[e].state
    BY <1>2, <2>3, EventOps
  <2>5. QED  BY <1>2, <2>1, <2>2, <2>4, AbsentOps DEF Aside, Late, Unmatched
<1>3. ASSUME NEW t \in Task, Scan(t) \/ Backoff(t) \/ Age(t)
      PROVE  Aside(e)
  <2>1. /\ intake' = intake /\ event' = event
        /\ task' = task \/ Tasks!BackoffElapses(t) \/ Tasks!GrowsOld(t)
    BY <1>3
       DEF Scan, ScanRetries, ScanPending, SendFound, SkipFound, Backoff, Age, dispatchVars,
           intakeVars
  <2>2. QED  BY <2>1, AbsentOps, LateOps DEF Aside
<1>4. ASSUME NEW x \in Event, WriteBackLoop(x)
      PROVE  Aside(e)
  <2>1. /\ intake' = intake /\ task' = task
        /\ \/ event' = event \/ Events!SetFailed(x) \/ Events!SetWriteBackCompleted(x)
           \/ Events!SetWriteBackFailed(x)
    BY <1>4
       DEF WriteBackLoop, WriteBackDeadLetter, ScanWriteBack, RepeatWriteBack, RecordWriteBack,
           TryCtx, dispatchVars, intakeVars
  <2>2. QED  BY <2>1, LateOps DEF Aside
<1>5. CASE (\E w \in Persistent : Reload(w)) \/ Shutdown \/ UNCHANGED vars
  <2>1. UNCHANGED <<intake, task, event>>
    BY <1>5 DEF Reload, Shutdown, vars, dispatchVars, intakeVars
  <2>2. QED  BY <2>1, LateOps DEF Aside
<1>6. PostTask(e) => FALSE
  BY DEF PostTask
<1>7. QED
  BY <1>1, <1>2, <1>3, <1>4, <1>5, <1>6, DispatchAssumption
     DEF Next, Crash, Restart, DispatchAssumption

LEMMA AdmitStep == TypeOK /\ AdmitInv /\ [Next]_vars => AdmitInv'
<1> SUFFICES ASSUME TypeOK, [Next]_vars, NEW e \in Event, Admitted(e)
             PROVE  Admitted(e)'
  BY DEF AdmitInv
<1> /\ TaskType /\ EventType /\ IntakeType
    /\ e \in Task
  BY TypeParts, DispatchAssumption DEF DispatchAssumption
<1>1. CASE Aside(e)
  BY <1>1 DEF Aside, Late, Admitted, Unmatched, Early, Unlinked
<1>2. CASE Boot
  BY <1>2 DEF Boot, Admitted, Unmatched, Early, Unlinked
<1>3. CASE Webhook(e)
  <2>1. intake'[e] = "match" /\ task' = task /\ event'[e].state = "received"
    BY <1>3, EventOps DEF Webhook, ToIntake, IntakeType
  <2>2. task[e].state = "absent"
    BY <1>3 DEF Webhook, Admitted, Unmatched
  <2>3. QED  BY <2>1, <2>2 DEF Admitted, Unmatched, Early, Unlinked
<1>4. CASE Match(e)
  <2>1. /\ task' = task /\ task[e].state = "absent" /\ event[e].state # "dispatched"
    BY <1>4 DEF Match, Admitted, Early, Unlinked
  <2>2. \/ intake'[e] = "idle"
        \/ intake'[e] = "create" /\ event' # event /\ Events!SetMatched(e)
    BY <1>4 DEF Match, TrySql, ToIntake, IntakeType
  <2>3. event' # event /\ Events!SetMatched(e) => event'[e].state = "matched"
    <3>1. event' # event /\ Events!SetMatched(e) => event[e].state = "received"
      BY DEF Events!SetMatched, Events!Transition
    <3>2. QED  BY <3>1, EventOps
  <2>4. event'[e].state # "dispatched"
    BY <1>4, <2>1, EventOps DEF Match, TrySql
  <2>5. QED  BY <2>1, <2>2, <2>3, <2>4 DEF Admitted, Unmatched, Early, Unlinked
<1>5. CASE CreateTask(e)
  <2>1. /\ event' = event /\ event[e].state # "dispatched" /\ ~Unmatched(e)
        /\ task[e].state = "absent"
    BY <1>5 DEF CreateTask, Admitted, Early, Unlinked
  <2>2. \/ intake'[e] = "link"
        \/ intake'[e] = "abort" /\ task' = task
    BY <1>5 DEF CreateTask, TrySql, ToIntake, IntakeType
  <2>3. QED  BY <2>1, <2>2 DEF Admitted, Unmatched, Early, Unlinked
<1>6. CASE Link(e)
  <2>1. /\ task' = task /\ event[e].state # "dispatched"
        /\ \/ intake'[e] = "enqueue"
           \/ intake'[e] = "undo" /\ event' = event
    BY <1>6 DEF Link, ToIntake, IntakeType, Admitted, Unlinked
  <2>2. Unmatched(e)' => Unmatched(e)
    BY <1>6, EventOps DEF Link, TrySql, Unmatched
  <2>3. QED  BY <2>1, <2>2 DEF Admitted, Unmatched, Early, Unlinked
<1>7. CASE Abort(e) \/ RecoverEvent(e)
  <2>1. /\ task' = task /\ task[e].state = "absent" /\ event[e].state # "dispatched"
        /\ intake'[e] \in {"idle", "match"}
    BY <1>7
       DEF Abort, RecoverEvent, ToIntake, IntakeType, Admitted, Early, Unlinked
  <2>2. event'[e].state # "dispatched"
    BY <1>7, <2>1, EventOps DEF Abort, RecoverEvent, TrySql, TryCtx
  <2>3. QED  BY <2>1, <2>2 DEF Admitted, Unmatched, Early, Unlinked
<1>8. CASE Undo(e) \/ Enqueue(e)
  <2>1. /\ event' = event /\ intake'[e] = "idle"
        /\ task' = task \/ Tasks!Fail(e)
    BY <1>8 DEF Undo, Enqueue, ToIntake, IntakeType, TrySql
  <2>2. task[e].state = "absent" => task'[e].state = "absent"
    BY <2>1, AbsentOps
  <2>3. QED  BY <2>1, <2>2 DEF Admitted, Unmatched, Early, Unlinked
<1>9. ~OfferTask(e) /\ ~Overflow(e)
  BY DEF OfferTask, Overflow, Admitted
<1>10. QED
  BY <1>1, <1>2, <1>3, <1>4, <1>5, <1>6, <1>7, <1>8, <1>9, OwnWay DEF IntakeStep

LEMMA AdmitAlways == Spec => []AdmitInv
<1>1. Init => AdmitInv
  BY DispatchAssumption
     DEF Init, DispatchInit, Tasks!Init, Events!Init, AdmitInv, Admitted, Early, Unlinked,
         DispatchAssumption
<1>2. QED  BY <1>1, AdmitStep, TypeCorrect, PTL DEF Spec
-----------------------------------------------------------------------------
(* An event is pointed to its task by Link and by nothing else.            *)
LEMMA LinkedBy ==
    ASSUME TypeOK, [Next]_vars, NEW e \in Event, event'[e].state = "dispatched"
    PROVE  event[e].state = "dispatched" \/ Link(e)
<1> EventType
  BY TypeParts
<1>1. Aside(e) \/ Boot => event[e].state = "dispatched"
  BY DEF Aside, Late, Boot
<1>2. Webhook(e) \/ (IntakeStep(e) /\ ~Link(e)) => event[e].state = "dispatched"
  BY EventOps
     DEF Webhook, IntakeStep, OfferTask, Overflow, Match, CreateTask, Abort, Undo, Enqueue,
         RecoverEvent, TrySql, TryCtx
<1>3. QED  BY <1>1, <1>2, OwnWay

(* A task is settled by a job that has it, or on the way of its request.   *)
LEMMA SettledBy ==
    ASSUME TypeOK, [Next]_vars, NEW e \in Event,
           task[e].state \notin Tasks!Settled, task'[e].state \in Tasks!Settled
    PROVE  \/ Overflow(e) \/ Undo(e)
           \/ \E j \in Job :
                 /\ on[j] = e /\ task' # task
                 /\ Refuse(j) \/ RejectTask(j) \/ Completes(j) \/ Retries(j)
<1> /\ TaskType /\ ControlType
    /\ e \in Task
  BY TypeParts, DispatchAssumption DEF DispatchAssumption
<1>1. ASSUME NEW t \in Task,
             Tasks!Fail(t) \/ Tasks!Complete(t) \/ (\E n : Tasks!RetryOrFail(t, n))
      PROVE  t = e
  BY <1>1
     DEF Tasks!Fail, Tasks!Complete, Tasks!RetryOrFail, Tasks!Update, Tasks!Write, TaskType
<1>2. ASSUME NEW t \in Task,
             \/ task' = task \/ Tasks!SetDispatched(t) \/ Tasks!CreateWithEvent(t)
             \/ Tasks!BackoffElapses(t) \/ Tasks!GrowsOld(t)
      PROVE  FALSE
  BY <1>2
     DEF Tasks!SetDispatched, Tasks!CreateWithEvent, Tasks!BackoffElapses, Tasks!GrowsOld,
         Tasks!Update, Tasks!Write, TaskType, Tasks!TaskRow, Tasks!Settled, Tasks!Active
<1>3. task' # task
  OBVIOUS
<1>4. ASSUME NEW j \in Job, Take(j) \/ Step(j) \/ Panic(j)
      PROVE  on[j] = e /\ (Refuse(j) \/ RejectTask(j) \/ Completes(j) \/ Retries(j))
  <2>1. on[j] \in Task
    BY <1>3, <1>4, OnTask
       DEF Take, Step, Panic, GetTask, Route, Refuse, Mark, Claim, Requeue, CompleteTask,
           RejectTask, ReadAttempts, RetryOrFail, Blame, Release, WriteBack, CompleteEvent
  <2>2. \/ (Refuse(j) \/ RejectTask(j)) /\ Tasks!Fail(on[j])
        \/ Completes(j) \/ Retries(j) \/ Tasks!SetDispatched(on[j])
    BY <1>3, <1>4
       DEF Take, Step, Panic, GetTask, Route, Refuse, Mark, Claim, Requeue, CompleteTask,
           RejectTask, ReadAttempts, RetryOrFail, Blame, Release, WriteBack, CompleteEvent,
           TryCtx, Completes, Retries
  <2>3. QED  BY <1>1, <1>2, <2>1, <2>2 DEF Completes, Retries
<1>5. ASSUME NEW t \in Task, IntakeStep(t)
      PROVE  Overflow(e) \/ Undo(e)
  <2>1. (Overflow(t) \/ Undo(t)) /\ Tasks!Fail(t)
    BY <1>2, <1>5
       DEF IntakeStep, OfferTask, Overflow, Match, CreateTask, Link, Abort, Undo, Enqueue,
           RecoverEvent, TrySql
  <2>2. QED  BY <1>1, <2>1
<1>6. ASSUME NEW t \in Task, PostTask(t) \/ Scan(t) \/ Backoff(t) \/ Age(t) \/ Webhook(t)
      PROVE  FALSE
  BY <1>2, <1>6
     DEF PostTask, Scan, ScanRetries, ScanPending, SendFound, SkipFound, Backoff, Age, Webhook,
         dispatchVars
<1>7. ASSUME NEW x \in Event, WriteBackLoop(x)
      PROVE  FALSE
  BY <1>3, <1>7
     DEF WriteBackLoop, WriteBackDeadLetter, ScanWriteBack, RepeatWriteBack, RecordWriteBack,
         dispatchVars
<1>8. ~(\/ \E w \in Persistent : Reload(w)
        \/ Crash \/ Shutdown \/ Restart \/ UNCHANGED vars)
  BY <1>3 DEF Reload, Crash, Shutdown, Restart, Boot, vars, dispatchVars
<1>9. QED
  BY <1>3, <1>4, <1>5, <1>6, <1>7, <1>8, DispatchAssumption
     DEF Next, DispatchNext, DispatchAssumption

(* Whoever settles the task of an event is then on the way to tell it, but *)
(* for a job that gives it up for its worker.                              *)
LEMMA SettlerTells ==
    ASSUME TypeOK, NEW j \in Job, NEW e \in Event, on[j] = e, task' # task,
           Refuse(j) \/ RejectTask(j) \/ Completes(j) \/ Retries(j),
           task'[e].state \in Tasks!Settled, pc[j] \notin {"unknown", "clash"}
    PROVE  Tells(j, e)'
<1> /\ ControlType /\ TaskType
    /\ on[j] \in Task
  BY TypeParts, DispatchAssumption DEF DispatchAssumption
<1>1. ASSUME NEW l \in Telling \cup {"unhold", "release"}, Goto(j, l)
      PROVE  on' = on /\ pc'[j] = l
  BY <1>1 DEF Goto, Target, Telling, ControlType
<1>2. Retries(j) => Goto(j, "dead")
  <2>1. Retries(j) /\ Tasks!Retried(tries[j]) => task'[on[j]].state = "pending"
    BY DEF Retries, Tasks!RetryOrFail, Tasks!Write, TaskType
  <2>2. QED  BY <2>1 DEF Retries, RetryOrFail, Tasks!Settled
<1>3. \E l \in {"disown", "unhold", "release", "write", "dead"} : Goto(j, l)
  BY <1>2 DEF Refuse, RejectTask, Completes, CompleteTask
<1>4. QED  BY <1>1, <1>3 DEF Tells, Telling

(* A job that is on the way to tell an event stays on it until it has.     *)
LEMMA TellerTells ==
    ASSUME TypeOK, [Next]_vars, NEW k \in Job, NEW e \in Event, Tells(k, e),
           event[e].state = "dispatched", event'[e].state = "dispatched",
           UNCHANGED faults, ctx = "live"
    PROVE  Tells(k, e)'
<1> /\ ControlType /\ EventType
    /\ on[k] = e
  BY TypeParts DEF Tells
<1>1. ~Fault
  <2>1. faults \in Nat
    BY TypeParts DEF ServerType
  <2>2. QED  BY <2>1 DEF Fault
<1>2. ASSUME NEW l \in Telling, Goto(k, l)
      PROVE  on' = on /\ pc'[k] = l
  BY <1>2 DEF Goto, Target, Telling, ControlType
<1>3. CASE UNCHANGED <<pc, on>>
  BY <1>3 DEF Tells
<1>4. ASSUME NEW j \in Job, j # k, Take(j) \/ Step(j) \/ Panic(j)
      PROVE  Tells(k, e)'
  BY <1>4, OtherJobs DEF Tells
<1>5. CASE Take(k) \/ Step(k) \/ Panic(k)
  <2>1. ~Panic(k)
    BY <1>1 DEF Panic
  <2>2. Release(k) \/ WriteBack(k) \/ CompleteEvent(k)
    BY <1>5, <2>1
       DEF Take, Step, GetTask, Route, Refuse, Mark, Claim, Requeue, CompleteTask,
           RejectTask, ReadAttempts, RetryOrFail, Blame, Tells, Telling
  <2>3. ~CompleteEvent(k)
    <3>1. ASSUME CompleteEvent(k)
          PROVE  \/ Events!SetCompleted(e) \/ Events!SetWriteBackFailed(e)
                 \/ Events!SetFailed(e)
      BY <1>1, <3>1 DEF CompleteEvent, TryCtx, CtxError
    <3>2. QED  BY <3>1, EventOps
  <2>4. Release(k) => \E l \in Telling : Goto(k, l)
    BY DEF Release, AfterRelease, Tells, Telling
  <2>5. WriteBack(k) => \E l \in Telling : Goto(k, l)
    BY DEF WriteBack, Telling
  <2>6. QED  BY <1>2, <2>2, <2>3, <2>4, <2>5 DEF Tells
<1>6. ~Crash /\ ~Restart
  BY <1>1 DEF Crash, Restart
<1>7. QED
  BY <1>3, <1>4, <1>5, <1>6, OtherSteps, DispatchAssumption
     DEF Next, DispatchNext, Shutdown, Reload, vars, dispatchVars, jobVars,
         DispatchAssumption
(* Without a fault, and while the server runs, an event is left behind by  *)
(* its task in the two ways OrphanedOnlyBy names and in no third one, for  *)
(* any number of goroutines that have the same task.                       *)
THEOREM OrphansExplained == Spec => OrphanedOnlyBy
<1>1. ASSUME TypeOK, AdmitInv, [Next]_vars, NEW e \in Event,
             ~Orphaned(e), Orphaned(e)', UNCHANGED faults, ctx = "live", ~Link(e)
      PROVE  \E j \in Job : on[j] = e /\ pc[j] \in {"unknown", "clash"}
  <2>1. event[e].state = "dispatched" /\ event'[e].state = "dispatched"
    BY <1>1, LinkedBy DEF Orphaned
  <2>2. task[e].state \notin Tasks!Settled
    <3>1. ASSUME NEW k \in Job, Tells(k, e)
          PROVE  FALSE
      BY <1>1, <2>1, <3>1, TellerTells DEF Orphaned
    <3>2. QED  BY <1>1, <2>1, <3>1 DEF Orphaned
  <2>3. ~Overflow(e) /\ ~Undo(e)
    BY <1>1, <2>1 DEF AdmitInv, Admitted, Unlinked, Overflow, Undo
  <2>4. PICK j \in Job :
          /\ on[j] = e /\ task' # task
          /\ Refuse(j) \/ RejectTask(j) \/ Completes(j) \/ Retries(j)
    BY <1>1, <2>2, <2>3, SettledBy DEF Orphaned
  <2>5. CASE pc[j] \notin {"unknown", "clash"}
    BY <1>1, <2>4, <2>5, SettlerTells DEF Orphaned
  <2>6. QED  BY <2>4, <2>5
<1>2. TypeOK /\ AdmitInv /\ [Next]_vars
      => [\A e \in Event :
             ~Orphaned(e) /\ Orphaned(e)' /\ UNCHANGED faults /\ ctx = "live"
             => \/ \E j \in Job : on[j] = e /\ pc[j] \in {"unknown", "clash"}
                \/ Link(e)]_vars
  BY <1>1
<1>3. QED
  BY <1>2, TypeCorrect, AdmitAlways, PTL DEF Spec, OrphanedOnlyBy

-----------------------------------------------------------------------------
(* Nothing on the way from the webhook to the task fails the event of a    *)
(* task that has a result; only the dead letter of its write-back and a    *)
(* second dispatch of the same task can.                                   *)
THEOREM FailuresExplained == Spec => FailedOnlyBy
<1>1. ASSUME TypeOK, AdmitInv, [Next]_vars, NEW e \in Event,
             task[e].state = "completed",
             event[e].state # "failed", event'[e].state = "failed"
      PROVE  \/ WriteBackDeadLetter(e)
             \/ \E j \in Job : on[j] = e /\ pc[j] \in {"dead", "disown"}
  <2> EventType /\ ControlType
    BY <1>1, TypeParts
  <2>1. ~Early(e)
    BY <1>1 DEF AdmitInv, Admitted
  <2>2. event' # event /\ ~Boot
    BY <1>1 DEF Boot
  <2>3. ASSUME NEW x, Events!SetFailed(x)
        PROVE  x = e
    BY <1>1, <2>3, EventOps
  <2>4. ASSUME NEW x,
               \/ Events!Create(x)       \/ Events!SetMatched(x) \/ Events!SetDispatched(x)
               \/ Events!SetCompleted(x) \/ Events!SetSkipped(x)
               \/ Events!SetWriteBackCompleted(x) \/ Events!SetWriteBackFailed(x)
        PROVE  FALSE
    BY <1>1, <2>4, EventOps
  <2>5. ASSUME NEW j \in Job, Take(j) \/ Step(j) \/ Panic(j)
        PROVE  on[j] = e /\ pc[j] \in {"dead", "disown"}
    <3>1. /\ pc[j] \in {"done", "defer", "dead", "disown"}
          /\ \/ pc[j] = "done" /\ Events!SetCompleted(on[j])
             \/ pc[j] = "defer" /\ Events!SetWriteBackFailed(on[j])
             \/ pc[j] \in {"dead", "disown"} /\ Events!SetFailed(on[j])
      BY <2>2, <2>5
         DEF Take, Step, Panic, GetTask, Route, Refuse, Mark, Claim, Requeue, CompleteTask,
             RejectTask, ReadAttempts, RetryOrFail, Blame, Release, WriteBack,
             CompleteEvent, TryCtx
    <3>2. QED  BY <2>3, <2>4, <3>1
  <2>6. ASSUME NEW t \in Task,
               PostTask(t) \/ IntakeStep(t) \/ Scan(t) \/ Backoff(t) \/ Age(t) \/ Webhook(t)
        PROVE  FALSE
    <3>1. (Match(t) \/ Abort(t) \/ RecoverEvent(t)) /\ Events!SetFailed(t)
      BY <2>2, <2>4, <2>6
         DEF PostTask, OfferTask, Overflow, Webhook, Match, CreateTask, Link, Abort, Undo,
             Enqueue, RecoverEvent, IntakeStep, Scan, ScanRetries, ScanPending, SendFound,
             SkipFound, Backoff, Age, dispatchVars, TrySql, TryCtx
    <3>2. Early(t)
      BY <3>1 DEF Match, Abort, RecoverEvent, Early
    <3>3. QED  BY <2>1, <2>3, <3>1, <3>2
  <2>7. ASSUME NEW x \in Event, WriteBackLoop(x)
        PROVE  WriteBackDeadLetter(e)
    <3>1. WriteBackDeadLetter(x)
      BY <2>2, <2>4, <2>7
         DEF WriteBackLoop, ScanWriteBack, RepeatWriteBack, RecordWriteBack, TryCtx,
             dispatchVars
    <3>2. x = e
      BY <2>3, <3>1 DEF WriteBackDeadLetter
    <3>3. QED  BY <3>1, <3>2
  <2>8. ~(\/ \E w \in Persistent : Reload(w)
          \/ Crash \/ Shutdown \/ Restart \/ UNCHANGED vars)
    BY <2>2 DEF Reload, Crash, Shutdown, Restart, vars, dispatchVars
  <2>9. QED
    BY <1>1, <2>5, <2>6, <2>7, <2>8, DispatchAssumption
       DEF Next, DispatchNext, DispatchAssumption
<1>2. TypeOK /\ AdmitInv /\ [Next]_vars
      => [\A e \in Event :
             /\ task[e].state = "completed"
             /\ event[e].state # "failed" /\ event'[e].state = "failed"
             => \/ WriteBackDeadLetter(e)
                \/ \E j \in Job : on[j] = e /\ pc[j] \in {"dead", "disown"}]_vars
  BY <1>1
<1>3. QED
  BY <1>2, TypeCorrect, AdmitAlways, PTL DEF Spec, FailedOnlyBy
=============================================================================
