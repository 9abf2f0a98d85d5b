---------------------------- MODULE OutcomeProofs ----------------------------
(***************************************************************************)
(* Proofs about Serve: what becomes of tasks and their events, and that    *)
(* Serve implements TaskContract.                                          *)
(***************************************************************************)
EXTENDS ServeProofs

-----------------------------------------------------------------------------
(* Which operation a step applies to the table of tasks. *)

Simple(t) == \/ Tasks!CreateWithEvent(t) \/ Tasks!SetDispatched(t) \/ Tasks!Fail(t)
             \/ Tasks!BackoffElapses(t)  \/ Tasks!GrowsOld(t)

Completes(j) == CompleteTask(j) /\ Tasks!Complete(on[j])
Retries(j)   == RetryOrFail(j) /\ Tasks!RetryOrFail(on[j], tries[j])

LEMMA TaskSteps ==
    ASSUME TypeOK, [Next]_vars
    PROVE  \/ task' = task
           \/ \E t \in Task : Simple(t)
           \/ \E j \in Job : Completes(j) \/ Retries(j)
<1> ControlType
  BY TypeParts
<1>1. ASSUME NEW j \in Job, Take(j) \/ Step(j) \/ Panic(j)
      PROVE  task' = task \/ Simple(on[j]) \/ Completes(j) \/ Retries(j)
  BY <1>1
     DEF Take, Step, Panic, GetTask, Route, Refuse, Mark, Claim, Requeue, CompleteTask,
         RejectTask, ReadAttempts, RetryOrFail, Blame, Release, WriteBack, CompleteEvent,
         TryCtx, Simple, Completes, Retries
<1>2. ASSUME NEW j \in Job, Take(j) \/ Step(j) \/ Panic(j)
      PROVE  task' = task \/ on[j] \in Task
  <2>1. pc[j] # "idle" => on[j] \in Task
    BY OnTask
  <2>2. Take(j) => task' = task
    BY DEF Take
  <2>3. ~Take(j) => pc[j] # "idle"
    BY <1>2
       DEF Step, Panic, GetTask, Route, Refuse, Mark, Claim, Requeue, CompleteTask,
           RejectTask, ReadAttempts, RetryOrFail, Blame, Release, WriteBack, CompleteEvent,
           AfterRelease
  <2>4. QED  BY <2>1, <2>2, <2>3
<1>3. ASSUME NEW t \in Task,
             \/ PostTask(t) \/ IntakeStep(t) \/ Scan(t) \/ Backoff(t) \/ Age(t)
             \/ Webhook(t)  \/ WriteBackLoop(t)
      PROVE  task' = task \/ Simple(t)
  BY <1>3
     DEF PostTask, OfferTask, Overflow, Webhook, Match, CreateTask, Link, Abort, Undo,
         Enqueue, RecoverEvent, IntakeStep, Scan, ScanRetries, ScanPending, SendFound,
         SkipFound, Backoff, Age, WriteBackLoop, WriteBackDeadLetter, ScanWriteBack,
         RepeatWriteBack, RecordWriteBack, dispatchVars, TrySql, Simple
<1>4. CASE DispatchNext
  BY <1>1, <1>2, <1>4 DEF DispatchNext
<1>5. CASE \E t \in Task : PostTask(t) \/ IntakeStep(t) \/ Scan(t) \/ Backoff(t) \/ Age(t)
  BY <1>3, <1>5
<1>6. CASE \E e \in Event : Webhook(e) \/ WriteBackLoop(e)
  BY <1>3, <1>6, DispatchAssumption DEF DispatchAssumption
<1>7. CASE (\E w \in Persistent : Reload(w)) \/ Crash \/ Shutdown \/ Restart \/ UNCHANGED vars
  BY <1>7 DEF Reload, Crash, Shutdown, Restart, Boot, vars, dispatchVars
<1>8. QED  BY <1>4, <1>5, <1>6, <1>7 DEF Next

(* A settled row keeps its state and its attempts, whatever statements run *)
(* late on it.                                                             *)
LEMMA SettledKept ==
    ASSUME TypeOK, [Next]_vars, NEW u \in Task, task[u].state \in Tasks!Settled
    PROVE  task'[u].state = task[u].state /\ task'[u].attempts = task[u].attempts
<1> TaskType
  BY TypeParts
<1>1. ASSUME NEW t, NEW from, NEW to, Tasks!Update(t, from, to),
             from \cap Tasks!Settled = {}
      PROVE  task'[u] = task[u]
  BY <1>1 DEF Tasks!Update, Tasks!Write, TaskType
<1>2. ASSUME NEW t \in Task, Simple(t)
      PROVE  task'[u].state = task[u].state /\ task'[u].attempts = task[u].attempts
  <2>1. CASE Tasks!CreateWithEvent(t) \/ Tasks!SetDispatched(t) \/ Tasks!Fail(t)
    BY <1>1, <2>1
       DEF Tasks!CreateWithEvent, Tasks!SetDispatched, Tasks!Fail, Tasks!Active,
           Tasks!Settled
  <2>2. CASE Tasks!BackoffElapses(t) \/ Tasks!GrowsOld(t)
    BY <2>2 DEF Tasks!BackoffElapses, Tasks!GrowsOld, TaskType, Tasks!TaskRow
  <2>3. QED  BY <1>2, <2>1, <2>2 DEF Simple
<1>3. ASSUME NEW j \in Job, Completes(j)
      PROVE  task'[u] = task[u]
  BY <1>1, <1>3 DEF Completes, Tasks!Complete, Tasks!Settled
<1>4. ASSUME NEW j \in Job, Retries(j)
      PROVE  task'[u] = task[u]
  BY <1>4 DEF Retries, Tasks!RetryOrFail, Tasks!Write, Tasks!Active, Tasks!Settled, TaskType
<1>5. QED  BY <1>2, <1>3, <1>4, TaskSteps

-----------------------------------------------------------------------------
(* The retry budget.  RetryOrFail writes a count it computed from a row it *)
(* read earlier: the row may have changed since, but the count it read was *)
(* below the budget then, and a row that has reached it is settled.        *)

RetryInv ==
    /\ \A t \in Task : /\ task[t].attempts <= MaxRetries
                       /\ task[t].state \notin Tasks!Settled
                             => task[t].attempts < MaxRetries
    /\ \A j \in Job : pc[j] = "retry" => \/ tries[j] < MaxRetries
                                         \/ task[on[j]].state \in Tasks!Settled

LEMMA RetryRows ==
    ASSUME TypeOK, RetryInv, [Next]_vars, NEW u \in Task
    PROVE  /\ task'[u].attempts <= MaxRetries
           /\ task'[u].state \notin Tasks!Settled => task'[u].attempts < MaxRetries
<1> TaskType /\ TaskType' /\ ControlType
  <2>1. TypeOK'
    BY TypeStep
  <2>2. QED  BY <2>1, TypeParts DEF TypeOK, DispatchTypeOK, TaskType
<1>1. CASE task' = task
  BY <1>1 DEF RetryInv
<1>2. ASSUME NEW t \in Task, Simple(t)
      PROVE  /\ task'[u].attempts = task[u].attempts
             /\ task'[u].state \notin Tasks!Settled => task[u].state \notin Tasks!Settled
  <2>1. CASE Tasks!CreateWithEvent(t) \/ Tasks!SetDispatched(t) \/ Tasks!Fail(t)
    BY <2>1
       DEF Tasks!CreateWithEvent, Tasks!SetDispatched, Tasks!Fail, Tasks!Update,
           Tasks!Write, Tasks!Active, Tasks!Settled, TaskType
  <2>2. CASE Tasks!BackoffElapses(t) \/ Tasks!GrowsOld(t)
    BY <2>2 DEF Tasks!BackoffElapses, Tasks!GrowsOld, TaskType, Tasks!TaskRow
  <2>3. QED  BY <1>2, <2>1, <2>2 DEF Simple
<1>3. ASSUME NEW j \in Job, Completes(j)
      PROVE  /\ task'[u].attempts = task[u].attempts
             /\ task'[u].state \notin Tasks!Settled => task[u].state \notin Tasks!Settled
  BY <1>3 DEF Completes, Tasks!Complete, Tasks!Update, Tasks!Write, Tasks!Settled, TaskType
<1>4. ASSUME NEW j \in Job, Retries(j)
      PROVE  \/ task'[u] = task[u]
             \/ /\ task'[u].attempts <= MaxRetries
                /\ task'[u].state \notin Tasks!Settled => task'[u].attempts < MaxRetries
  <2>1. pc[j] = "retry" /\ on[j] \in Task /\ tries[j] \in Nat
    BY <1>4, OnTask DEF Retries, RetryOrFail, ControlType
  <2>2. CASE task[on[j]].state \in Tasks!Active
    <3>1. tries[j] < MaxRetries
      BY <2>1, <2>2 DEF RetryInv, Tasks!Active, Tasks!Settled
    <3>2. QED
      BY <1>4, <2>1, <2>2, <3>1, DispatchAssumption
         DEF Retries, Tasks!RetryOrFail, Tasks!Retried, Tasks!Write, Tasks!Settled,
             TaskType, DispatchAssumption
  <2>3. CASE task[on[j]].state \notin Tasks!Active
    BY <1>4, <2>3 DEF Retries, Tasks!RetryOrFail
  <2>4. QED  BY <2>2, <2>3
<1>5. QED  BY <1>1, <1>2, <1>3, <1>4, TaskSteps DEF RetryInv

(* A job reaches "retry" by ReadAttempts, and stays there with its count. *)
LEMMA AtRetry ==
    ASSUME TypeOK, [Next]_vars, NEW k \in Job, pc'[k] = "retry"
    PROVE  \/ pc[k] = "retry" /\ on'[k] = on[k] /\ tries'[k] = tries[k]
           \/ /\ pc[k] = "send" /\ on'[k] = on[k] /\ task' = task
              /\ tries'[k] = task[on[k]].attempts
<1> ControlType
  BY TypeParts
<1>1. ASSUME NEW j \in Job, Take(j) \/ Step(j) \/ Panic(j), j # k
      PROVE  pc[k] = "retry" /\ on'[k] = on[k] /\ tries'[k] = tries[k]
  BY <1>1, OtherJobs
<1>2. CASE Take(k) \/ Step(k) \/ Panic(k)
  <2>1. (\E l : Goto(k, l) /\ l # "retry") \/ Finish(k) => pc'[k] # "retry"
    BY DEF Goto, Finish, Target, AfterRetry, ControlType
  <2>2. CASE ReadAttempts(k)
    BY <2>1, <2>2 DEF ReadAttempts, ControlType
  <2>3. CASE Take(k) \/ GetTask(k)
    BY <2>1, <2>3 DEF Take, GetTask, ControlType
  <2>4. CASE Panic(k) \/ (Step(k) /\ ~ReadAttempts(k) /\ ~GetTask(k))
    BY <2>1, <2>4
       DEF Step, Panic, Route, Refuse, Mark, Claim, Requeue, CompleteTask, RejectTask,
           RetryOrFail, Blame, Release, WriteBack, CompleteEvent, AfterRelease, AfterRetry
  <2>5. QED  BY <1>2, <2>2, <2>3, <2>4
<1>3. CASE UNCHANGED <<pc, on, tries>>
  BY <1>3
<1>4. ~Crash /\ ~Restart
  BY DEF Crash, Restart, Boot
<1>5. QED
  BY <1>1, <1>2, <1>3, <1>4, OtherSteps, DispatchAssumption
     DEF Next, DispatchNext, Shutdown, Reload, vars, dispatchVars, jobVars,
         DispatchAssumption

LEMMA RetryStep == TypeOK /\ RetryInv /\ [Next]_vars => RetryInv'
<1> SUFFICES ASSUME TypeOK, RetryInv, [Next]_vars PROVE RetryInv'
  OBVIOUS
<1>1. ASSUME NEW k \in Job, pc'[k] = "retry"
      PROVE  tries'[k] < MaxRetries \/ task'[on'[k]].state \in Tasks!Settled
  <2>1. on[k] \in Task
    BY <1>1, AtRetry, OnTask, TypeParts
  <2>2. CASE pc[k] = "retry" /\ on'[k] = on[k] /\ tries'[k] = tries[k]
    BY <2>1, <2>2, SettledKept DEF RetryInv
  <2>3. CASE /\ on'[k] = on[k] /\ task' = task
             /\ tries'[k] = task[on[k]].attempts
    BY <2>1, <2>3 DEF RetryInv
  <2>4. QED  BY <1>1, <2>2, <2>3, AtRetry
<1>2. QED  BY <1>1, RetryRows DEF RetryInv

(* No task is charged more than max_retries attempts, and an open one has  *)
(* some left, however many goroutines run it at once.                      *)
THEOREM RetriesBounded == Spec => []RetryBudget
<1>1. Init => RetryInv
  BY DispatchAssumption
     DEF Init, DispatchInit, Tasks!Init, RetryInv, Tasks!Settled, DispatchAssumption
<1>2. RetryInv => RetryBudget
  BY DEF RetryInv, RetryBudget, Tasks!Active, Tasks!Settled
<1>3. QED  BY <1>1, <1>2, RetryStep, TypeCorrect, PTL DEF Spec
=============================================================================
