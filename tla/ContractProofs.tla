--------------------------- MODULE ContractProofs ---------------------------
(***************************************************************************)
(* Proofs about Serve: the first write-back of a result, and that Serve    *)
(* implements TaskContract.                                                *)
(***************************************************************************)
EXTENDS OutcomeProofs

-----------------------------------------------------------------------------
(* The job that completed an event's task, on its way to the write-back.   *)
Writing(j) == pc[j] \in {"release", "write"} /\ on[j] \in Event

(* The strengthening of WriteBackOnce: only the job whose Complete changed *)
(* the row is on that way, so there is one such job at most, and no        *)
(* write-back has been made before it.                                     *)
WriteInv ==
    /\ WriteBackOnce
    /\ \A j \in Job : Writing(j) => /\ task[on[j]].state = "completed"
                                    /\ wrote[on[j]] = 0
    /\ \A j, k \in Job : Writing(j) /\ Writing(k) /\ on[j] = on[k] => j = k

(* A job gets on that way only by a Complete that changed the row.         *)
LEMMA OwnWriting ==
    ASSUME TypeOK, NEW j \in Job, Take(j) \/ Step(j) \/ Panic(j), Writing(j)'
    PROVE  /\ on'[j] = on[j] /\ wrote' = wrote
           /\ \/ Writing(j)
              \/ Completes(j) /\ task' # task
<1> ControlType
  BY TypeParts
<1>1. \A l : Goto(j, l) /\ pc'[j] \in {"release", "write"}
                => /\ l \in {"release", "write"} /\ on' = on
  BY DEF Goto, Finish, Target, AfterRetry, Telling, ControlType
<1>2. Finish(j) => pc'[j] = "idle"
  BY DEF Finish, ControlType
<1>3. CASE CompleteTask(j)
  BY <1>1, <1>3 DEF CompleteTask, Completes, TryCtx, Writing
<1>4. CASE Release(j)
  <2>1. AfterRelease[pc[j]] \in {"release", "write"} /\ on' = on /\ wrote' = wrote
    BY <1>1, <1>4 DEF Release, Writing
  <2>2. pc[j] = "release"
    BY <1>4, <2>1 DEF Release, AfterRelease
  <2>3. QED  BY <2>1, <2>2 DEF Writing
<1>5. ~Take(j) /\ ~GetTask(j) /\ ~ReadAttempts(j)
  BY <1>1, <1>2 DEF Take, GetTask, ReadAttempts, Writing, ControlType
<1>6. CASE Panic(j) \/ (Step(j) /\ ~CompleteTask(j) /\ ~Release(j))
  BY <1>1, <1>2, <1>5, <1>6
     DEF Panic, Step, Route, Refuse, Mark, Claim, Requeue, RejectTask, RetryOrFail, Blame,
         WriteBack, CompleteEvent, AfterRetry, Writing
<1>7. QED  BY <1>3, <1>4, <1>5, <1>6

(* A write-back is made by a job that is on that way, and leaves it.       *)
LEMMA WroteSteps ==
    ASSUME TypeOK, [Next]_vars, wrote' # wrote
    PROVE  \E j \in Job : /\ Writing(j) /\ ~Writing(j)' /\ task' = task
                          /\ wrote' = [wrote EXCEPT ![on[j]] = @ + 1]
                          /\ \A k \in Job \ {j} : pc'[k] = pc[k] /\ on'[k] = on[k]
<1> ControlType /\ WroteType
  BY TypeParts
<1>1. ASSUME NEW j \in Job, Take(j) \/ Step(j) \/ Panic(j)
      PROVE  WriteBack(j)
  BY <1>1
     DEF Take, Step, Panic, GetTask, Route, Refuse, Mark, Claim, Requeue, CompleteTask,
         RejectTask, ReadAttempts, RetryOrFail, Blame, Release, CompleteEvent
<1>2. ASSUME NEW j \in Job, WriteBack(j)
      PROVE  /\ Writing(j) /\ ~Writing(j)' /\ task' = task
             /\ wrote' = [wrote EXCEPT ![on[j]] = @ + 1]
  <2>1. /\ pc[j] = "write" /\ task' = task
        /\ wrote' = [wrote EXCEPT ![on[j]] = @ + 1]
    BY <1>2 DEF WriteBack
  <2>2. on[j] \in Event
    BY <2>1 DEF WroteType
  <2>3. ~Writing(j)'
    BY <1>2 DEF WriteBack, Goto, Finish, Target, Telling, Writing, ControlType
  <2>4. QED  BY <2>1, <2>2, <2>3 DEF Writing
<1>3. \E j \in Job : Take(j) \/ Step(j) \/ Panic(j)
  BY OtherSteps, DispatchAssumption
     DEF Next, DispatchNext, Crash, Shutdown, Restart, Boot, Reload, vars, dispatchVars,
         DispatchAssumption
<1>4. QED  BY <1>1, <1>2, <1>3, OtherJobs

(* What a step that makes no write-back does to the jobs that are to make  *)
(* one: at most one joins them, by completing its task.                    *)
LEMMA WritingKept ==
    ASSUME TypeOK, [Next]_vars
    PROVE  \/ \A k \in Job : Writing(k)' => Writing(k) /\ on'[k] = on[k]
           \/ \E j \in Job : /\ Completes(j) /\ task' # task
                             /\ on'[j] = on[j] /\ wrote' = wrote
                             /\ \A k \in Job \ {j} : Writing(k)' => Writing(k) /\ on'[k] = on[k]
<1> ControlType
  BY TypeParts
<1>1. ASSUME NEW j \in Job, Take(j) \/ Step(j) \/ Panic(j)
      PROVE  \A k \in Job \ {j} : Writing(k)' => Writing(k) /\ on'[k] = on[k]
  BY <1>1, OtherJobs DEF Writing
<1>2. CASE \E j \in Job : Take(j) \/ Step(j) \/ Panic(j)
  BY <1>1, <1>2, OwnWriting
<1>3. CASE UNCHANGED <<pc, on>>
  BY <1>3 DEF Writing
<1>4. CASE Crash \/ Restart
  BY <1>4 DEF Crash, Restart, Boot, Writing
<1>5. QED
  BY <1>2, <1>3, <1>4, OtherSteps, DispatchAssumption
     DEF Next, DispatchNext, Shutdown, Reload, vars, dispatchVars, jobVars,
         DispatchAssumption

LEMMA WriteStep == TypeOK /\ WriteInv /\ [Next]_vars => WriteInv'
<1> SUFFICES ASSUME TypeOK, WriteInv, [Next]_vars PROVE WriteInv'
  OBVIOUS
<1> TaskType /\ WroteType
  BY TypeParts
<1>1. \A e \in Event : task[e].state = "completed" => task'[e].state = "completed"
  BY SettledKept, DispatchAssumption DEF DispatchAssumption, Tasks!Settled
<1>2. CASE wrote' # wrote
  <2>1. PICK j \in Job :
          /\ Writing(j) /\ ~Writing(j)' /\ task' = task
          /\ wrote' = [wrote EXCEPT ![on[j]] = @ + 1]
          /\ \A k \in Job \ {j} : pc'[k] = pc[k] /\ on'[k] = on[k]
    BY <1>2, WroteSteps
  <2>2. \A k \in Job : Writing(k)' => Writing(k) /\ on'[k] = on[k] /\ on[k] # on[j]
    BY <2>1 DEF Writing, WriteInv
  <2>3. on[j] \in Event /\ wrote[on[j]] = 0 /\ task[on[j]].state = "completed"
    BY <2>1 DEF Writing, WriteInv
  <2>4. WriteBackOnce'
    BY <2>1, <2>3 DEF WriteInv, WriteBackOnce, WroteType
  <2>5. \A k \in Job : Writing(k) => on[k] \in Event
    BY DEF Writing
  <2>6. \A k \in Job : Writing(k)' => /\ task'[on'[k]].state = "completed"
                                      /\ wrote'[on'[k]] = 0
    BY <2>1, <2>2, <2>5 DEF WriteInv, WroteType
  <2>7. QED  BY <2>2, <2>4, <2>6 DEF WriteInv
<1>3. CASE wrote' = wrote
  <2>1. WriteBackOnce'
    BY <1>1, <1>3 DEF WriteInv, WriteBackOnce
  <2>2. ASSUME NEW k \in Job, Writing(k), on'[k] = on[k]
        PROVE  task'[on'[k]].state = "completed" /\ wrote'[on'[k]] = 0
    BY <1>1, <1>3, <2>2 DEF WriteInv, Writing
  <2>3. CASE \A k \in Job : Writing(k)' => Writing(k) /\ on'[k] = on[k]
    BY <2>1, <2>2, <2>3 DEF WriteInv
  <2>4. ASSUME NEW j \in Job, Completes(j), task' # task, on'[j] = on[j],
               \A k \in Job \ {j} : Writing(k)' => Writing(k) /\ on'[k] = on[k],
               Writing(j)'
        PROVE  WriteInv'
    <3>1. /\ on[j] \in Event /\ on[j] \in Task
          /\ task[on[j]].state = "dispatched" /\ task'[on[j]].state = "completed"
      BY <2>4, DispatchAssumption
         DEF Completes, Tasks!Complete, Tasks!Update, Tasks!Write, TaskType, Writing,
             DispatchAssumption
    <3>2. wrote[on[j]] = 0
      BY <3>1 DEF WriteInv, WriteBackOnce, WroteType
    <3>3. \A k \in Job : Writing(k) => on[k] # on[j]
      BY <3>1 DEF WriteInv
    <3>4. QED  BY <1>3, <2>1, <2>2, <2>4, <3>1, <3>2, <3>3 DEF WriteInv
  <2>5. QED  BY <2>3, <2>4, WritingKept
<1>4. QED  BY <1>2, <1>3

LEMMA WriteAlways == Spec => []WriteInv
<1>1. Init => WriteInv
  BY DEF Init, DispatchInit, WriteInv, WriteBackOnce, Writing
<1>2. QED  BY <1>1, WriteStep, TypeCorrect, PTL DEF Spec

(* The first write-back of a result is made at most once, and only after   *)
(* the completion is durable, whatever is dispatched twice or crashes.     *)
THEOREM WritesBackOnce == Spec => []WriteBackOnce
<1>1. WriteInv => WriteBackOnce
  BY DEF WriteInv
<1>2. QED  BY <1>1, WriteAlways, PTL

-----------------------------------------------------------------------------
(* Who moves an event to `completed' or `write_back_failed' knows that the *)
(* task is completed: a job after its write-back, or the loop that repeats *)
(* write-backs.                                                            *)
Claimed(e) == event[e].state \in {"completed", "write_back_failed"}
Told(j)    == pc[j] \in {"done", "defer"} /\ on[j] \in Event

EventInv == /\ EventFollowsTask
            /\ \A j \in Job : Told(j) => task[on[j]].state = "completed"
            /\ \A e \in Event : wb[e] # "idle" => task[e].state = "completed"

LEMMA ClaimSteps ==
    ASSUME TypeOK, [Next]_vars, NEW e \in Event, Claimed(e)'
    PROVE  \/ Claimed(e)
           \/ \E j \in Job : Told(j) /\ on[j] = e
           \/ wb[e] # "idle"
<1> EventType /\ ControlType
  BY TypeParts
<1>1. ASSUME NEW x, NEW from, NEW to, to \notin {"completed", "write_back_failed"},
             Events!Transition(x, from, to), ~Claimed(e)
      PROVE  FALSE
  BY <1>1 DEF Events!Transition, Events!EventRow, EventType, Claimed
<1>2. ASSUME NEW x, ~Claimed(e),
             \/ Events!Create(x)        \/ Events!SetMatched(x) \/ Events!SetFailed(x)
             \/ Events!SetDispatched(x) \/ Events!SetSkipped(x) \/ event' = event
      PROVE  FALSE
  BY <1>1, <1>2
     DEF Events!Create, Events!SetMatched, Events!SetFailed, Events!SetDispatched,
         Events!SetSkipped, Claimed
<1>3. ASSUME NEW x, x # e, ~Claimed(e),
             \/ Events!SetCompleted(x) \/ Events!SetWriteBackCompleted(x)
             \/ Events!SetWriteBackFailed(x)
      PROVE  FALSE
  BY <1>3
     DEF Events!SetCompleted, Events!SetWriteBackCompleted, Events!SetWriteBackFailed,
         Events!Transition, EventType, Claimed
<1>4. ASSUME NEW j \in Job, Take(j) \/ Step(j) \/ Panic(j), ~Claimed(e)
      PROVE  Told(j) /\ on[j] = e
  <2>1. CompleteEvent(j)
    BY <1>2, <1>4
       DEF Take, Step, Panic, GetTask, Route, Refuse, Mark, Claim, Requeue, CompleteTask,
           RejectTask, ReadAttempts, RetryOrFail, Blame, Release, WriteBack
  <2>2. pc[j] \in {"done", "defer"}
    BY <1>2, <1>4, <2>1 DEF CompleteEvent, TryCtx
  <2>3. on[j] = e
    BY <1>2, <1>3, <1>4, <2>1, <2>2 DEF CompleteEvent, TryCtx
  <2>4. QED  BY <2>2, <2>3 DEF Told
<1>5. ASSUME NEW t \in Task, ~Claimed(e),
             PostTask(t) \/ IntakeStep(t) \/ Scan(t) \/ Backoff(t) \/ Age(t) \/ Webhook(t)
      PROVE  FALSE
  BY <1>2, <1>5
     DEF PostTask, OfferTask, Overflow, Webhook, Match, CreateTask, Link, Abort, Undo,
         Enqueue, RecoverEvent, IntakeStep, Scan, ScanRetries, ScanPending, SendFound,
         SkipFound, Backoff, Age, dispatchVars, TrySql, TryCtx
<1>6. ASSUME NEW x \in Event, WriteBackLoop(x), ~Claimed(e)
      PROVE  wb[e] # "idle"
  <2>1. RecordWriteBack(x)
    BY <1>2, <1>6
       DEF WriteBackLoop, WriteBackDeadLetter, ScanWriteBack, RepeatWriteBack, dispatchVars
  <2>2. x = e
    BY <1>2, <1>3, <1>6, <2>1 DEF RecordWriteBack, TryCtx
  <2>3. QED  BY <2>1, <2>2 DEF RecordWriteBack
<1>7. CASE ~Claimed(e) /\ ((\E w \in Persistent : Reload(w)) \/ Crash \/ Shutdown \/ Restart
                          \/ UNCHANGED vars)
  BY <1>2, <1>7 DEF Reload, Crash, Shutdown, Restart, Boot, vars, dispatchVars
<1>8. CASE ~Claimed(e) /\ DispatchNext
  BY <1>4, <1>8 DEF DispatchNext
<1>9. QED
  BY <1>5, <1>6, <1>7, <1>8, DispatchAssumption DEF Next, DispatchAssumption

(* A job comes to "done" or "defer" from the write-back.                   *)
LEMMA ToldSteps ==
    ASSUME TypeOK, [Next]_vars, NEW k \in Job, Told(k)'
    PROVE  on'[k] = on[k] /\ (Told(k) \/ Writing(k))
<1> ControlType
  BY TypeParts
<1>1. ASSUME NEW j \in Job, j # k, Take(j) \/ Step(j) \/ Panic(j)
      PROVE  on'[k] = on[k] /\ Told(k)
  BY <1>1, OtherJobs DEF Told
<1>2. CASE Take(k) \/ Step(k) \/ Panic(k)
  <2>1. \A l : Goto(k, l) => l \in {"done", "defer"} /\ on' = on
    BY DEF Goto, Finish, Target, AfterRetry, Telling, Told, ControlType
  <2>2. ~Finish(k) /\ ~Take(k) /\ ~GetTask(k) /\ ~ReadAttempts(k)
    BY <2>1 DEF Finish, Take, GetTask, ReadAttempts, Told, ControlType
  <2>3. WriteBack(k)
    BY <1>2, <2>1, <2>2
       DEF Step, Panic, Route, Refuse, Mark, Claim, Requeue, CompleteTask, RejectTask,
           RetryOrFail, Blame, Release, CompleteEvent, AfterRelease, AfterRetry
  <2>4. QED  BY <2>1, <2>3 DEF WriteBack, Told, Writing
<1>3. CASE UNCHANGED <<pc, on>>
  BY <1>3 DEF Told
<1>4. ~Crash /\ ~Restart
  BY DEF Crash, Restart, Boot, Told
<1>5. QED
  BY <1>1, <1>2, <1>3, <1>4, OtherSteps, DispatchAssumption
     DEF Next, DispatchNext, Shutdown, Reload, vars, dispatchVars, jobVars,
         DispatchAssumption

(* The loop takes up an event only in write_back_failed.                   *)
LEMMA LoopSteps ==
    ASSUME TypeOK, [Next]_vars, NEW e \in Event, wb'[e] # "idle"
    PROVE  wb[e] # "idle" \/ Claimed(e)
<1> IntakeType
  BY TypeParts
<1>1. ASSUME NEW x \in Event, WriteBackLoop(x)
      PROVE  wb[e] # "idle" \/ Claimed(e)
  BY <1>1
     DEF WriteBackLoop, WriteBackDeadLetter, ScanWriteBack, RepeatWriteBack, RecordWriteBack,
         Claimed, IntakeType, intakeVars
<1>2. ASSUME NEW t \in Task,
             PostTask(t) \/ IntakeStep(t) \/ Scan(t) \/ Backoff(t) \/ Age(t) \/ Webhook(t)
      PROVE  wb' = wb
  BY <1>2
     DEF PostTask, OfferTask, Overflow, Webhook, Match, CreateTask, Link, Abort, Undo,
         Enqueue, RecoverEvent, IntakeStep, Scan, ScanRetries, ScanPending, SendFound,
         SkipFound, Backoff, Age, intakeVars
<1>3. CASE DispatchNext /\ UNCHANGED intakeVars
  BY <1>3 DEF intakeVars
<1>4. CASE (\E w \in Persistent : Reload(w)) \/ Crash \/ Shutdown \/ Restart
           \/ UNCHANGED vars
  BY <1>4 DEF Reload, Crash, Shutdown, Restart, Boot, vars, intakeVars
<1>5. QED  BY <1>1, <1>2, <1>3, <1>4, DispatchAssumption DEF Next, DispatchAssumption

LEMMA EventStep == TypeOK /\ WriteInv /\ EventInv /\ [Next]_vars => EventInv'
<1> SUFFICES ASSUME TypeOK, WriteInv, EventInv, [Next]_vars PROVE EventInv'
  OBVIOUS
<1>1. \A e \in Event : task[e].state = "completed" => task'[e].state = "completed"
  BY SettledKept, DispatchAssumption DEF DispatchAssumption, Tasks!Settled
<1>2. EventFollowsTask'
  <2>1. ASSUME NEW e \in Event, Claimed(e)' PROVE task[e].state = "completed"
    BY <2>1, ClaimSteps DEF EventInv, EventFollowsTask, Claimed
  <2>2. QED  BY <1>1, <2>1 DEF EventFollowsTask, Claimed
<1>3. ASSUME NEW k \in Job, Told(k)' PROVE task'[on'[k]].state = "completed"
  <2>1. on[k] \in Event /\ on'[k] = on[k] /\ (Told(k) \/ Writing(k))
    BY <1>3, ToldSteps DEF Told
  <2>2. QED  BY <1>1, <2>1 DEF EventInv, WriteInv
<1>4. ASSUME NEW e \in Event, wb'[e] # "idle" PROVE task'[e].state = "completed"
  BY <1>1, <1>4, LoopSteps DEF EventInv, EventFollowsTask, Claimed
<1>5. QED  BY <1>2, <1>3, <1>4 DEF EventInv

(* An event claims a result only if its task has one, in every interleaving *)
(* of dispatches, write-back retries, recoveries and late failures.        *)
THEOREM EventsFollowTasks == Spec => []EventFollowsTask
<1>1. Init => EventInv
  BY DEF Init, DispatchInit, Events!Init, EventInv, EventFollowsTask, Told
<1>2. EventInv => EventFollowsTask
  BY DEF EventInv
<1>3. QED  BY <1>1, <1>2, EventStep, WriteAlways, TypeCorrect, PTL DEF Spec

-----------------------------------------------------------------------------
(* The refinement: an operation on the tasks accepts one, settles an open  *)
(* one or is a stutter of TaskContract.                                    *)
LEMMA WriteOutcome ==
    ASSUME TaskType, NEW t \in Task, NEW attempts, NEW retry, wrote' = wrote,
           NEW state \in Tasks!Active \cup Tasks!Settled,
           task[t].state \notin Tasks!Settled,
           task[t].state = "absent" => state \in Tasks!Active,
           Tasks!Write(t, state, attempts, retry)
    PROVE  Outcome' = Outcome \/ Contract!Accept(t) \/ Contract!Settle(t)
<1>1. Outcome' = [Outcome EXCEPT ![t] = IF state \in Tasks!Active THEN "open" ELSE state]
  BY DEF Outcome, Tasks!Write, TaskType, Tasks!Active, Tasks!Settled
<1>2. /\ Outcome[t] \in {"none", "open"}
      /\ Outcome[t] = "none" => state \in Tasks!Active
      /\ Outcome \in [Task -> {"none", "open", "completed", "failed"}]
  BY DEF Outcome, TaskType, Tasks!TaskRow, Tasks!Active, Tasks!Settled
<1>3. CASE Outcome[t] = "none"
  BY <1>1, <1>2, <1>3 DEF Contract!Accept
<1>4. CASE Outcome[t] = "open" /\ state \in Tasks!Active
  BY <1>1, <1>2, <1>4
<1>5. CASE Outcome[t] = "open" /\ state \in Tasks!Settled
  BY <1>1, <1>2, <1>5 DEF Contract!Settle, Tasks!Active, Tasks!Settled
<1>6. QED  BY <1>2, <1>3, <1>4, <1>5

LEMMA OpOutcome ==
    ASSUME TaskType, NEW t \in Task, wrote' = wrote,
           \/ Simple(t) \/ Tasks!Complete(t)
           \/ \E seen \in Nat : Tasks!RetryOrFail(t, seen)
    PROVE  Outcome' = Outcome \/ Contract!Accept(t) \/ Contract!Settle(t)
<1>1. CASE task' = task
  BY <1>1 DEF Outcome
<1>2. CASE Tasks!BackoffElapses(t) \/ Tasks!GrowsOld(t)
  <2>1. \A u \in Task : task'[u].state = task[u].state
    BY <1>2 DEF Tasks!BackoffElapses, Tasks!GrowsOld, TaskType, Tasks!TaskRow
  <2>2. QED  BY <2>1 DEF Outcome
<1>3. CASE \E state \in Tasks!Active \cup Tasks!Settled : \E attempts, retry :
             /\ task[t].state \notin Tasks!Settled
             /\ task[t].state = "absent" => state \in Tasks!Active
             /\ Tasks!Write(t, state, attempts, retry)
  BY <1>3, WriteOutcome
<1>4. QED
  BY <1>1, <1>2, <1>3
     DEF Simple, Tasks!CreateWithEvent, Tasks!SetDispatched, Tasks!Complete, Tasks!Fail,
         Tasks!RetryOrFail, Tasks!Update, Tasks!Active, Tasks!Settled

LEMMA ContractStep ==
    TypeOK /\ WriteInv /\ [Next]_vars => [Contract!Next]_Contract!contractVars
<1> SUFFICES ASSUME TypeOK, WriteInv, [Next]_vars
             PROVE  Contract!Next \/ UNCHANGED Contract!contractVars
  OBVIOUS
<1> TaskType /\ WroteType /\ ControlType
  BY TypeParts
<1>1. CASE wrote' # wrote
  <2>1. PICK j \in Job : /\ Writing(j) /\ task' = task
                         /\ wrote' = [wrote EXCEPT ![on[j]] = @ + 1]
    BY <1>1, WroteSteps
  <2>2. /\ on[j] \in Event /\ on[j] \in Task
        /\ task[on[j]].state = "completed" /\ wrote[on[j]] = 0
    BY <2>1, DispatchAssumption DEF WriteInv, Writing, DispatchAssumption
  <2>3. Contract!WriteBack(on[j])
    BY <2>1, <2>2
       DEF Contract!WriteBack, Outcome, WroteType, Tasks!Active
  <2>4. QED  BY <2>2, <2>3 DEF Contract!Next
<1>2. CASE wrote' = wrote
  <2>1. task' = task => UNCHANGED Contract!contractVars
    BY <1>2 DEF Outcome, Contract!contractVars
  <2>2. ASSUME NEW t \in Task, Simple(t)
        PROVE  Contract!Next \/ UNCHANGED Contract!contractVars
    BY <1>2, <2>2, OpOutcome DEF Contract!Next, Contract!contractVars
  <2>3. ASSUME NEW j \in Job, Completes(j) \/ Retries(j)
        PROVE  Contract!Next \/ UNCHANGED Contract!contractVars
    <3>1. on[j] \in Task /\ tries[j] \in Nat
      BY <2>3, OnTask DEF Completes, Retries, CompleteTask, RetryOrFail, ControlType
    <3>2. QED
      BY <1>2, <2>3, <3>1, OpOutcome
         DEF Completes, Retries, Contract!Next, Contract!contractVars
  <2>4. QED  BY <2>1, <2>2, <2>3, TaskSteps
<1>3. QED  BY <1>1, <1>2

(* Whoever hands a task to the server can rely on TaskContract, whatever   *)
(* the goroutines, crashes and lost writes do underneath.                  *)
THEOREM ServerKeepsContract == Spec => ImplementsContract
<1>1. Init => Contract!Init
  BY DispatchAssumption
     DEF Init, DispatchInit, Tasks!Init, Tasks!Active, Contract!Init, Outcome,
         DispatchAssumption
<1>2. QED
  BY <1>1, ContractStep, WriteAlways, TypeCorrect, PTL
     DEF Spec, ImplementsContract, Contract!Spec
=============================================================================
