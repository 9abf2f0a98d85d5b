-------------------------------- MODULE Serve --------------------------------
(***************************************************************************)
(* internal/serve: the whole server process.  Requests and webhooks create *)
(* tasks; scanning loops put forgotten, retried and stale tasks back into  *)
(* the channel; another loop repeats failed write-backs; after a crash or  *)
(* a shutdown the next start recovers what SQLite still holds.             *)
(***************************************************************************)
EXTENDS Dispatch

CONSTANT Slow   \* tasks whose worker's timeout exceeds staleDispatchTimeout

ASSUME SlowAssumption == Slow \subseteq Task

VARIABLES
    found,   \* <<scanner, task>>: listed by the scanner, not yet sent
    intake,  \* where the request or webhook that creates a task is
    wb       \* where the write-back retry of an event is

intakeVars == <<found, intake, wb>>
vars == <<dispatchVars, intakeVars>>

Scanner == {"recover", "retry", "pending"}
IntakePC == {"idle", "stuck", "match", "create", "abort", "link", "undo",
             "enqueue", "offer", "overflow"}

ToIntake(t, l) == intake' = [intake EXCEPT ![t] = l]

(* Start listens only after recoverTasks and recoverEvents have returned. *)
Listening == /\ ctx = "live"
             /\ \A t \in Task : <<"recover", t>> \notin found /\ intake[t] # "stuck"

-----------------------------------------------------------------------------
(* POST /task (handlers.go). *)
PostTask(t) ==
    /\ Listening /\ t \notin Event
    /\ task[t].state = "absent"
    /\ Tasks!CreateWithEvent(t)
    /\ ToIntake(t, "offer")
    /\ UNCHANGED <<event, worker, queue, jobVars, ctx, faults, wrote, found, wb>>

OfferTask(t) ==
    /\ intake[t] = "offer"
    /\ Offer(t)
    /\ ToIntake(t, IF queue' # queue THEN "idle" ELSE "overflow")
    /\ UNCHANGED <<task, event, worker, jobVars, ctx, faults, wrote, found, wb>>

(* 429: the row was already visible to the scans. *)
Overflow(t) ==
    /\ intake[t] = "overflow"
    /\ TrySql(Tasks!Fail(t), task)
    /\ ToIntake(t, "idle")
    /\ UNCHANGED <<event, worker, queue, jobVars, ctx, wrote, found, wb>>

-----------------------------------------------------------------------------
(* POST /webhook (webhook.go).  What follows runs under a context of its   *)
(* own, which a shutdown does not cancel.                                  *)
Webhook(e) ==
    /\ Listening /\ event[e].state = "absent"
    /\ Events!Create(e)
    /\ ToIntake(e, "match")
    /\ UNCHANGED <<task, worker, queue, jobVars, ctx, faults, wrote, found, wb>>

(* A rule matches, none does, or the prompt template cannot be rendered. *)
Match(e) ==
    /\ intake[e] = "match"
    /\ \/ /\ TrySql(Events!SetMatched(e), event)
          /\ ToIntake(e, IF event' # event THEN "create" ELSE "idle")
       \/ /\ TrySql(Events!SetSkipped(e), event)
          /\ ToIntake(e, "idle")
       \/ /\ TrySql(Events!SetFailed(e), event)
          /\ ToIntake(e, "idle")
    /\ UNCHANGED <<task, worker, queue, jobVars, ctx, wrote, found, wb>>

CreateTask(e) ==
    /\ intake[e] = "create"
    /\ TrySql(Tasks!CreateWithEvent(e), task)
    /\ ToIntake(e, IF task' # task THEN "link" ELSE "abort")
    /\ UNCHANGED <<event, worker, queue, jobVars, ctx, wrote, found, wb>>

(* The task row exists before the event points to it. *)
Link(e) ==
    /\ intake[e] = "link"
    /\ TrySql(Events!SetDispatched(e), event)
    /\ ToIntake(e, IF event' # event THEN "enqueue" ELSE "undo")
    /\ UNCHANGED <<task, worker, queue, jobVars, ctx, wrote, found, wb>>

Abort(e) ==
    /\ intake[e] = "abort"
    /\ TrySql(Events!SetFailed(e), event)
    /\ ToIntake(e, "idle")
    /\ UNCHANGED <<task, worker, queue, jobVars, ctx, wrote, found, wb>>

Undo(e) ==
    /\ intake[e] = "undo"
    /\ TrySql(Tasks!Fail(e), task)
    /\ ToIntake(e, "idle")
    /\ UNCHANGED <<event, worker, queue, jobVars, ctx, wrote, found, wb>>

(* A blocking send, given up when the five minutes of the context are over. *)
Enqueue(e) ==
    /\ intake[e] = "enqueue"
    /\ Offer(e)
    /\ ToIntake(e, "idle")
    /\ UNCHANGED <<task, event, worker, jobVars, ctx, faults, wrote, found, wb>>

-----------------------------------------------------------------------------
(* retryLoop and pendingLoop: a scan lists a task ... *)
ScanRetries(t) ==
    /\ ctx = "live"
    /\ Tasks!ReadyForRetry(t)
    /\ found' = found \cup {<<"retry", t>>}
    /\ UNCHANGED <<dispatchVars, intake, wb>>

ScanPendingOnly(t) ==  \* a variant: stale dispatches are not listed
    /\ ctx = "live"
    /\ task[t].state = "pending" /\ task[t].retry # "later"
    /\ found' = found \cup {<<"pending", t>>}
    /\ UNCHANGED <<dispatchVars, intake, wb>>

ScanPending(t) ==
    /\ ctx = "live"
    /\ task[t].state \in Tasks!Active /\ task[t].retry # "later"
    /\ task[t].state = "dispatched" => task[t].old
    /\ found' = found \cup {<<"pending", t>>}
    /\ UNCHANGED <<dispatchVars, intake, wb>>

(* ... and sends it later, whatever has become of it, if there is room.    *)
SendFound(s, t) ==
    /\ ctx = "live" /\ <<s, t>> \in found
    /\ found' = found \ {<<s, t>>}
    /\ Offer(t)
    /\ UNCHANGED <<task, event, worker, jobVars, ctx, faults, wrote, intake, wb>>

(* HasCompletedDedup: the key is unique, so the completed task it finds is *)
(* the listed one itself, and the Fail that follows changes nothing.       *)
SkipFound(s, t) ==
    /\ ctx = "live" /\ <<s, t>> \in found
    /\ s # "retry" /\ t \in Event /\ task[t].state = "completed"
    /\ found' = found \ {<<s, t>>}
    /\ UNCHANGED <<dispatchVars, intake, wb>>

-----------------------------------------------------------------------------
(* writeBackRetryLoop (writeback_retry.go). *)
WriteBackDeadLetter(e) ==
    /\ ctx = "live" /\ wb[e] = "idle"
    /\ event[e].state = "write_back_failed" /\ event[e].attempts >= MaxWriteBack
    /\ Events!SetFailed(e)
    /\ UNCHANGED <<task, worker, queue, jobVars, ctx, faults, wrote, intakeVars>>

ScanWriteBack(e) ==
    /\ ctx = "live" /\ wb[e] = "idle"
    /\ event[e].state = "write_back_failed" /\ event[e].attempts < MaxWriteBack
    /\ wb' = [wb EXCEPT ![e] = "send"]
    /\ UNCHANGED <<dispatchVars, found, intake>>

RepeatWriteBack(e) ==
    /\ wb[e] = "send"
    /\ \E r \in {"ok", "failed"} : /\ r = "ok" => ctx = "live"
                                  /\ wb' = [wb EXCEPT ![e] = r]
    /\ UNCHANGED <<dispatchVars, found, intake>>

RecordWriteBack(e) ==
    /\ wb[e] \in {"ok", "failed"}
    /\ TryCtx(IF wb[e] = "ok" THEN Events!SetWriteBackCompleted(e)
                              ELSE Events!SetWriteBackFailed(e), event)
    /\ wb' = [wb EXCEPT ![e] = "idle"]
    /\ UNCHANGED <<task, worker, queue, jobVars, ctx, wrote, found, intake>>

-----------------------------------------------------------------------------
(* The memory of the process is gone; recoverTasks lists every open row and *)
(* recoverEvents every event not yet matched.                               *)
Boot ==
    /\ queue' = <<>>
    /\ pc' = [j \in Job |-> "idle"]  /\ on' = [j \in Job |-> NoTask]
    /\ saw' = [j \in Job |-> FALSE]  /\ tries' = [j \in Job |-> 0]
    /\ ctx' = "live"
    /\ found' = {"recover"} \X Tasks!Pending
    /\ intake' = [t \in Task |-> IF t \in Event /\ event[t].state = "received"
                                 THEN "stuck" ELSE "idle"]
    /\ wb' = [e \in Event |-> "idle"]
    /\ UNCHANGED <<task, event, worker, wrote>>

Crash == Fault /\ Boot

(* SIGTERM cancels the context of the loops and of the running dispatches. *)
Shutdown ==
    /\ ctx = "live" /\ Fault
    /\ ctx' = "cancelled" /\ found' = {}
    /\ UNCHANGED <<task, event, worker, queue, jobVars, wrote, intake, wb>>

(* Start waits for handlers and dispatches, not for webhook goroutines. *)
Restart ==
    /\ ctx = "cancelled"
    /\ \A j \in Job : pc[j] = "idle"
    /\ \A t \in Task \ Event : intake[t] = "idle"
    /\ Boot /\ UNCHANGED faults

(* A recovered event is matched again, or failed if its source is gone. *)
RecoverEvent(e) ==
    /\ intake[e] = "stuck" /\ ctx = "live"
    /\ \A t \in Task : <<"recover", t>> \notin found
    /\ \/ ToIntake(e, "match") /\ UNCHANGED <<event, faults>>
       \/ TryCtx(Events!SetFailed(e), event) /\ ToIntake(e, "idle")
    /\ UNCHANGED <<task, worker, queue, jobVars, ctx, wrote, found, wb>>

-----------------------------------------------------------------------------
(* The Reload at the head of matchAndHydrate reads what an operator has    *)
(* made of the worker with the command line, which refuses to touch one it *)
(* sees busy: it is started or removed.  (One that is merely stopped is    *)
(* treated as one in error is.  A command that has seen the worker before  *)
(* it became busy, and overwrites it, is not modelled here.)               *)
Reload(w) ==
    /\ worker[w] # "busy"
    /\ \E s \in {"absent", "online"} : worker' = [worker EXCEPT ![w] = s]
    /\ UNCHANGED <<task, event, queue, jobVars, ctx, faults, wrote, intakeVars>>

(* Time passes.  A row written by a goroutine still at work grows old only *)
(* if the worker may take longer than staleDispatchTimeout.                *)
Backoff(t) ==
    /\ Tasks!BackoffElapses(t)
    /\ UNCHANGED <<event, worker, queue, jobVars, ctx, faults, wrote, intakeVars>>

MarkedBy(j, t) == on[j] = t /\ saw[j] /\ pc[j] \notin {"route", "mark"}

Age(t) ==
    /\ t \in Slow \/ \A j \in Job : ~MarkedBy(j, t)
    /\ Tasks!GrowsOld(t)
    /\ UNCHANGED <<event, worker, queue, jobVars, ctx, faults, wrote, intakeVars>>

-----------------------------------------------------------------------------
Init == /\ DispatchInit
        /\ found = {}
        /\ intake = [t \in Task |-> "idle"]
        /\ wb = [e \in Event |-> "idle"]

IntakeStep(t) ==
    \/ OfferTask(t) \/ Overflow(t)
    \/ t \in Event /\ (\/ Match(t) \/ CreateTask(t) \/ Link(t) \/ Abort(t)
                       \/ Undo(t)  \/ Enqueue(t)    \/ RecoverEvent(t))

WriteBackLoop(e) == \/ WriteBackDeadLetter(e) \/ ScanWriteBack(e)
                    \/ RepeatWriteBack(e)     \/ RecordWriteBack(e)

Scan(t) == \/ ScanRetries(t) \/ ScanPending(t)
           \/ \E s \in Scanner : SendFound(s, t) \/ SkipFound(s, t)

Next == \/ DispatchNext /\ UNCHANGED intakeVars
        \/ \E t \in Task : \/ PostTask(t) \/ IntakeStep(t) \/ Scan(t)
                           \/ Backoff(t) \/ Age(t)
        \/ \E e \in Event : Webhook(e) \/ WriteBackLoop(e)
        \/ \E w \in Persistent : Reload(w)
        \/ Crash \/ Shutdown \/ Restart

Spec == Init /\ [][Next]_vars

(* Fairness.  A goroutine that can go on does (every request to a worker,  *)
(* a platform or SQLite has a timeout), the scan loops tick for ever, time *)
(* passes, the limiter's bucket refills while its worker is asked for, and *)
(* a server that was shut down is started again.  Nothing is assumed of    *)
(* requests, webhooks, operators, panics and crashes.                      *)
Admit(j) == Claim(j) /\ pc'[j] = "send" /\ UNCHANGED intakeVars

FairSpec ==
    /\ Spec
    /\ \A j \in Job : /\ WF_vars(Take(j) /\ UNCHANGED intakeVars)
                      /\ WF_vars(Step(j) /\ UNCHANGED intakeVars)
                      /\ SF_vars(Admit(j))
    /\ \A t \in Task : /\ WF_vars(IntakeStep(t))
                       /\ WF_vars(ScanRetries(t)) /\ WF_vars(ScanPending(t))
                       /\ WF_vars(\E s \in Scanner : SendFound(s, t) \/ SkipFound(s, t))
                       /\ WF_vars(Backoff(t)) /\ WF_vars(Age(t))
    /\ \A e \in Event : WF_vars(WriteBackLoop(e))
    /\ WF_vars(Restart)

-----------------------------------------------------------------------------
(* Safety. *)

(* The types of the variables (DispatchTypeOK, and those of this module). *)
TypeOK == /\ DispatchTypeOK
          /\ found \subseteq Scanner \X Task
          /\ intake \in [Task -> IntakePC]
          /\ wb \in [Event -> {"idle", "send", "ok", "failed"}]

(* A persistent worker is given one task at a time, however often the loops *)
(* put the same or other ids into the channel: what SetBusy in dispatchTask *)
(* is for ("prevents concurrent dispatch").                                 *)
SingleFlight ==
    \A j, k \in Job : Holding(j) /\ Holding(k) /\ W(j) = W(k) => j = k

(* The first write-back of a task's result is made once at most, and only   *)
(* once the task is durably completed, although the prompt itself may run   *)
(* several times (the order of Complete and doWriteBack in dispatchTask).   *)
WriteBackOnce ==
    \A e \in Event : /\ wrote[e] <= 1
                     /\ wrote[e] = 1 => task[e].state = "completed"

(* An open task has attempts left, and no task is charged more than         *)
(* max_retries of them, although RetryOrFail computes the new count from a  *)
(* row it read earlier and several goroutines may run the same task.        *)
RetryBudget ==
    \A t \in Task : /\ task[t].attempts <= MaxRetries
                    /\ task[t].state \in Tasks!Active
                          => task[t].attempts < MaxRetries

(* An event claims a result only if its task has one: `completed' and       *)
(* `write_back_failed' are reached only after tasks.Complete has succeeded. *)
EventFollowsTask ==
    \A e \in Event :
        event[e].state \in {"completed", "write_back_failed"}
            => task[e].state = "completed"

(* A goroutine never lets go of a worker that is still busy, on any of its  *)
(* return paths or in a panic, unless the process dies or SetOnline itself  *)
(* fails (workerRestored and the deferred safety net of dispatchTask).      *)
WorkerHandedBack ==
    [][\A j \in Job : Holding(j) /\ ~Holding(j)' /\ worker'[W(j)] = "busy"
                        => Crash \/ Release(j)]_vars

(* An event is orphaned when its task has ended and nobody is on the way to *)
(* tell it: no loop ever looks for such an event.                           *)
Tells(j, e) == on[j] = e /\ pc[j] \in Telling \cup {"unhold", "release"}

Orphaned(e) == /\ event[e].state = "dispatched" /\ task[e].state \in Tasks!Settled
               /\ \A j \in Job : ~Tells(j, e)

(* Without a fault, and until the server is stopped, that happens in two    *)
(* ways only: the task is given up for a worker that is unknown or refuses  *)
(* SetBusy (dispatch.go:65, 102), or it had already ended when the webhook  *)
(* points the event to it (webhook.go:172).                                 *)
OrphanedOnlyBy ==
    [][\A e \in Event :
          ~Orphaned(e) /\ Orphaned(e)' /\ UNCHANGED faults /\ ctx = "live"
          => \/ \E j \in Job : on[j] = e /\ pc[j] \in {"unknown", "clash"}
             \/ Link(e)]_vars

(* An event whose task is completed is failed only by the dead letter of    *)
(* its write-back, or by a goroutine that was given the same task once      *)
(* more; nothing on the way from the webhook to the task does it.           *)
FailedOnlyBy ==
    [][\A e \in Event :
          /\ task[e].state = "completed"
          /\ event[e].state # "failed" /\ event'[e].state = "failed"
          => \/ WriteBackDeadLetter(e)
             \/ \E j \in Job : on[j] = e /\ pc[j] \in {"dead", "disown"}]_vars

(* The server implements TaskContract, where a task is open while its row   *)
(* is pending or dispatched.                                                *)
Outcome == [t \in Task |-> CASE task[t].state = "absent" -> "none"
                            [] task[t].state \in Tasks!Active -> "open"
                            [] OTHER -> task[t].state]

Contract == INSTANCE TaskContract WITH outcome <- Outcome

ImplementsContract == Contract!Spec

-----------------------------------------------------------------------------
(* Liveness, under FairSpec. *)

(* Whatever was lost on the way (a full channel, a panic, a crash, a refused *)
(* requeue), the scans and the recovery bring every accepted task to an end. *)
EveryTaskSettles ==
    \A t \in Task : task[t].state \in Tasks!Active
                        ~> task[t].state \in Tasks!Settled

(* writeBackRetryLoop ends: a failed write-back is repeated until it works *)
(* or writeBackMaxAttempts is reached, never for ever.                     *)
WriteBackSettles ==
    \A e \in Event : event[e].state = "write_back_failed"
                         ~> event[e].state \in {"completed", "failed"}
=============================================================================
