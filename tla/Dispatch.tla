------------------------------ MODULE Dispatch ------------------------------
(***************************************************************************)
(* internal/serve/dispatch.go and disposable.go: the goroutines that take  *)
(* task ids from the in-memory channel and run them on workers.            *)
(*                                                                         *)
(* A goroutine is a Job.  Between two of its steps anything else in the    *)
(* process may run, so each step is one access to shared state: a SQL      *)
(* statement, a registry operation, a channel operation, or a call to the  *)
(* worker or the platform.                                                 *)
(***************************************************************************)
EXTENDS Naturals, Sequences

CONSTANTS Task, Event,   \* task ids; a webhook's task is named by its event
          Job,           \* the maxConcurrentDispatches slots of dispatchLoop
          Persistent,    \* registered workers with an endpoint of their own
          Disposable,    \* registered workers with a container per task
          WorkerOf,      \* the worker each task is for
          QueueCap,      \* capacity of the channel s.pending
          MaxRetries, MaxWriteBack,
          MaxFaults,     \* bound on crashes, shutdowns, panics and SQL errors
          NoTask

ASSUME DispatchAssumption ==
    /\ Event \subseteq Task
    /\ NoTask \notin Task
    /\ WorkerOf \in [Task -> Persistent \cup Disposable]
    /\ QueueCap \in Nat \ {0}
    /\ MaxRetries \in Nat \ {0}
    /\ MaxWriteBack \in Nat
    /\ MaxFaults \in Nat

VARIABLES
    task, event,
    worker,   \* state of each persistent worker in the registry
    queue,    \* the channel s.pending
    pc, on,   \* where each job is, and the task it runs
    saw,      \* the job's copy of the row said `pending'
    tries,    \* the attempts RetryOrFail has read
    ctx,      \* the server's context: "live", or "cancelled" by SIGTERM
    faults,   \* faults so far
    wrote     \* history: first write-backs made for each event

Tasks  == INSTANCE TaskStore
Events == INSTANCE EventStore

jobVars == <<pc, on, saw, tries>>
dispatchVars == <<task, event, worker, queue, jobVars, ctx, faults, wrote>>

WorkerState == {"absent", "offline", "online", "busy", "error"}

-----------------------------------------------------------------------------
(* Registry transitions (workers.Registry); total, like the SQL statements. *)
SetWorker(w, from, to) ==
    worker' = IF worker[w] \in from THEN [worker EXCEPT ![w] = to] ELSE worker

SetBusy(w)   == SetWorker(w, {"online"}, "busy")
SetOnline(w) == SetWorker(w, {"busy"}, "online")
SetError(w)  == SetWorker(w, WorkerState \ {"absent"}, "error")

UnboundedOffer(t) == queue' = Append(queue, t)  \* a variant

(* A send on the channel that gives up when it is full. *)
Offer(t) == queue' = IF Len(queue) < QueueCap THEN Append(queue, t) ELSE queue

-----------------------------------------------------------------------------
(* Failing statements.  One run under the server's context fails for sure  *)
(* once that is cancelled; any statement may fail on SQLITE_BUSY.          *)
Fault == faults < MaxFaults /\ faults' = faults + 1

CtxError == \/ ctx = "cancelled" /\ UNCHANGED faults
            \/ ctx = "live" /\ Fault

TrySql(A, v) == \/ A /\ UNCHANGED faults
                \/ Fault /\ UNCHANGED v

TryCtx(A, v) == \/ ctx = "live" /\ A /\ UNCHANGED faults
                \/ CtxError /\ UNCHANGED v

-----------------------------------------------------------------------------
(* Control of a job. *)
IsPersistent(j) == WorkerOf[on[j]] \in Persistent
W(j) == WorkerOf[on[j]]

(* After SetBusy and before the worker is handed back. *)
Held == {"send", "retry", "dead", "blame", "yield", "unhold", "restore", "release"}
(* SetOnline is still to come, from the deferred safety net. *)
Guarded == {"send", "retry", "dead", "blame"}
(* completeEvent, doWriteBack: they return at once if there is no event. *)
Telling == {"dead", "disown", "write", "done", "defer"}

PC == Held \cup Telling \cup {"idle", "get", "route", "unknown", "refuse",
                              "mark", "claim", "clash", "requeue"}

Holding(j) == pc[j] \in Held /\ IsPersistent(j)

Finish(j) == /\ pc'    = [pc    EXCEPT ![j] = "idle"]
             /\ on'    = [on    EXCEPT ![j] = NoTask]
             /\ saw'   = [saw   EXCEPT ![j] = FALSE]
             /\ tries' = [tries EXCEPT ![j] = 0]

NoBlame(j) == "idle"  \* a variant: the worker is forgotten

AfterRetry(j) == IF IsPersistent(j) THEN "blame" ELSE "idle"

Target(j, l) == IF on[j] \in Event \/ l \notin Telling THEN l
                ELSE IF l = "dead" THEN AfterRetry(j) ELSE "idle"

Goto(j, l) == IF Target(j, l) = "idle"
              THEN Finish(j)
              ELSE /\ pc' = [pc EXCEPT ![j] = Target(j, l)]
                   /\ UNCHANGED <<on, saw, tries>>

-----------------------------------------------------------------------------
(* dispatchLoop: a slot is free and an id is in the channel.  Its select    *)
(* may still choose the channel when the context is cancelled as well.     *)
Take(j) == /\ pc[j] = "idle" /\ queue # <<>>
           /\ on' = [on EXCEPT ![j] = Head(queue)]
           /\ queue' = Tail(queue)
           /\ pc' = [pc EXCEPT ![j] = "get"]
           /\ UNCHANGED <<task, event, worker, saw, tries, ctx, faults, wrote>>

(* s.tasks.Get; on an error the id is dropped. *)
GetTask(j) ==
    /\ pc[j] = "get"
    /\ \/ /\ ctx = "live"
          /\ pc' = [pc EXCEPT ![j] = "route"]
          /\ saw' = [saw EXCEPT ![j] = task[on[j]].state = "pending"]
          /\ UNCHANGED <<on, tries, faults>>
       \/ CtxError /\ Finish(j)
    /\ UNCHANGED <<task, event, worker, queue, ctx, wrote>>

(* s.reg.Get and the checks on the entry it returns: of a disposable worker *)
(* only that there is one.                                                  *)
Route(j) ==
    /\ pc[j] = "route"
    /\ \/ ~IsPersistent(j) /\ \E l \in {"mark", "unknown"} : Goto(j, l)
       \/ /\ IsPersistent(j)
          /\ Goto(j, CASE worker[W(j)] = "online" -> "mark"
                       [] worker[W(j)] = "absent" -> "unknown"
                       [] OTHER                   -> "refuse")
    /\ UNCHANGED <<task, event, worker, queue, ctx, faults, wrote>>

(* A variant: the safety net is deferred before SetBusy has succeeded. *)
RefuseAndRelease(j) ==
    /\ pc[j] \in {"unknown", "refuse", "clash"}
    /\ TryCtx(Tasks!Fail(on[j]), task)
    /\ IF pc[j] = "clash" THEN SetOnline(W(j)) ELSE UNCHANGED worker
    /\ Goto(j, IF pc[j] = "refuse" THEN "disown" ELSE "idle")
    /\ UNCHANGED <<event, queue, ctx, wrote>>

SilentRefuse(j) ==  \* a variant: the event is not told
    /\ pc[j] \in {"unknown", "refuse", "clash"}
    /\ TryCtx(Tasks!Fail(on[j]), task)
    /\ Finish(j)
    /\ UNCHANGED <<event, worker, queue, ctx, wrote>>

(* The task is given up before it reaches a worker: an unknown worker, one *)
(* that is not online, or one that SetBusy refused.                        *)
Refuse(j) ==
    /\ pc[j] \in {"unknown", "refuse", "clash"}
    /\ TryCtx(Tasks!Fail(on[j]), task)
    /\ Goto(j, IF pc[j] = "refuse" THEN "disown" ELSE "idle")
    /\ UNCHANGED <<event, worker, queue, ctx, wrote>>

(* A row that was read as anything but pending is not marked again. *)
Mark(j) ==
    LET go == IF IsPersistent(j) THEN "claim" ELSE "send"
    IN  /\ pc[j] = "mark"
        /\ IF saw[j]
           THEN /\ TryCtx(Tasks!SetDispatched(on[j]), task)
                /\ Goto(j, IF task' # task THEN go ELSE "idle")
           ELSE Goto(j, go) /\ UNCHANGED <<task, faults>>
        /\ UNCHANGED <<event, worker, queue, ctx, wrote>>

(* A variant: the error of SetBusy is only logged. *)
ClaimAnyway(j) ==
    /\ pc[j] = "claim"
    /\ TrySql(SetBusy(W(j)), worker)
    /\ \E l \in {"send", "yield"} : Goto(j, l)
    /\ UNCHANGED <<task, event, queue, ctx, wrote>>

(* SetBusy, then s.limiter.Allow, which may say no. *)
Claim(j) ==
    /\ pc[j] = "claim"
    /\ TrySql(SetBusy(W(j)), worker)
    /\ \E l \in IF worker' # worker THEN {"send", "yield"} ELSE {"clash"} :
          Goto(j, l)
    /\ UNCHANGED <<task, event, queue, ctx, wrote>>

(* Back in the channel after half a second, if it has room. *)
Requeue(j) ==
    /\ pc[j] = "requeue"
    /\ Offer(on[j])
    /\ Finish(j)
    /\ UNCHANGED <<task, event, worker, ctx, faults, wrote>>

-----------------------------------------------------------------------------
(* While pc[j] = "send" the request is with the worker (for a disposable   *)
(* one, the container is made first).  Which of the three answers it gets  *)
(* is decided when the answer is acted on.                                 *)

(* A variant: the error of Complete is only logged. *)
CompleteAnyway(j) ==
    /\ pc[j] = "send"
    /\ TryCtx(Tasks!Complete(on[j]), task)
    /\ Goto(j, IF IsPersistent(j) THEN "release" ELSE "write")
    /\ UNCHANGED <<event, worker, queue, ctx, wrote>>

(* A result: the task is completed before anything is written back. *)
CompleteTask(j) ==
    /\ pc[j] = "send"
    /\ TryCtx(Tasks!Complete(on[j]), task)
    /\ Goto(j, IF task' # task
               THEN IF IsPersistent(j) THEN "release" ELSE "write"
               ELSE IF IsPersistent(j) THEN "restore" ELSE "idle")
    /\ UNCHANGED <<event, worker, queue, ctx, wrote>>

(* An error that is not worth a retry (the cancelled context, a container  *)
(* that did not start).                                                    *)
RejectTask(j) ==
    /\ pc[j] = "send"
    /\ TryCtx(Tasks!Fail(on[j]), task)
    /\ Goto(j, IF IsPersistent(j) THEN "unhold" ELSE "disown")
    /\ UNCHANGED <<event, worker, queue, ctx, wrote>>

(* A transport error: RetryOrFail reads the row, then writes it.  If either *)
(* fails, the caller takes the task for dead-lettered.                      *)
ReadAttempts(j) ==
    /\ pc[j] = "send"
    /\ \/ /\ ctx = "live"
          /\ tries' = [tries EXCEPT ![j] = task[on[j]].attempts]
          /\ pc' = [pc EXCEPT ![j] = "retry"]
          /\ UNCHANGED <<on, saw, faults>>
       \/ CtxError /\ Goto(j, "dead")
    /\ UNCHANGED <<task, event, worker, queue, ctx, wrote>>

RetryOrFail(j) ==
    /\ pc[j] = "retry"
    /\ \/ /\ ctx = "live"
          /\ Tasks!RetryOrFail(on[j], tries[j])
          /\ Goto(j, IF Tasks!Retried(tries[j]) THEN AfterRetry(j) ELSE "dead")
          /\ UNCHANGED faults
       \/ CtxError /\ Goto(j, "dead") /\ UNCHANGED task
    /\ UNCHANGED <<event, worker, queue, ctx, wrote>>

(* Then the worker is put in error or, when even that fails, left to the   *)
(* deferred SetOnline.                                                     *)
Blame(j) ==
    /\ pc[j] = "blame"
    /\ \/ SetError(W(j)) /\ Finish(j) /\ UNCHANGED faults
       \/ Fault /\ Goto(j, "restore") /\ UNCHANGED worker
    /\ UNCHANGED <<task, event, queue, ctx, wrote>>

(* SetOnline, wherever it is called; its error is only logged. *)
AfterRelease == [yield   |-> "requeue", unhold  |-> "disown",
                 restore |-> "idle",    release |-> "write"]

Release(j) ==
    /\ pc[j] \in DOMAIN AfterRelease
    /\ TrySql(SetOnline(W(j)), worker)
    /\ Goto(j, AfterRelease[pc[j]])
    /\ UNCHANGED <<task, event, queue, ctx, wrote>>

(* doWriteBack: the event is read, the policy applied, and the platform's  *)
(* responder called.                                                       *)
WriteBack(j) ==
    /\ pc[j] = "write"
    /\ \/ /\ ctx = "live"
          /\ wrote' = [wrote EXCEPT ![on[j]] = @ + 1]
          /\ \E l \in {"done", "defer"} : Goto(j, l)
          /\ UNCHANGED faults
       \/ CtxError /\ Goto(j, "defer") /\ UNCHANGED wrote
    /\ UNCHANGED <<task, event, worker, queue, ctx>>

FailUnwritten(j) ==  \* a variant: a failed write-back is not put off
    /\ pc[j] \in {"done", "defer", "dead", "disown"}
    /\ TryCtx(IF pc[j] = "done" THEN Events!SetCompleted(on[j])
                                ELSE Events!SetFailed(on[j]), event)
    /\ Goto(j, IF pc[j] = "dead" THEN AfterRetry(j) ELSE "idle")
    /\ UNCHANGED <<task, worker, queue, ctx, wrote>>

(* completeEvent(true), SetWriteBackFailed, or completeEvent(false). *)
CompleteEvent(j) ==
    /\ pc[j] \in {"done", "defer", "dead", "disown"}
    /\ TryCtx(CASE pc[j] = "done"  -> Events!SetCompleted(on[j])
                [] pc[j] = "defer" -> Events!SetWriteBackFailed(on[j])
                [] OTHER           -> Events!SetFailed(on[j]), event)
    /\ Goto(j, IF pc[j] = "dead" THEN AfterRetry(j) ELSE "idle")
    /\ UNCHANGED <<task, worker, queue, ctx, wrote>>

(* A panic is recovered at the top of the goroutine, after the deferred    *)
(* safety net has put a worker that is still held back online.             *)
Panic(j) ==
    /\ pc[j] \notin {"idle", "yield", "unhold", "restore", "release"}
    /\ Fault
    /\ IF pc[j] \in Guarded /\ IsPersistent(j) THEN Goto(j, "restore") ELSE Finish(j)
    /\ UNCHANGED <<task, event, worker, queue, ctx, wrote>>

(* What a goroutine does next of its own accord. *)
Step(j) ==
    \/ GetTask(j)    \/ Route(j)        \/ Refuse(j)      \/ Mark(j)
    \/ Claim(j)      \/ Requeue(j)      \/ CompleteTask(j) \/ RejectTask(j)
    \/ ReadAttempts(j) \/ RetryOrFail(j) \/ Blame(j)      \/ Release(j)
    \/ WriteBack(j)  \/ CompleteEvent(j)

DispatchNext == \E j \in Job : Take(j) \/ Step(j) \/ Panic(j)

-----------------------------------------------------------------------------
DispatchInit ==
    /\ Tasks!Init /\ Events!Init
    /\ worker \in [Persistent -> {"absent", "offline", "online"}]
    /\ queue = <<>>
    /\ pc = [j \in Job |-> "idle"]
    /\ on = [j \in Job |-> NoTask]
    /\ saw = [j \in Job |-> FALSE]
    /\ tries = [j \in Job |-> 0]
    /\ ctx = "live"
    /\ faults = 0
    /\ wrote = [e \in Event |-> 0]

DispatchTypeOK ==
    /\ task \in [Task -> Tasks!TaskRow]
    /\ event \in [Event -> Events!EventRow]
    /\ worker \in [Persistent -> WorkerState]
    /\ queue \in Seq(Task) /\ Len(queue) <= QueueCap
    /\ pc \in [Job -> PC]
    /\ on \in [Job -> Task \cup {NoTask}]
    /\ \A j \in Job : pc[j] = "idle" <=> on[j] = NoTask
    /\ saw \in [Job -> BOOLEAN]
    /\ tries \in [Job -> Nat]
    /\ ctx \in {"live", "cancelled"}
    /\ faults \in Nat
    /\ wrote \in [Event -> Nat]
=============================================================================
