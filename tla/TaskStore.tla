------------------------------ MODULE TaskStore ------------------------------
(***************************************************************************)
(* internal/tasks: the SQLite table of tasks.                              *)
(*                                                                         *)
(* Every operation of the Go store is one guarded UPDATE or INSERT and is  *)
(* atomic.  The guard is the statement's WHERE clause, so an operation is  *)
(* total: on a row in another state it changes nothing, and the Go method  *)
(* returns an error.  A caller recognises the error by task' = task.       *)
(* RetryOrFail is the exception: it SELECTs the row first, and its UPDATE  *)
(* writes an attempt count computed from that earlier read.                *)
(*                                                                         *)
(* Time is kept only as far as the code compares it: `retry' says whether  *)
(* next_retry_at is NULL, in the future or past, and `old' whether         *)
(* updated_at lies staleDispatchTimeout back.                              *)
(***************************************************************************)
EXTENDS Naturals

CONSTANTS Task,       \* task ids
          MaxRetries  \* column max_retries (3 unless the row says otherwise)

VARIABLE task         \* the rows of table tasks

Active  == {"pending", "dispatched"}
Settled == {"completed", "failed"}

TaskRow == [state    : {"absent"} \cup Active \cup Settled,
            attempts : Nat,
            retry    : {"none", "later", "due"},
            old      : BOOLEAN]

Init == task = [t \in Task |-> [state    |-> "absent",
                                attempts |-> 0,
                                retry    |-> "none",
                                old      |-> FALSE]]

-----------------------------------------------------------------------------
(* Every statement that writes a row also sets updated_at to now. *)
Write(t, state, attempts, retry) ==
    task' = [task EXCEPT ![t] = [state    |-> state,
                                 attempts |-> attempts,
                                 retry    |-> retry,
                                 old      |-> FALSE]]

(* UPDATE tasks SET state = to WHERE id = t AND state IN from. *)
Update(t, from, to) ==
    IF task[t].state \in from
    THEN Write(t, to, task[t].attempts, task[t].retry)
    ELSE task' = task

(* Variants that a run must tell from the code: a dispatch that ignores the *)
(* state of the row, a failure that overrides a completion.                *)
SetDispatchedAnyState(t) == Update(t, {"pending", "failed"}, "dispatched")
FailAnyState(t)          == Update(t, Active \cup {"completed"}, "failed")

(* The unique dedup_key <event>:<worker> makes a second insert an error. *)
CreateWithEvent(t) == Update(t, {"absent"}, "pending")
SetDispatched(t)   == Update(t, {"pending"}, "dispatched")
Complete(t)        == Update(t, {"dispatched"}, "completed")
Fail(t)            == Update(t, Active, "failed")

(* RetryOrFail after its SELECT returned `seen' attempts: the last attempt *)
(* dead-letters the task, an earlier one puts it back with a backoff.      *)
OneRetryTooMany(seen) == seen + 1 <= MaxRetries  \* a variant

Retried(seen) == seen + 1 < MaxRetries

(* A variant: the UPDATE without "AND state IN (pending, dispatched)". *)
RetryAnyState(t, seen) ==
    IF Retried(seen) THEN Write(t, "pending", seen + 1, "later")
                     ELSE Write(t, "failed",  seen + 1, task[t].retry)

RetryOrFail(t, seen) ==
    IF task[t].state \in Active
    THEN IF Retried(seen) THEN Write(t, "pending", seen + 1, "later")
                          ELSE Write(t, "failed",  seen + 1, task[t].retry)
    ELSE task' = task

Pending          == {t \in Task : task[t].state \in Active}
ReadyForRetry(t) == task[t].state = "pending" /\ task[t].retry = "due"

-----------------------------------------------------------------------------
(* The passage of time. *)
BackoffElapses(t) == /\ task[t].retry = "later"
                     /\ task' = [task EXCEPT ![t].retry = "due"]

GrowsOld(t) == /\ task[t].state = "dispatched" /\ ~task[t].old
               /\ task' = [task EXCEPT ![t].old = TRUE]
=============================================================================
