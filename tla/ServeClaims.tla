----------------------------- MODULE ServeClaims -----------------------------
(***************************************************************************)
(* What comments and guides of the repository say of the server and its    *)
(* code does not do.  TLC refutes each of these on a run of its own.       *)
(***************************************************************************)
EXTENDS Serve

(* "StateBusy means the worker is executing a task"                         *)
(* (internal/workers/types.go:13): some goroutine holds a busy worker.      *)
BusyMeansExecuting ==
    \A w \in Persistent :
        worker[w] = "busy" => \E j \in Job : Holding(j) /\ W(j) = w

(* "Transport errors [...] trigger automatic retry with exponential        *)
(* backoff [...] Tasks that exhaust all retries are dead-lettered"         *)
(* (website/guide/server.md:77,86): a task put back for a retry is not     *)
(* failed before the retry has reached its worker.                         *)
RetryReachesWorker ==
    [][\A j \in Job : pc[j] = "refuse" /\ task[on[j]].retry = "due"
                        => task'[on[j]].state # "failed"]_vars

(* "This loop fixes the silent data-loss bug where a transient write-back  *)
(* error [...] would permanently orphan an event in "dispatched" state     *)
(* with no recovery path" (internal/serve/writeback_retry.go:18-20).       *)
EventNotOrphaned ==
    \A e \in Event :
        event[e].state = "dispatched" /\ (\E j \in Job : on[j] = e /\ pc[j] = "defer")
            ~> event[e].state # "dispatched"

(* "In-flight dispatches drain" (website/guide/server.md:185): a request   *)
(* that ends after SIGTERM leaves its task settled or put back for retry.  *)
DrainRecordsResult ==
    [][\A j \in Job :
         (/\ pc[j] = "send" /\ pc'[j] \notin {"send", "retry"}
          /\ ctx = "cancelled" /\ ctx' = "cancelled"
          /\ task[on[j]].state = "dispatched")
             => task'[on[j]].state # "dispatched"]_vars
=============================================================================
