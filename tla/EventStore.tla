----------------------------- MODULE EventStore -----------------------------
(***************************************************************************)
(* internal/events: the SQLite table of webhook and cron events.           *)
(*                                                                         *)
(* As in TaskStore, an operation is one UPDATE whose WHERE clause names    *)
(* the states it applies to; on any other row it changes nothing and the   *)
(* Go method returns an error (event' = event).                            *)
(***************************************************************************)
EXTENDS Naturals

CONSTANTS Event,       \* event ids
          MaxWriteBack \* writeBackMaxAttempts

VARIABLE event         \* the rows of table events

EventState == {"absent", "received", "matched", "dispatched", "completed",
               "failed", "skipped", "write_back_failed"}

EventRow == [state : EventState, attempts : Nat]  \* column write_back_attempts

Init == event = [e \in Event |-> [state |-> "absent", attempts |-> 0]]

-----------------------------------------------------------------------------
Transition(e, from, to) ==
    event' = IF event[e].state \in from
             THEN [event EXCEPT ![e].state = to]
             ELSE event

Create(e)        == Transition(e, {"absent"}, "received")
SetMatched(e)    == Transition(e, {"received"}, "matched")
SetDispatched(e) == Transition(e, {"matched"}, "dispatched")
SetCompleted(e)  == Transition(e, {"dispatched"}, "completed")
SetSkipped(e)    == Transition(e, {"received"}, "skipped")
SetFailed(e)     == Transition(e, EventState \ {"absent", "completed", "skipped"},
                               "failed")
SetWriteBackCompleted(e) == Transition(e, {"write_back_failed"}, "completed")

UncountedWriteBackFailed(e) ==  \* a variant: the counter is forgotten
    Transition(e, {"dispatched", "write_back_failed"}, "write_back_failed")

(* Every call counts as one more attempt, the first included. *)
SetWriteBackFailed(e) ==
    event' = IF event[e].state \in {"dispatched", "write_back_failed"}
             THEN [event EXCEPT ![e] = [state    |-> "write_back_failed",
                                        attempts |-> @.attempts + 1]]
             ELSE event
=============================================================================
