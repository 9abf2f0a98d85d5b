---------------------------- MODULE TaskContract ----------------------------
(***************************************************************************)
(* What the server promises whoever hands it a task: it is accepted once,  *)
(* it ends at most once and then keeps its outcome, and the result of a    *)
(* completed task is written back to the platform by the goroutine that    *)
(* ran it at most once, and never before the completion is durable         *)
(* (internal/serve/dispatch.go:186-189).  Serve implements this.           *)
(***************************************************************************)
EXTENDS Naturals

CONSTANTS Task, Event

VARIABLES outcome,  \* of each task
          wrote     \* write-backs made for each event's task

contractVars == <<outcome, wrote>>

Init == /\ outcome = [t \in Task |-> "none"]
        /\ wrote = [e \in Event |-> 0]

Accept(t) == /\ outcome[t] = "none"
             /\ outcome' = [outcome EXCEPT ![t] = "open"]
             /\ UNCHANGED wrote

Settle(t) == /\ outcome[t] = "open"
             /\ \E o \in {"completed", "failed"} :
                   outcome' = [outcome EXCEPT ![t] = o]
             /\ UNCHANGED wrote

WriteBack(e) == /\ outcome[e] = "completed" /\ wrote[e] = 0
                /\ wrote' = [wrote EXCEPT ![e] = 1]
                /\ UNCHANGED outcome

Next == \/ \E t \in Task : Accept(t) \/ Settle(t)
        \/ \E e \in Event : WriteBack(e)

Spec == Init /\ [][Next]_contractVars
=============================================================================
