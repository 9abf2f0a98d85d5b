------------------------------ MODULE Delivery ------------------------------
(***************************************************************************)
(* What the write-back promises a platform for the results of completed    *)
(* tasks: delivery at least once, in attempts of which each ends in one    *)
(* way (internal/serve/dispatch_policy.go:46-71, writeback_retry.go).  An  *)
(* event is written only when nothing of it is missing any more, and no    *)
(* attempt follows; no action is repeated unless an attempt failed or was  *)
(* never heard of again.  An action is one entry of the result: a label    *)
(* that a worker lists twice is two of them.  WriteBack implements this.   *)
(***************************************************************************)
EXTENDS Naturals, BagsExt

CONSTANTS Event, MaxAttempts

VARIABLES outcome,   \* of each event: "owed", "written" or "dropped"
          trying,    \* events with an attempt under way
          missing,   \* what such an attempt has still to see acknowledged
          done,      \* the bag of actions the platform has done
          recorded,  \* attempts known to have failed
          excused    \* attempts nobody knows the end of

deliveryVars == <<outcome, trying, missing, done, recorded, excused>>

Times(e, a) == IF a \in DOMAIN done[e] THEN done[e][a] ELSE 0

Init == /\ outcome = [e \in Event |-> "owed"]
        /\ trying = {}
        /\ missing = [e \in Event |-> {}]
        /\ done = [e \in Event |-> [a \in {} |-> 0]]
        /\ recorded = [e \in Event |-> 0]
        /\ excused = [e \in Event |-> 0]

(* What is asked of the platform may change from one attempt to the next.  *)
Try(e) == /\ e \notin trying /\ outcome[e] # "written" /\ recorded[e] < MaxAttempts
          /\ trying' = trying \cup {e}
          /\ UNCHANGED <<outcome, done, recorded, excused>>
          /\ missing' = [missing EXCEPT ![e] = missing'[e]]

(* Only what is missing is done, and only what is done is acknowledged.    *)
Perform(e) ==
    /\ e \in trying
    /\ UNCHANGED <<outcome, trying, recorded, excused>>
    /\ \E a \in missing[e] :
          /\ Times(e, a) < recorded[e] + excused[e] + 1
          /\ Times(e, a) < MaxAttempts + excused[e]
          /\ done' = [done EXCEPT ![e] = BagAdd(@, a)]
          /\ missing' \in {missing, [missing EXCEPT ![e] = @ \ {a}]}

(* The attempts of the events in S are over. *)
End(S) == /\ trying' = trying \ S
          /\ missing' = [e \in Event |-> IF e \in S THEN {} ELSE missing[e]]

Write(e) == /\ e \in trying /\ outcome[e] = "owed" /\ missing[e] = {}
            /\ outcome' = [outcome EXCEPT ![e] = "written"]
            /\ UNCHANGED <<done, recorded, excused>>
            /\ End({e})

Fail(e) == /\ e \in trying /\ outcome[e] = "owed"
           /\ recorded' = [recorded EXCEPT ![e] = @ + 1]
           /\ UNCHANGED <<outcome, done, excused>>
           /\ End({e})

(* An event may be given up at any time, also during an attempt. *)
Drop(e) == /\ outcome[e] = "owed"
           /\ outcome' = [outcome EXCEPT ![e] = "dropped"]
           /\ UNCHANGED <<trying, missing, done, recorded, excused>>

Abandon(e) == /\ e \in trying /\ outcome[e] = "dropped"
              /\ UNCHANGED <<outcome, done, recorded, excused>>
              /\ End({e})

Forget(S) == /\ excused' = [e \in Event |-> excused[e] + IF e \in S THEN 1 ELSE 0]
             /\ UNCHANGED <<outcome, done, recorded>>
             /\ End(S)

Next == \/ \E S \in SUBSET trying : Forget(S)
        \/ \E e \in Event : Try(e) \/ Perform(e) \/ Write(e) \/ Fail(e) \/ Drop(e) \/ Abandon(e)

Spec == Init /\ [][Next]_deliveryVars
=============================================================================
