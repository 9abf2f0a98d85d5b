-------------------------------- MODULE Lease --------------------------------
(***************************************************************************)
(* What the dispatcher promises about where a task runs: a shared worker   *)
(* is leased to one dispatch, unless somebody breaks into the lease, and   *)
(* only until the last holder is gone; a container is rented by the one    *)
(* dispatch it was made for, and is gone with it unless Docker refuses or  *)
(* the server dies, in which case nothing is leased again before the       *)
(* containers left behind, and not hidden, are swept                       *)
(* (internal/serve/dispatch.go:60-185, disposable.go, server.go:134).      *)
(* Fleet implements this.                                                  *)
(***************************************************************************)
CONSTANTS Job, Worker, Container, None,
          Sweeps   \* whether the server can sweep

VARIABLES open,       \* leases are given
          holders,    \* of each worker
          broken,     \* workers whose lease somebody has broken into
          rented,     \* the container of each dispatch
          containers, \* those that are there
          left,       \* those nobody will give back
          hidden      \* those that cannot be swept

sharedVars == <<holders, broken>>
ownVars == <<rented, containers, left, hidden>>
leaseVars == <<open, sharedVars, ownVars>>

Init == /\ open = FALSE
        /\ holders = [w \in Worker |-> {}] /\ broken = {}
        /\ rented = [j \in Job |-> None] /\ containers = {}
        /\ left = {} /\ hidden = {}

Free(j) == rented[j] = None /\ \A w \in Worker : j \notin holders[w]

Acquire(j, w) == /\ open /\ Free(j)
                 /\ holders[w] = {} \/ w \in broken
                 /\ holders' = [holders EXCEPT ![w] = @ \cup {j}]
                 /\ UNCHANGED <<open, broken, ownVars>>

Release(j, w) == /\ j \in holders[w]
                 /\ holders' = [holders EXCEPT ![w] = @ \ {j}]
                 /\ broken' = IF holders[w] = {j} THEN broken \ {w} ELSE broken
                 /\ UNCHANGED <<open, ownVars>>

Break(S) == /\ \A w \in S : holders[w] # {}
            /\ broken' = broken \cup S
            /\ UNCHANGED <<open, holders, ownVars>>

Make(c) == /\ open /\ c \notin containers
           /\ containers' = containers \cup {c}
           /\ hidden' \in {hidden, hidden \cup {c}}

Rent(j, c) == /\ Free(j) /\ Make(c)
              /\ rented' = [rented EXCEPT ![j] = c]
              /\ UNCHANGED <<open, sharedVars, left>>

(* A container is made, and nobody hears of it. *)
Lose(c) == /\ Make(c)
           /\ left' = left \cup {c}
           /\ UNCHANGED <<open, sharedVars, rented>>

Return(j) == /\ rented[j] # None
             /\ rented' = [rented EXCEPT ![j] = None]
             /\ \/ /\ containers' = containers \ {rented[j]}
                   /\ hidden' = hidden \ {rented[j]} /\ UNCHANGED left
                \/ left' = left \cup {rented[j]} /\ UNCHANGED <<containers, hidden>>
             /\ UNCHANGED <<open, sharedVars>>

Crash == /\ open' = FALSE
         /\ holders' = [w \in Worker |-> {}] /\ broken' = {}
         /\ rented' = [j \in Job |-> None]
         /\ UNCHANGED <<containers, left, hidden>>

(* Whatever is found is removed, except what cannot be. *)
Sweep == /\ \E S \in SUBSET (containers \ hidden) :
                 /\ containers' = hidden \cup S
                 /\ left' = (left \cap hidden) \cup S
         /\ UNCHANGED hidden

Open == /\ ~open /\ open' = TRUE
        /\ IF Sweeps THEN Sweep ELSE UNCHANGED <<containers, left, hidden>>
        /\ UNCHANGED <<sharedVars, rented>>

Next == \/ Crash \/ Open
        \/ \E S \in SUBSET Worker : Break(S)
        \/ \E c \in Container : Lose(c)
        \/ \E j \in Job : \/ \E w \in Worker : Acquire(j, w) \/ Release(j, w)
                          \/ \E c \in Container : Rent(j, c)
                          \/ Return(j)

Spec == Init /\ [][Next]_leaseVars
=============================================================================
