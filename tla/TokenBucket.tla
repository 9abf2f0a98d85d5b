----------------------------- MODULE TokenBucket -----------------------------
(***************************************************************************)
(* What a limiter promises: each key has a bucket that is full at first,   *)
(* gains one unit per tick up to Capacity and pays Cost for each request   *)
(* it lets through.  Nothing else changes it.                              *)
(***************************************************************************)
EXTENDS Naturals

CONSTANTS Key, Capacity, Cost

VARIABLE level

Init == level = [k \in Key |-> Capacity]

Take(k) == /\ level[k] >= Cost
           /\ level' = [level EXCEPT ![k] = @ - Cost]

Refill == level' = [k \in Key |-> IF level[k] < Capacity THEN level[k] + 1 ELSE Capacity]

Next == Refill \/ \E k \in Key : Take(k)

Spec == Init /\ [][Next]_level
=============================================================================
