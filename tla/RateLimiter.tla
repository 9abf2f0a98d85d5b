----------------------------- MODULE RateLimiter -----------------------------
(***************************************************************************)
(* internal/serve/ratelimit.go: token buckets filled when they are used,   *)
(* and deleted when they have not been used for a while.                   *)
(*                                                                         *)
(* A tick is the time in which a bucket gains one unit; a request costs    *)
(* Cost units, so that a fraction of a token is a number of units too.  A  *)
(* bucket remembers its age, the ticks since lastFill.                     *)
(***************************************************************************)
EXTENDS Naturals

CONSTANTS Key,
          Capacity,    \* the burst, in units
          Cost,
          Window,      \* RateLimiter.window, in ticks
          NoBucket

(* An unused bucket is full again before it may be deleted: at two requests *)
(* a second, five requests take 2.5 seconds and the window ten minutes.     *)
ASSUME LimiterAssumption ==
    /\ {Capacity, Cost, Window} \subseteq Nat
    /\ Cost \in 1..Capacity /\ Capacity <= Window
    /\ NoBucket \notin [tokens : Nat, age : Nat]

VARIABLE bucket

LimiterInit == bucket = [k \in Key |-> NoBucket]

(* What Allow finds: a new bucket is full, an old one is filled up. *)
Level(k) ==
    IF bucket[k] = NoBucket \/ bucket[k].tokens + bucket[k].age > Capacity
    THEN Capacity
    ELSE bucket[k].tokens + bucket[k].age

Use(k, tokens) == bucket' = [bucket EXCEPT ![k] = [tokens |-> tokens, age |-> 0]]

Overdraw(k) == Use(k, Level(k) - Cost)  \* a variant: the guard is dropped

(* Allow, returning true or false. *)
Allow(k)   == Level(k) >= Cost /\ Use(k, Level(k) - Cost)
Exceeds(k) == Level(k) < Cost  /\ Use(k, Level(k))

EagerCleanup ==  \* a variant: the window is measured from the wrong end
    bucket' = [k \in Key |-> IF bucket[k] # NoBucket /\ bucket[k].age > 0
                             THEN NoBucket ELSE bucket[k]]

Cleanup ==
    bucket' = [k \in Key |-> IF bucket[k] # NoBucket /\ bucket[k].age > Window
                             THEN NoBucket ELSE bucket[k]]

(* Time; an age beyond the window makes no difference. *)
Tick == bucket' = [k \in Key |->
                     IF bucket[k] # NoBucket /\ bucket[k].age <= Window
                     THEN [bucket[k] EXCEPT !.age = @ + 1] ELSE bucket[k]]

LimiterNext == Tick \/ Cleanup \/ \E k \in Key : Allow(k) \/ Exceeds(k)

LimiterSpec == LimiterInit /\ [][LimiterNext]_bucket

-----------------------------------------------------------------------------
LimiterTypeOK == bucket \in [Key -> [tokens : 0..Capacity, age : 0..(Window + 1)] \cup {NoBucket}]

Levels == [k \in Key |-> Level(k)]

Ideal == INSTANCE TokenBucket WITH level <- Levels

(* Deleting buckets cannot be observed: the limiter lets through exactly    *)
(* what buckets that are kept for ever would.                               *)
ImplementsTokenBucket == Ideal!Spec
=============================================================================
