---------------------------- MODULE LimiterProofs ----------------------------
(***************************************************************************)
(* The rate limiter is a token bucket for each key, for every set of keys  *)
(* and every capacity, cost and window that LimiterAssumption admits.      *)
(***************************************************************************)
EXTENDS RateLimiter, TLAPS

(* A bucket is none, or has tokens and an age, and they are told apart. *)
LEMMA BucketShape ==
    ASSUME LimiterTypeOK, NEW k \in Key, bucket[k] # NoBucket
    PROVE  bucket[k].tokens \in 0..Capacity /\ bucket[k].age \in 0..(Window + 1)
BY DEF LimiterTypeOK

LEMMA BucketRecord ==
    ASSUME LimiterTypeOK, NEW k \in Key, bucket[k] # NoBucket
    PROVE  [bucket[k] EXCEPT !.age = @ + 1]
               = [tokens |-> bucket[k].tokens, age |-> bucket[k].age + 1]
BY DEF LimiterTypeOK

LEMMA RecordIsBucket ==
    ASSUME NEW n \in Nat, NEW a \in Nat
    PROVE  [tokens |-> n, age |-> a] # NoBucket
BY LimiterAssumption DEF LimiterAssumption

LEMMA LevelBounds ==
    ASSUME LimiterTypeOK, NEW k \in Key
    PROVE  Level(k) \in 0..Capacity
BY LimiterAssumption, BucketShape DEF Level, LimiterAssumption

(* After a use the level is what the use has left. *)
LEMMA UseLevel ==
    ASSUME LimiterTypeOK, NEW k \in Key, NEW n \in 0..Capacity, Use(k, n)
    PROVE  LimiterTypeOK' /\ Levels' = [Levels EXCEPT ![k] = n]
<1>1. n \in Nat /\ Capacity \in Nat /\ Window \in Nat
  BY LimiterAssumption DEF LimiterAssumption
<1>2. LimiterTypeOK'
  BY <1>1 DEF LimiterTypeOK, Use
<1>3. Level(k)' = n
  <2>1. bucket'[k] = [tokens |-> n, age |-> 0]
    BY DEF LimiterTypeOK, Use
  <2>2. bucket'[k] # NoBucket
    BY <1>1, <2>1, RecordIsBucket
  <2>3. QED  BY <1>1, <2>1, <2>2 DEF Level
<1>4. \A j \in Key \ {k} : Level(j)' = Level(j)
  BY DEF LimiterTypeOK, Use, Level
<1>5. QED  BY <1>2, <1>3, <1>4 DEF Levels

LEMMA AllowIsTake ==
    ASSUME LimiterTypeOK, NEW k \in Key, Allow(k)
    PROVE  LimiterTypeOK' /\ Ideal!Take(k)
<1>1. Level(k) - Cost \in 0..Capacity
  BY LevelBounds, LimiterAssumption DEF Allow, LimiterAssumption
<1>2. LimiterTypeOK' /\ Levels' = [Levels EXCEPT ![k] = Level(k) - Cost]
  BY <1>1, UseLevel DEF Allow
<1>3. Levels[k] = Level(k)
  BY DEF Levels
<1>4. QED  BY <1>2, <1>3 DEF Allow, Ideal!Take

LEMMA ExceedsIsStutter ==
    ASSUME LimiterTypeOK, NEW k \in Key, Exceeds(k)
    PROVE  LimiterTypeOK' /\ Levels' = Levels
<1>1. LimiterTypeOK' /\ Levels' = [Levels EXCEPT ![k] = Level(k)]
  BY LevelBounds, UseLevel DEF Exceeds
<1>2. QED  BY <1>1 DEF Levels

(* A bucket old enough to be deleted would have been full. *)
LEMMA CleanupIsStutter ==
    ASSUME LimiterTypeOK, Cleanup
    PROVE  LimiterTypeOK' /\ Levels' = Levels
<1>1. LimiterTypeOK'
  BY DEF LimiterTypeOK, Cleanup
<1>2. ASSUME NEW k \in Key PROVE Level(k)' = Level(k)
  <2>1. CASE bucket[k] # NoBucket /\ bucket[k].age > Window
    <3>1. bucket[k].tokens + bucket[k].age > Capacity
      BY <2>1, BucketShape, LimiterAssumption DEF LimiterAssumption
    <3>2. Level(k) = Capacity
      BY <3>1 DEF Level
    <3>3. bucket'[k] = NoBucket
      BY <2>1 DEF Cleanup
    <3>4. QED  BY <3>2, <3>3 DEF Level
  <2>2. CASE ~(bucket[k] # NoBucket /\ bucket[k].age > Window)
    BY <2>2 DEF Cleanup, Level
  <2>3. QED  BY <2>1, <2>2
<1>3. QED  BY <1>1, <1>2 DEF Levels

LEMMA TickIsRefill ==
    ASSUME LimiterTypeOK, Tick
    PROVE  LimiterTypeOK' /\ Ideal!Refill
<1>1. Capacity \in Nat /\ Window \in Nat /\ Capacity <= Window
  BY LimiterAssumption DEF LimiterAssumption
<1>2. ASSUME NEW k \in Key
      PROVE  /\ bucket'[k] \in [tokens : 0..Capacity, age : 0..(Window + 1)] \cup {NoBucket}
             /\ Level(k)' = IF Level(k) < Capacity THEN Level(k) + 1 ELSE Capacity
  <2>1. CASE bucket[k] = NoBucket
    BY <1>1, <2>1 DEF Tick, Level
  <2>2. CASE bucket[k] # NoBucket /\ bucket[k].age <= Window
    <3> DEFINE n == bucket[k].tokens
               a == bucket[k].age
    <3>1. n \in 0..Capacity /\ a \in 0..Window
      BY <1>1, <2>2, BucketShape
    <3>2. bucket'[k] = [tokens |-> n, age |-> a + 1]
      BY <2>2, BucketRecord DEF Tick
    <3>3. bucket'[k] # NoBucket
      BY <1>1, <3>1, <3>2, RecordIsBucket
    <3>4. Level(k) = IF n + a > Capacity THEN Capacity ELSE n + a
      BY <2>2 DEF Level
    <3>5. Level(k)' = IF n + (a + 1) > Capacity THEN Capacity ELSE n + (a + 1)
      BY <3>2, <3>3 DEF Level
    <3> HIDE DEF n, a
    <3>6. QED  BY <1>1, <3>1, <3>2, <3>4, <3>5
  <2>3. CASE bucket[k] # NoBucket /\ ~(bucket[k].age <= Window)
    <3>1. bucket'[k] = bucket[k]
      BY <2>3 DEF Tick
    <3>2. bucket[k].tokens + bucket[k].age > Capacity
      BY <1>1, <2>3, BucketShape
    <3>3. QED  BY <1>1, <3>1, <3>2 DEF Level, LimiterTypeOK
  <2>4. QED  BY <2>1, <2>2, <2>3
<1>3. LimiterTypeOK'
  BY <1>2 DEF LimiterTypeOK, Tick
<1>4. Levels' = [k \in Key |-> IF Levels[k] < Capacity THEN Levels[k] + 1 ELSE Capacity]
  BY <1>2 DEF Levels
<1>5. QED  BY <1>3, <1>4 DEF Ideal!Refill

LEMMA LimiterStep ==
    ASSUME LimiterTypeOK, [LimiterNext]_bucket
    PROVE  LimiterTypeOK' /\ [Ideal!Next]_Levels
<1>1. CASE UNCHANGED bucket
  BY <1>1 DEF LimiterTypeOK, Levels, Level
<1>2. CASE LimiterNext
  BY <1>2, TickIsRefill, CleanupIsStutter, AllowIsTake, ExceedsIsStutter
     DEF LimiterNext, Ideal!Next
<1>3. QED  BY <1>1, <1>2

LEMMA LimiterStart == LimiterInit => LimiterTypeOK /\ Ideal!Init
BY DEF LimiterInit, LimiterTypeOK, Ideal!Init, Levels, Level

(* Deleting the buckets that have not been used for a window is not        *)
(* noticed: the limiter implements buckets that are kept for ever          *)
(* (ratelimit.go:38-78).                                                   *)
THEOREM LimiterIsTokenBucket == LimiterSpec => ImplementsTokenBucket
<1>1. LimiterInit => LimiterTypeOK /\ Ideal!Init
  BY LimiterStart
<1>2. LimiterTypeOK /\ [LimiterNext]_bucket => LimiterTypeOK' /\ [Ideal!Next]_Levels
  BY LimiterStep
<1>3. QED  BY <1>1, <1>2, PTL DEF LimiterSpec, ImplementsTokenBucket, Ideal!Spec
=============================================================================
