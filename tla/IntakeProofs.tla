---------------------------- MODULE IntakeProofs ----------------------------
(***************************************************************************)
(* Proofs about Intake, for every set of requests, deliveries, workers and *)
(* registries and every number of faults and edits.                        *)
(***************************************************************************)
EXTENDS Intake, LimiterProofs, FiniteSetTheorems

-----------------------------------------------------------------------------
(* The inductive invariant, in parts.                                      *)

(* Variables that TypeOK does not speak of are functions on requests. *)
Functions == /\ stored = [r \in Request |-> stored[r]]
             /\ attrs = [r \in Request |-> attrs[r]]
             /\ match = [r \in Request |-> match[r]]
             /\ first = [r \in Request |-> first[r]]

NoTask(e) == \A w \in DOMAIN Worker : tasks[e][w] = "none"

(* What a handler and its answer say of the row. *)
Handled(r) ==
    /\ http[r] \in {"idle", "check", "insert"} => ~Stored(r)
    /\ http[r] # "idle" => carries[r] \in Deliveries
    /\ http[r] = "answer" => event[r].state = "received" /\ bg[r] = "none"
    /\ http[r] = "accepted" => Stored(r)
    /\ http[r] = "duplicate" => \E q \in Request : Stored(q) /\ carries[q] = carries[r]

(* What the goroutine of an event, or its place in recoverEvents, says. *)
Going(e) ==
    /\ bg[e] # "none" => Stored(e)
    /\ bg[e] \in {"reload", "match", "hydrate", "matched"} => event[e].state = "received"
    /\ bg[e] \in {"create", "dispatch", "undo"} => event[e].state = "matched"
    /\ bg[e] = "fail" => event[e].state \in {"received", "matched"}
    /\ bg[e] \in {"hydrate", "matched", "create", "dispatch", "undo"} =>
          match[e].worker \in DOMAIN Worker
    /\ bg[e] = "undo" => e \in hit
    /\ e \in stuck => event[e].state = "received" /\ bg[e] = "none" /\ http[e] # "answer"

(* The task of an event is made once, for the worker it was matched to. *)
Tasked(e) ==
    /\ event[e].state \in {"absent", "received"} \/ bg[e] \in {"create", "fail"} => NoTask(e)
    /\ bg[e] \in {"dispatch", "undo"} =>
          \A w \in DOMAIN Worker : tasks[e][w] # "none" <=> w = match[e].worker
    /\ \A v, w \in DOMAIN Worker : tasks[e][v] # "none" /\ tasks[e][w] # "none" => v = w

Stranded(e) ==
    e \notin hit /\ event[e].state \in {"received", "matched"} =>
        bg[e] # "none" \/ e \in stuck \/ http[e] = "answer"

Routed(e) ==
    /\ http[e] = "idle" => first[e] = NoMatch
    /\ first[e] # NoMatch =>
          first[e].worker \in FirstTaker(first[e].rules, carries[e], first[e].have)

(* idx_events_delivery. *)
IdsDiffer == \A q, r \in Request :
    Stored(q) /\ Stored(r) /\ Id(q) = Id(r) /\ Id(q) # NoId => q = r

EventInv == \A e \in Request : Handled(e) /\ Going(e) /\ Tasked(e) /\ Stranded(e)

IInv == TypeOK /\ Functions /\ EventInv /\ IdsDiffer /\ \A e \in Request : Routed(e)

-----------------------------------------------------------------------------
(* What the statements on the table of events do.                          *)
EventType == event \in [Request -> Events!EventRow]

Moved(e, from, to) ==
    /\ EventType'
    /\ \A q \in Request : event'[q].state = IF q = e /\ event[e].state \in from
                                            THEN to ELSE event[q].state

LEMMA Moves ==
    ASSUME EventType, NEW e \in Request, NEW from, NEW to \in Events!EventState,
           Events!Transition(e, from, to)
    PROVE  Moved(e, from, to)
BY DEF EventType, Moved, Events!EventRow, Events!Transition

LEMMA EventMoves ==
    ASSUME EventType, NEW e \in Request
    PROVE  /\ Events!Create(e)        => Moved(e, {"absent"}, "received")
           /\ Events!SetSkipped(e)    => Moved(e, {"received"}, "skipped")
           /\ Events!SetMatched(e)    => Moved(e, {"received"}, "matched")
           /\ Events!SetDispatched(e) => Moved(e, {"matched"}, "dispatched")
           /\ Events!SetFailed(e)     =>
                 Moved(e, Events!EventState \ {"absent", "completed", "skipped"}, "failed")
           /\ event' = event          => Moved(e, {}, "failed")
<1>1. {"received", "skipped", "matched", "dispatched", "failed"} \subseteq Events!EventState
  BY DEF Events!EventState
<1>2. ASSUME event' = event PROVE Moved(e, {}, "failed")
  BY <1>2 DEF EventType, Moved
<1>3. QED
  BY <1>1, <1>2, Moves
     DEF Events!Create, Events!SetSkipped, Events!SetMatched, Events!SetDispatched,
         Events!SetFailed

LEMMA StateType ==
    ASSUME EventType, NEW e \in Request
    PROVE  event[e].state \in Events!EventState
BY DEF EventType, Events!EventRow

(* A request is known by the delivery of a stored event. *)
LEMMA KnownDelivery ==
    ASSUME IInv, NEW r \in Request, http[r] \in {"check", "insert"}, Known(r)
    PROVE  \E q \in Request : Stored(q) /\ carries[q] = carries[r]
<1>1. PICK q \in Request : Stored(q) /\ Id(q) = Id(r) /\ Id(r) # NoId
  BY DEF Known
<1>2. carries[r] \in Deliveries /\ carries[q] \in Deliveries
  BY <1>1 DEF IInv, EventInv, Handled
<1>3. ~Stored(r)
  BY DEF IInv, EventInv, Handled
<1>4. Deliveries \cap Request = {}
  BY IntakeAssumption DEF IntakeAssumption
<1>5. /\ Id(q) \in {carries[q], q, NoId}
      /\ Id(r) \in {carries[r], r, NoId}
  BY DEF Id, IdOf
<1>6. QED  BY <1>1, <1>2, <1>3, <1>4, <1>5

-----------------------------------------------------------------------------
(* A step of one request or event e: what it leaves alone, and what it has *)
(* to establish for e itself.                                              *)
Others(e) ==
    \A q \in Request \ {e} :
        /\ event'[q].state = event[q].state /\ carries'[q] = carries[q]
        /\ http'[q] = http[q] /\ bg'[q] = bg[q] /\ tasks'[q] = tasks[q]
        /\ match'[q] = match[q] /\ first'[q] = first[q]
        /\ q \in stuck' <=> q \in stuck
        /\ q \in hit' <=> q \in hit

Keeps(e) ==
    /\ Stored(e) => Stored(e)' /\ carries'[e] = carries[e]
    /\ ~Stored(e) /\ Stored(e)' => carries'[e] = carries[e] /\ ~Known(e)

Own(e) == Handled(e) /\ Going(e) /\ Tasked(e) /\ Stranded(e) /\ Routed(e)

LEMMA LocalStep ==
    ASSUME IInv, NEW e \in Request, Others(e), Keeps(e),
           TypeOK', Functions', Own(e)'
    PROVE  IInv'
<1>1. ASSUME NEW q \in Request PROVE Stored(q) => Stored(q)' /\ carries'[q] = carries[q]
  BY DEF Others, Keeps, Stored
<1>2. ASSUME NEW q \in Request, q # e PROVE Own(q)'
  <2>1. Own(q)
    BY DEF IInv, EventInv, Own
  <2>2. Handled(q)'
    BY <1>1, <1>2, <2>1 DEF Own, Handled, Others, Stored
  <2>3. Going(q)' /\ Stranded(q)' /\ Routed(q)'
    BY <1>1, <1>2, <2>1 DEF Own, Going, Stranded, Routed, Others
  <2>4. Tasked(q)'
    BY <1>2, <2>1 DEF Own, Tasked, NoTask, Others
  <2>5. QED  BY <2>2, <2>3, <2>4 DEF Own
<1>3. IdsDiffer'
  <2> SUFFICES ASSUME NEW q \in Request, NEW r \in Request, Stored(q)', Stored(r)',
                      Id(q)' = Id(r)', Id(q)' # NoId
               PROVE  q = r
    BY DEF IdsDiffer
  <2>1. carries'[q] = carries[q] /\ carries'[r] = carries[r]
    BY DEF Others, Keeps, Stored
  <2>2. Id(q)' = Id(q) /\ Id(r)' = Id(r)
    BY <2>1 DEF Id
  <2>3. CASE Stored(q) /\ Stored(r)
    BY <2>2, <2>3 DEF IInv, IdsDiffer
  <2>4. CASE ~Stored(q) /\ Stored(r)
    <3>1. q = e /\ ~Known(q)
      BY <2>4 DEF Others, Keeps, Stored
    <3>2. QED  BY <2>2, <2>4, <3>1 DEF Known
  <2>5. CASE Stored(q) /\ ~Stored(r)
    <3>1. r = e /\ ~Known(r)
      BY <2>5 DEF Others, Keeps, Stored
    <3>2. QED  BY <2>2, <2>5, <3>1 DEF Known
  <2>6. CASE ~Stored(q) /\ ~Stored(r)
    BY <2>6 DEF Others, Stored
  <2>7. QED  BY <2>3, <2>4, <2>5, <2>6
<1>4. QED  BY <1>2, <1>3 DEF IInv, EventInv, Own

-----------------------------------------------------------------------------
(* The steps of a handler.                                                 *)
LEMMA FaultType ==
    ASSUME faults \in 0..MaxFaults, Fault \/ UNCHANGED faults
    PROVE  faults' \in 0..MaxFaults
BY IntakeAssumption DEF IntakeAssumption, Fault

LEMMA InvType == IInv => TypeOK /\ EventType /\ Functions
BY DEF IInv, TypeOK, EventType

LEMMA ArriveStep ==
    ASSUME IInv, NEW r \in Request, NEW d \in Deliveries, Arrive(r, d)
    PROVE  IInv'
<1>1. ~Stored(r) /\ first[r] = NoMatch
  BY DEF IInv, EventInv, Handled, Routed, Arrive
<1>2. LimiterTypeOK'
  <2>1. d.source \in Key
    BY IntakeAssumption DEF IntakeAssumption
  <2>2. QED
    BY <2>1, InvType, AllowIsTake, ExceedsIsStutter DEF Arrive, TypeOK, LimiterTypeOK
<1>3. TypeOK'
  BY <1>2, InvType DEF TypeOK, Arrive, Reply, Answers, goVars, storeVars, configVars, faultVars
<1>4. Functions' /\ Others(r) /\ Keeps(r)
  BY <1>1, InvType DEF Functions, Others, Keeps, Arrive, Reply, Stored, TypeOK,
                       goVars, storeVars, configVars, faultVars
<1>5. http'[r] \in {"refused", "check"} /\ carries'[r] = d
  BY InvType DEF TypeOK, Arrive, Reply
<1>6. Own(r)'
  <2>1. Own(r) /\ http[r] = "idle"
    BY DEF IInv, EventInv, Own, Arrive
  <2>2. UNCHANGED <<event, bg, tasks, stuck, hit, match, first>>
    BY DEF Arrive, goVars, storeVars, configVars, faultVars
  <2>3. Handled(r)'
    BY <1>1, <1>5, <2>1, <2>2 DEF Handled, Stored
  <2>4. Going(r)' /\ Stranded(r)' /\ Routed(r)' /\ Tasked(r)'
    BY <1>1, <1>5, <2>1, <2>2 DEF Own, Going, Stranded, Routed, Tasked, NoTask, Stored
  <2>5. QED  BY <2>3, <2>4 DEF Own
<1>7. QED  BY <1>3, <1>4, <1>6, LocalStep

LEMMA DeliveryExistsStep ==
    ASSUME IInv, NEW r \in Request, DeliveryExists(r)
    PROVE  IInv'
<1>1. TypeOK'
  BY InvType, FaultType DEF TypeOK, DeliveryExists, Reply, Answers, goVars, storeVars,
     configVars, LimiterTypeOK
<1>2. Functions' /\ Others(r) /\ Keeps(r)
  BY InvType DEF Functions, Others, Keeps, DeliveryExists, Reply, Stored, TypeOK,
                 goVars, storeVars, configVars
<1>3. Own(r)'
  <2>1. Own(r) /\ http[r] = "check"
    BY DEF IInv, EventInv, Own, DeliveryExists
  <2>2. UNCHANGED <<carries, event, bg, tasks, stuck, hit, match, first>>
    BY DEF DeliveryExists, goVars, storeVars, configVars
  <2>3. /\ http'[r] \in {"duplicate", "insert", "error"}
        /\ http'[r] = "duplicate" => Known(r)
    BY InvType DEF TypeOK, DeliveryExists, Reply
  <2>4. Handled(r)'
    BY <2>1, <2>2, <2>3, KnownDelivery DEF Own, Handled, Stored
  <2>5. Going(r)' /\ Stranded(r)' /\ Routed(r)' /\ Tasked(r)'
    BY <2>1, <2>2, <2>3 DEF Own, Going, Stranded, Routed, Tasked, NoTask, Stored
  <2>6. QED  BY <2>4, <2>5 DEF Own
<1>4. QED  BY <1>1, <1>2, <1>3, LocalStep

LEMMA InsertStep ==
    ASSUME IInv, NEW r \in Request, Insert(r)
    PROVE  IInv'
<1>1. Own(r) /\ http[r] = "insert" /\ event[r].state = "absent"
  BY DEF IInv, EventInv, Own, Insert, Handled, Stored
<1>2. UNCHANGED <<carries, bg, tasks, rules, copy, edits, stuck, hit, match, first, attrs, bucket>>
  BY DEF Insert, goVars, configVars
<1>3. CASE ~Known(r) /\ Events!Create(r) /\ Reply(r, "answer") /\ UNCHANGED faults
           /\ stored' = [stored EXCEPT ![r] = Attrs(carries[r])]
  <2>1. Moved(r, {"absent"}, "received")
    BY <1>3, InvType, EventMoves
  <2>2. TypeOK' /\ Functions'
    BY <1>2, <1>3, <2>1, InvType
       DEF TypeOK, Functions, Reply, Answers, LimiterTypeOK, Moved, EventType
  <2>3. http' = [http EXCEPT ![r] = "answer"] /\ http'[r] = "answer"
    BY <1>3, InvType DEF Reply, TypeOK
  <2>4. Others(r) /\ Keeps(r)
    BY <1>2, <1>3, <2>1, <2>3, InvType DEF Others, Keeps, Moved, TypeOK, Stored
  <2>5. event'[r].state = "received" /\ bg[r] = "none" /\ r \notin stuck
    BY <1>1, <2>1, InvType DEF Own, Going, Moved, TypeOK, Stored
  <2>6. Own(r)'
    BY <1>1, <1>2, <2>3, <2>5
       DEF Own, Handled, Going, Stranded, Routed, Tasked, NoTask, Stored
  <2>7. QED  BY <2>2, <2>4, <2>6, LocalStep
<1>4. CASE /\ UNCHANGED <<event, stored>>
           /\ \/ Known(r) /\ UNCHANGED faults /\ Reply(r, "duplicate")
              \/ Fault /\ Reply(r, "error")
  <2>1. TypeOK' /\ Functions'
    BY <1>2, <1>4, InvType, FaultType DEF TypeOK, Functions, Reply, Answers, LimiterTypeOK
  <2>2. Others(r) /\ Keeps(r)
    BY <1>2, <1>4, InvType DEF Others, Keeps, Reply, TypeOK, Stored
  <2>3. /\ http'[r] \in {"duplicate", "error"}
        /\ http'[r] = "duplicate" => Known(r)
    BY <1>4, InvType DEF TypeOK, Reply
  <2>4. Handled(r)'
    BY <1>1, <1>2, <1>4, <2>3, KnownDelivery DEF Own, Handled, Stored
  <2>5. Going(r)' /\ Stranded(r)' /\ Routed(r)' /\ Tasked(r)'
    BY <1>1, <1>2, <1>4, <2>3 DEF Own, Going, Stranded, Routed, Tasked, NoTask, Stored
  <2>6. QED  BY <2>1, <2>2, <2>4, <2>5, LocalStep DEF Own
<1>5. QED  BY <1>3, <1>4 DEF Insert

LEMMA AnswerStep ==
    ASSUME IInv, NEW r \in Request, Answer(r)
    PROVE  IInv'
<1>1. Own(r) /\ http[r] = "answer"
  BY DEF IInv, EventInv, Own, Answer
<1>2. UNCHANGED <<carries, event, stored, tasks, rules, copy, edits, faults, stuck, hit, match,
                  first, bucket>>
  BY DEF Answer, storeVars, configVars, faultVars
<1>3. TypeOK' /\ Functions'
  BY <1>2, InvType DEF TypeOK, Functions, Answer, Reply, Start, Answers, LimiterTypeOK
<1>4. Others(r) /\ Keeps(r)
  BY <1>2, InvType DEF Others, Keeps, Answer, Reply, Start, TypeOK, Stored
<1>5. http'[r] = "accepted" /\ bg'[r] = "reload"
  BY InvType DEF TypeOK, Answer, Reply, Start
<1>6. Own(r)'
  BY <1>1, <1>2, <1>5 DEF Own, Handled, Going, Stranded, Routed, Tasked, NoTask, Stored
<1>7. QED  BY <1>3, <1>4, <1>6, LocalStep

-----------------------------------------------------------------------------
(* The steps of matchAndHydrate.                                           *)
LEMMA GoingFrame ==
    ASSUME GoUnchanged
    PROVE  UNCHANGED <<http, carries, rules, copy, sources, edits, stuck, bucket>>
BY DEF GoUnchanged, requestVars, configVars

LEMMA ReloadStep ==
    ASSUME IInv, NEW e \in Request, Reload(e)
    PROVE  IInv'
<1>1. Own(e) /\ bg[e] = "reload" /\ event[e].state = "received" /\ http[e] # "idle"
  BY DEF IInv, EventInv, Own, Reload, Going, Handled, Stored
<1>2. UNCHANGED <<http, carries, rules, sources, edits, stuck, bucket, attrs, match, first,
                  event, stored, tasks, hit>>
  BY DEF Reload, requestVars, storeVars
<1>3. TypeOK' /\ Functions'
  BY <1>2, InvType, FaultType DEF TypeOK, Functions, Reload, Goto, LimiterTypeOK
<1>4. Others(e) /\ Keeps(e) /\ bg'[e] = "match"
  BY <1>2, InvType DEF Others, Keeps, Reload, Goto, TypeOK, Stored
<1>5. Own(e)'
  BY <1>1, <1>2, <1>4 DEF Own, Handled, Going, Stranded, Routed, Tasked, NoTask, Stored
<1>6. QED  BY <1>3, <1>4, <1>5, LocalStep

LEMMA MatchStep ==
    ASSUME IInv, NEW e \in Request, Match(e)
    PROVE  IInv'
<1>1. Own(e) /\ bg[e] = "match" /\ event[e].state = "received" /\ http[e] # "idle"
  BY DEF IInv, EventInv, Own, Match, Going, Handled, Stored
<1>2. UNCHANGED <<http, carries, rules, copy, sources, edits, stuck, bucket, attrs, stored, tasks>>
  BY GoingFrame DEF Match
<1>3. ASSUME NEW w \in FirstTaker(copy, carries[e], attrs[e]),
             NEW m, m.worker = w, match' = [match EXCEPT ![e] = m],
             first' = [first EXCEPT ![e] = IF @ # NoMatch THEN @
                          ELSE [worker |-> w, rules |-> copy, have |-> attrs[e]]],
             Goto(e, IF carries[e].source = "github" THEN "hydrate" ELSE "matched"),
             UNCHANGED <<event, faultVars>>
      PROVE  IInv'
  <2>1. UNCHANGED <<faults, hit>>
    BY <1>3 DEF faultVars
  <2>2. TypeOK' /\ Functions'
    BY <1>2, <1>3, <2>1, InvType DEF TypeOK, Functions, Goto, LimiterTypeOK
  <2>3. Others(e) /\ Keeps(e)
    BY <1>2, <1>3, <2>1, InvType DEF Others, Keeps, Goto, TypeOK, Functions, Stored
  <2>4. bg'[e] \in {"hydrate", "matched"} /\ match'[e] = m
    BY <1>3, InvType DEF Goto, TypeOK, Functions
  <2>5. Routed(e)'
    <3>1. \/ first'[e] = first[e]
          \/ first'[e] = [worker |-> w, rules |-> copy, have |-> attrs[e]]
      BY <1>3, InvType DEF Functions
    <3>2. CASE first'[e] = first[e]
      BY <1>1, <1>2, <3>2 DEF Own, Routed
    <3>3. CASE first'[e] = [worker |-> w, rules |-> copy, have |-> attrs[e]]
      BY <1>1, <1>2, <1>3, <3>3 DEF Routed
    <3>4. QED  BY <3>1, <3>2, <3>3
  <2>6. w \in DOMAIN Worker
    BY InvType, IntakeAssumption DEF TypeOK, IntakeAssumption, FirstTaker, Takers
  <2>7. Handled(e)' /\ Going(e)' /\ Stranded(e)' /\ Tasked(e)'
    BY <1>1, <1>2, <1>3, <2>1, <2>4, <2>6
       DEF Own, Handled, Going, Stranded, Tasked, NoTask, Stored
  <2>8. QED  BY <2>2, <2>3, <2>5, <2>7, LocalStep DEF Own
<1>4. ASSUME Return(e), UNCHANGED <<match, first>>,
             (Succeed /\ Events!SetSkipped(e)) \/ (Fail(e) /\ UNCHANGED event)
      PROVE  IInv'
  <2>1. \/ Moved(e, {"received"}, "skipped") /\ UNCHANGED <<faults, hit>>
        \/ UNCHANGED event /\ Fault /\ hit' = hit \cup {e}
    BY <1>4, InvType, EventMoves DEF Succeed, Fail, faultVars
  <2>2. TypeOK' /\ Functions'
    BY <1>2, <1>4, <2>1, InvType, FaultType
       DEF TypeOK, Functions, Return, Goto, LimiterTypeOK, Moved, EventType
  <2>3. Others(e) /\ Keeps(e)
    BY <1>1, <1>2, <1>4, <2>1, InvType
       DEF Others, Keeps, Return, Goto, TypeOK, Stored, Moved
  <2>4. /\ bg'[e] = "none"
        /\ event'[e].state = "skipped" \/ (event'[e].state = "received" /\ e \in hit')
    BY <1>1, <1>4, <2>1, InvType DEF Return, Goto, TypeOK, Moved
  <2>5. Own(e)'
    BY <1>1, <1>2, <1>4, <2>4
       DEF Own, Handled, Going, Stranded, Routed, Tasked, NoTask, Stored
  <2>6. QED  BY <2>2, <2>3, <2>5, LocalStep
<1>5. QED  BY <1>3, <1>4 DEF Match

LEMMA HydrateStep ==
    ASSUME IInv, NEW e \in Request, Hydrate(e)
    PROVE  IInv'
<1>1. Own(e) /\ bg[e] = "hydrate"
  BY DEF IInv, EventInv, Own, Hydrate
<1>2. UNCHANGED <<http, carries, rules, copy, sources, edits, stuck, bucket, match, first, event,
                  tasks, hit>>
  BY GoingFrame DEF Hydrate
<1>3. TypeOK' /\ Functions'
  BY <1>2, InvType, FaultType DEF TypeOK, Functions, Hydrate, Goto, LimiterTypeOK
<1>4. Others(e) /\ Keeps(e) /\ bg'[e] = "matched"
  BY <1>2, InvType DEF Others, Keeps, Hydrate, Goto, TypeOK, Stored
<1>5. Own(e)'
  BY <1>1, <1>2, <1>4 DEF Own, Handled, Going, Stranded, Routed, Tasked, NoTask, Stored
<1>6. QED  BY <1>3, <1>4, <1>5, LocalStep

LEMMA SetMatchedStep ==
    ASSUME IInv, NEW e \in Request, SetMatched(e)
    PROVE  IInv'
<1>1. Own(e) /\ bg[e] = "matched" /\ event[e].state = "received"
  BY DEF IInv, EventInv, Own, SetMatched, Going
<1>2. UNCHANGED <<http, carries, rules, copy, sources, edits, stuck, bucket, attrs, match, first,
                  stored, tasks>>
  BY GoingFrame DEF SetMatched
<1>3. \/ Goto(e, "fail") /\ UNCHANGED <<event, faults, hit>>
      \/ Goto(e, "create") /\ Moved(e, {"received"}, "matched") /\ UNCHANGED <<faults, hit>>
      \/ Goto(e, "none") /\ UNCHANGED event /\ Fault /\ hit' = hit \cup {e}
  BY <1>1, InvType, EventMoves DEF SetMatched, Succeed, Fail, faultVars, Return
<1>4. TypeOK' /\ Functions'
  BY <1>2, <1>3, InvType, FaultType
     DEF TypeOK, Functions, Goto, LimiterTypeOK, Moved, EventType
<1>5. Others(e) /\ Keeps(e)
  BY <1>1, <1>2, <1>3, InvType DEF Others, Keeps, Goto, TypeOK, Stored, Moved
<1>6. \/ bg'[e] = "fail" /\ event'[e].state = "received" /\ hit' = hit
      \/ bg'[e] = "create" /\ event'[e].state = "matched" /\ hit' = hit
      \/ bg'[e] = "none" /\ event'[e].state = "received" /\ e \in hit'
  BY <1>1, <1>3, InvType DEF Goto, TypeOK, Moved
<1>7. Own(e)'
  BY <1>1, <1>2, <1>6 DEF Own, Handled, Going, Stranded, Routed, Tasked, NoTask, Stored
<1>8. QED  BY <1>4, <1>5, <1>7, LocalStep

LEMMA SetFailedStep ==
    ASSUME IInv, NEW e \in Request, SetFailed(e)
    PROVE  IInv'
<1>1. Own(e) /\ bg[e] = "fail" /\ Stored(e)
  BY DEF IInv, EventInv, Own, SetFailed, Going
<1>2. UNCHANGED <<http, carries, rules, copy, sources, edits, stuck, bucket, attrs, match, first,
                  stored, tasks>>
  BY GoingFrame DEF SetFailed
<1> DEFINE from == Events!EventState \ {"absent", "completed", "skipped"}
<1>3. /\ Goto(e, "none")
      /\ \/ Moved(e, from, "failed") /\ UNCHANGED <<faults, hit>>
         \/ UNCHANGED event /\ Fault /\ hit' = hit \cup {e}
  BY InvType, EventMoves DEF SetFailed, Succeed, Fail, faultVars, Return
<1>4. TypeOK' /\ Functions'
  BY <1>2, <1>3, InvType, FaultType
     DEF TypeOK, Functions, Goto, LimiterTypeOK, Moved, EventType
<1>5. Others(e) /\ Keeps(e)
  BY <1>1, <1>2, <1>3, InvType DEF Others, Keeps, Goto, TypeOK, Stored, Moved
<1>6. /\ bg'[e] = "none"
      /\ \/ event'[e].state \notin {"absent", "received", "matched"} /\ hit' = hit
         \/ event'[e].state = event[e].state /\ e \in hit'
  BY <1>1, <1>3, InvType, StateType DEF Goto, TypeOK, Moved, Stored, Events!EventState
<1>7. e \notin stuck /\ http[e] # "answer"
  BY <1>1 DEF Own, Going, Handled
<1>8. Own(e)'
  BY <1>1, <1>2, <1>6, <1>7
     DEF Own, Handled, Going, Stranded, Routed, Tasked, NoTask, Stored
<1>9. QED  BY <1>4, <1>5, <1>8, LocalStep

LEMMA SetTaskType ==
    ASSUME TypeOK, NEW e \in Request, NEW state \in {"pending", "failed"}, SetTask(e, state)
    PROVE  tasks' \in [Request -> [DOMAIN Worker -> {"none", "pending", "failed"}]]
<1> DEFINE Row == [DOMAIN Worker -> {"none", "pending", "failed"}]
           row == [tasks[e] EXCEPT ![match[e].worker] = state]
<1>1. tasks \in [Request -> Row] /\ tasks[e] \in Row
  BY DEF TypeOK
<1>2. row \in Row
  BY <1>1
<1>3. tasks' = [tasks EXCEPT ![e] = row]
  BY DEF SetTask
<1> HIDE DEF Row, row
<1>4. tasks' \in [Request -> Row]
  BY <1>1, <1>2, <1>3
<1>5. QED  BY <1>4 DEF Row

LEMMA CreateTaskStep ==
    ASSUME IInv, NEW e \in Request, CreateTask(e)
    PROVE  IInv'
<1>1. Own(e) /\ bg[e] = "create" /\ event[e].state = "matched" /\ NoTask(e)
  BY DEF IInv, EventInv, Own, CreateTask, Going, Tasked
<1>2. UNCHANGED <<http, carries, rules, copy, sources, edits, stuck, bucket, attrs, match, first,
                  stored, event, hit>>
  BY GoingFrame DEF CreateTask
<1>3. \/ SetTask(e, "pending") /\ Goto(e, "dispatch") /\ UNCHANGED faults
      \/ Goto(e, "fail") /\ UNCHANGED tasks /\ (Fault \/ UNCHANGED faults)
  BY DEF CreateTask
<1>4. TypeOK' /\ Functions'
  <2>1. tasks' \in [Request -> [DOMAIN Worker -> {"none", "pending", "failed"}]]
    BY <1>3, InvType, SetTaskType DEF TypeOK
  <2>2. QED
    BY <1>2, <1>3, <2>1, InvType, FaultType, SMTT(30) DEF TypeOK, Functions, Goto, LimiterTypeOK
<1>5. Others(e) /\ Keeps(e)
  BY <1>1, <1>2, <1>3, InvType DEF Others, Keeps, Goto, SetTask, TypeOK, Stored
<1>6. /\ bg'[e] \in {"dispatch", "fail"}
      /\ bg'[e] = "dispatch" =>
            \A w \in DOMAIN Worker : tasks'[e][w] # "none" <=> w = match[e].worker
      /\ bg'[e] = "fail" => tasks'[e] = tasks[e]
  BY <1>1, <1>3, InvType DEF Goto, SetTask, TypeOK, NoTask
<1>7. Handled(e)' /\ Going(e)' /\ Stranded(e)' /\ Routed(e)'
  BY <1>1, <1>2, <1>6 DEF Own, Handled, Going, Stranded, Routed, Stored
<1>8. Tasked(e)'
  BY <1>1, <1>2, <1>6 DEF Own, Going, Tasked, NoTask
<1>9. QED  BY <1>4, <1>5, <1>7, <1>8, LocalStep DEF Own

LEMMA SetDispatchedStep ==
    ASSUME IInv, NEW e \in Request, SetDispatched(e)
    PROVE  IInv'
<1>1. Own(e) /\ bg[e] = "dispatch" /\ event[e].state = "matched"
  BY DEF IInv, EventInv, Own, SetDispatched, Going
<1>2. UNCHANGED <<http, carries, rules, copy, sources, edits, stuck, bucket, attrs, match, first,
                  stored, tasks>>
  BY GoingFrame DEF SetDispatched
<1>3. \/ Goto(e, "none") /\ Moved(e, {"matched"}, "dispatched") /\ UNCHANGED <<faults, hit>>
      \/ Goto(e, "undo") /\ UNCHANGED event /\ Fault /\ hit' = hit \cup {e}
  BY <1>1, InvType, EventMoves DEF SetDispatched, Succeed, Fail, faultVars, Return
<1>4. TypeOK' /\ Functions'
  BY <1>2, <1>3, InvType, FaultType
     DEF TypeOK, Functions, Goto, LimiterTypeOK, Moved, EventType
<1>5. Others(e) /\ Keeps(e)
  BY <1>1, <1>2, <1>3, InvType DEF Others, Keeps, Goto, TypeOK, Stored, Moved
<1>6. \/ bg'[e] = "none" /\ event'[e].state = "dispatched" /\ hit' = hit
      \/ bg'[e] = "undo" /\ event'[e].state = "matched" /\ e \in hit'
  BY <1>1, <1>3, InvType DEF Goto, TypeOK, Moved
<1>7. e \notin stuck /\ http[e] # "answer"
  BY <1>1 DEF Own, Going, Handled
<1>8. Own(e)'
  BY <1>1, <1>2, <1>6, <1>7
     DEF Own, Handled, Going, Stranded, Routed, Tasked, NoTask, Stored
<1>9. QED  BY <1>4, <1>5, <1>8, LocalStep

LEMMA UndoStep ==
    ASSUME IInv, NEW e \in Request, Undo(e)
    PROVE  IInv'
<1>1. Own(e) /\ bg[e] = "undo" /\ event[e].state = "matched" /\ e \in hit
  BY DEF IInv, EventInv, Own, Undo, Going
<1>2. UNCHANGED <<http, carries, rules, copy, sources, edits, stuck, bucket, attrs, match, first,
                  stored, event>>
  BY GoingFrame DEF Undo
<1>3. /\ Goto(e, "none")
      /\ \/ SetTask(e, "failed") /\ UNCHANGED <<faults, hit>>
         \/ Fault /\ hit' = hit \cup {e} /\ UNCHANGED tasks
  BY DEF Undo, Return, Succeed, Fail, faultVars
<1>4. TypeOK' /\ Functions'
  <2>1. tasks' \in [Request -> [DOMAIN Worker -> {"none", "pending", "failed"}]]
    BY <1>3, InvType, SetTaskType DEF TypeOK
  <2>2. QED
    BY <1>2, <1>3, <2>1, InvType, FaultType DEF TypeOK, Functions, Goto, LimiterTypeOK
<1>5. Others(e) /\ Keeps(e)
  BY <1>1, <1>2, <1>3, InvType DEF Others, Keeps, Goto, SetTask, TypeOK, Stored
<1>6. bg'[e] = "none" /\ e \in hit'
  BY <1>1, <1>3, InvType DEF Goto, TypeOK
<1>7. \A w \in DOMAIN Worker : tasks'[e][w] # "none" => w = match[e].worker
  <2>1. \A w \in DOMAIN Worker : tasks[e][w] # "none" => w = match[e].worker
    BY <1>1 DEF Own, Tasked
  <2>2. QED  BY <1>3, <2>1, InvType DEF SetTask, TypeOK
<1>8. Handled(e)' /\ Going(e)' /\ Stranded(e)' /\ Routed(e)'
  BY <1>1, <1>2, <1>6 DEF Own, Handled, Going, Stranded, Routed, Stored
<1>9. Tasked(e)'
  BY <1>1, <1>2, <1>6, <1>7 DEF Own, Tasked
<1>10. QED  BY <1>4, <1>5, <1>8, <1>9, LocalStep DEF Own

-----------------------------------------------------------------------------
(* Recovery, restart and configuration.                                    *)
LEMMA RecoverEventStep ==
    ASSUME IInv, NEW e \in Request, RecoverEvent(e)
    PROVE  IInv'
<1>1. Own(e) /\ event[e].state = "received" /\ bg[e] = "none" /\ http[e] # "answer"
  BY DEF IInv, EventInv, Own, RecoverEvent, Going
<1>2. UNCHANGED <<http, carries, match, first, stored, tasks, rules, copy, sources, edits, bucket>>
  BY DEF RecoverEvent, requestVars, configVars
<1> DEFINE from == Events!EventState \ {"absent", "completed", "skipped"}
<1>3. /\ stuck' = stuck \ {e}
      /\ \/ Fault /\ hit' = hit \cup {e} /\ UNCHANGED <<event, bg, attrs>>
         \/ Moved(e, from, "failed") /\ UNCHANGED <<bg, attrs, faults, hit>>
         \/ Start(e, ReadBack(carries[e], stored[e])) /\ UNCHANGED <<event, faults, hit>>
  BY InvType, EventMoves DEF RecoverEvent, Succeed, Fail, faultVars
<1>4. TypeOK' /\ Functions'
  <2>1. EventType' /\ (Fault \/ UNCHANGED faults)
    BY <1>3, InvType DEF Moved, EventType
  <2>2. stuck' \cup hit' \subseteq Request
    BY <1>3, InvType DEF TypeOK
  <2>3. /\ bg' = bg \/ bg' = [bg EXCEPT ![e] = "reload"]
        /\ attrs' = [r \in Request |-> attrs'[r]]
    BY <1>3, InvType DEF Start, Functions
  <2>4. Functions'
    BY <1>2, <2>3, InvType DEF Functions
  <2>5. faults' \in 0..MaxFaults /\ LimiterTypeOK'
    BY <1>2, <2>1, InvType, FaultType DEF TypeOK, LimiterTypeOK
  <2>6. TypeOK'
    BY <1>2, <2>1, <2>2, <2>3, <2>5, InvType DEF TypeOK, EventType
  <2>7. QED  BY <2>4, <2>6
<1>5. Others(e) /\ Keeps(e)
  BY <1>1, <1>2, <1>3, InvType DEF Others, Keeps, Start, TypeOK, Stored, Moved
<1>6. \/ bg'[e] = "none" /\ event'[e].state = "received" /\ e \in hit'
      \/ bg'[e] = "none" /\ event'[e].state = "failed" /\ hit' = hit
      \/ bg'[e] = "reload" /\ event'[e].state = "received" /\ hit' = hit
  BY <1>1, <1>3, InvType DEF Start, TypeOK, Moved, Events!EventState
<1>7. Own(e)'
  BY <1>1, <1>2, <1>3, <1>6
     DEF Own, Handled, Going, Stranded, Routed, Tasked, NoTask, Stored
<1>8. QED  BY <1>4, <1>5, <1>7, LocalStep

LEMMA RestartStep ==
    ASSUME IInv, Restart
    PROVE  IInv'
<1>1. UNCHANGED <<carries, first, event, stored, tasks, rules, edits>> /\ copy' = rules
  BY DEF Restart, storeVars
<1>2. LimiterTypeOK'
  BY DEF LimiterTypeOK, Restart
<1>3. TypeOK' /\ Functions'
  BY <1>1, <1>2, InvType, FaultType
     DEF TypeOK, Functions, Restart, Answers, Received, In
<1>4. ASSUME NEW e \in Request PROVE Own(e)'
  <2>1. Own(e)
    BY DEF IInv, EventInv, Own
  <2>2. /\ http'[e] = IF http[e] \in Answers THEN http[e] ELSE "lost"
        /\ bg'[e] = "none"
    BY DEF Restart
  <2>3. /\ e \in stuck' => event[e].state = "received"
        /\ event[e].state \in {"received", "matched"} => e \in stuck' \cup hit'
    BY DEF Restart, Received, In
  <2>4. Handled(e)'
    BY <1>1, <2>1, <2>2 DEF Own, Handled, Stored, Answers
  <2>5. Going(e)' /\ Stranded(e)' /\ Routed(e)' /\ Tasked(e)'
    BY <1>1, <2>1, <2>2, <2>3
       DEF Own, Going, Stranded, Routed, Tasked, NoTask, Stored, Answers
  <2>6. QED  BY <2>4, <2>5 DEF Own
<1>5. IdsDiffer'
  BY <1>1 DEF IInv, IdsDiffer, Stored, Id
<1>6. QED  BY <1>3, <1>4, <1>5 DEF IInv, EventInv, Own

LEMMA EditStep ==
    ASSUME IInv, ReloadSecrets \/ EditRegistry \/ Limit \/ UNCHANGED vars
    PROVE  IInv'
<1>1. UNCHANGED <<http, carries, bg, attrs, match, first, event, stored, tasks, faults, hit,
                  stuck>>
  BY DEF ReloadSecrets, EditRegistry, Limit, vars, requestVars, goVars, storeVars, faultVars
<1>2. LimiterTypeOK'
  <2>1. CASE Limit
    BY <2>1, InvType, TickIsRefill, CleanupIsStutter DEF Limit, TypeOK
  <2>2. CASE UNCHANGED bucket
    BY <2>2, InvType DEF TypeOK, LimiterTypeOK
  <2>3. QED  BY <2>1, <2>2 DEF ReloadSecrets, EditRegistry, vars
<1>3. {rules, copy}' \subseteq Registries /\ edits' \in 0..MaxEdits
  BY InvType, IntakeAssumption
     DEF ReloadSecrets, EditRegistry, Limit, Edit, vars, configVars, TypeOK, IntakeAssumption
<1>4. TypeOK' /\ Functions'
  BY <1>1, <1>2, <1>3, InvType DEF TypeOK, Functions
<1>5. \A e \in Request : Own(e)'
  BY <1>1 DEF IInv, EventInv, Own, Handled, Going, Tasked, NoTask, Stranded, Routed, Stored
<1>6. IdsDiffer'
  BY <1>1 DEF IInv, IdsDiffer, Stored, Id
<1>7. QED  BY <1>4, <1>5, <1>6 DEF IInv, EventInv, Own

LEMMA InvInit == Init => IInv
<1> SUFFICES ASSUME Init PROVE IInv
  OBVIOUS
<1>1. /\ event \in [Request -> Events!EventRow]
      /\ \A r \in Request : event[r].state = "absent"
  BY DEF Init, Events!Init, Events!EventRow, Events!EventState
<1>2. LimiterTypeOK
  BY LimiterStart DEF Init
<1>3. faults \in 0..MaxFaults /\ edits \in 0..MaxEdits
  BY IntakeAssumption DEF Init, IntakeAssumption
<1>4. TypeOK
  BY <1>1, <1>2, <1>3 DEF Init, TypeOK, Answers
<1>5. Functions
  BY DEF Init, Functions
<1>6. \A e \in Request : Own(e)
  BY <1>1 DEF Init, Own, Handled, Going, Tasked, NoTask, Stranded, Routed, Stored
<1>7. IdsDiffer
  BY <1>1 DEF IdsDiffer, Stored
<1>8. QED  BY <1>4, <1>5, <1>6, <1>7 DEF IInv, EventInv, Own

LEMMA InvStep == IInv /\ [Next]_vars => IInv'
BY ArriveStep, DeliveryExistsStep, InsertStep, AnswerStep, ReloadStep, MatchStep, HydrateStep,
   SetMatchedStep, SetFailedStep, CreateTaskStep, SetDispatchedStep, UndoStep,
   RecoverEventStep, RestartStep, EditStep
   DEF Next

LEMMA Invariant == Spec => []IInv
BY InvInit, InvStep, PTL DEF Spec

-----------------------------------------------------------------------------
(* The variables keep their types, for any numbers of requests, deliveries, *)
(* workers and faults.                                                      *)
THEOREM TypeCorrect == Spec => []TypeOK
BY Invariant, PTL DEF IInv

(* A delivery with an id becomes one task of one worker, whatever requests  *)
(* carry it at once and whatever crashes and edits happen (webhook.go:67-93,*)
(* recover.go:50-85).                                                       *)
THEOREM DeliveredOnce == Spec => []OneTaskPerDelivery
<1>1. IInv => OneTaskPerDelivery
  <2> SUFFICES ASSUME IInv, NEW d \in KeyedDeliveries
               PROVE  Cardinality({t \in Request \X DOMAIN Worker :
                         carries[t[1]] = d /\ tasks[t[1]][t[2]] # "none"}) <= 1
    BY DEF OneTaskPerDelivery
  <2> DEFINE S == {t \in Request \X DOMAIN Worker :
                      carries[t[1]] = d /\ tasks[t[1]][t[2]] # "none"}
  <2>1. ASSUME NEW t \in S, NEW u \in S PROVE t = u
    <3>1. /\ t[1] \in Request /\ t[2] \in DOMAIN Worker
          /\ u[1] \in Request /\ u[2] \in DOMAIN Worker
          /\ t = <<t[1], t[2]>> /\ u = <<u[1], u[2]>>
      OBVIOUS
    <3>2. Stored(t[1]) /\ Stored(u[1])
      BY <3>1 DEF IInv, EventInv, Tasked, NoTask, Stored
    <3>3. Id(t[1]) = d /\ Id(u[1]) = d
      <4>1. HasId(d) /\ carries[t[1]] = d /\ carries[u[1]] = d
        BY DEF KeyedDeliveries
      <4>2. \A r : IdOf(d, r) = d
        BY <4>1 DEF IdOf, HasId
      <4>3. QED  BY <4>1, <4>2 DEF Id
    <3>4. d # NoId
      BY IntakeAssumption DEF IntakeAssumption, KeyedDeliveries
    <3>5. t[1] = u[1]
      BY <3>1, <3>2, <3>3, <3>4 DEF IInv, IdsDiffer
    <3>6. t[2] = u[2]
      BY <3>1, <3>5 DEF IInv, EventInv, Tasked
    <3>7. QED  BY <3>1, <3>5, <3>6
  <2> HIDE DEF S
  <2>2. CASE S = {}
    BY <2>2, FS_EmptySet DEF S
  <2>3. CASE S # {}
    <3>1. PICK t : t \in S
      BY <2>3
    <3>2. S = {t}
      BY <2>1, <3>1
    <3>3. Cardinality(S) = 1
      BY <3>2, FS_Singleton
    <3>4. QED  BY <3>3 DEF S
  <2>4. QED  BY <2>2, <2>3
<1>2. QED  BY <1>1, Invariant, PTL

(* What a platform has been told is accepted or a duplicate is in the table *)
(* (webhook.go:73-95).                                                      *)
THEOREM AcceptanceLasts == Spec => []AcceptedIsDurable
<1>1. IInv => AcceptedIsDurable
  BY DEF IInv, EventInv, Handled, AcceptedIsDurable
<1>2. QED  BY <1>1, Invariant, PTL

(* No event is left in `received' or `matched' unless one of its statements *)
(* failed or the process died once it was matched (webhook.go:115-194,      *)
(* recover.go:53-85).                                                       *)
THEOREM OnlyFaultsStrand == Spec => []StrandedOnlyByFault
<1>1. IInv => StrandedOnlyByFault
  BY DEF IInv, EventInv, Stranded, StrandedOnlyByFault
<1>2. QED  BY <1>1, Invariant, PTL

(* The choice of a worker is a function of the registry and the attributes  *)
(* (registry.go:200-212).                                                   *)
LEMMA TakerIsUnique ==
    ASSUME NEW list, NEW d, NEW have, DOMAIN list = DOMAIN Worker,
           NEW v \in FirstTaker(list, d, have), NEW w \in FirstTaker(list, d, have)
    PROVE  v = w
<1>1. /\ v \in DOMAIN Worker /\ w \in DOMAIN Worker
      /\ Worker[v] <= Worker[w] /\ Worker[w] <= Worker[v]
  BY DEF FirstTaker, Takers
<1>2. Worker[v] \in Nat /\ Worker[w] \in Nat
  BY <1>1, IntakeAssumption DEF IntakeAssumption
<1>3. Worker[v] = Worker[w]
  BY <1>1, <1>2
<1>4. QED  BY <1>1, <1>3, IntakeAssumption DEF IntakeAssumption

(* What is not a large number stays as Parse has made it: in the row, in    *)
(* memory and in what the first match went by.                              *)
Verbatim(d, have) == \A k \in DOMAIN have \ d.large : have[k] = "plain"

Worded(e) == /\ Stored(e) => Verbatim(carries[e], stored[e])
             /\ bg[e] # "none" => Verbatim(carries[e], attrs[e])
             /\ first[e] # NoMatch => http[e] # "idle" /\ Verbatim(carries[e], first[e].have)

Wording == \A e \in Request : Worded(e)

LEMMA Verbatims ==
    ASSUME NEW d, NEW have, Verbatim(d, have)
    PROVE  /\ Verbatim(d, Attrs(d)) /\ Verbatim(d, ReadBack(d, have))
           /\ \A more \in Hydrations(d, have) : Verbatim(d, more)
<1>1. Verbatim(d, Attrs(d)) /\ Verbatim(d, ReadBack(d, have))
  BY DEF Verbatim, Attrs, ReadBack
<1>2. \A keys : Verbatim(d, Added(have, keys))
  BY DEF Verbatim, Added
<1>3. QED  BY <1>1, <1>2 DEF Hydrations

LEMMA MatchesAgain ==
    ASSUME IInv, Wording, NEW e \in Request, Again(e), Match(e)
    PROVE  match'[e].worker = first[e].worker /\ event' = event
<1> DEFINE d == carries[e]
           was == first[e].have
           now == attrs[e]
<1>1. /\ first[e].worker \in FirstTaker(copy, d, was)
      /\ DOMAIN copy = DOMAIN Worker
  BY InvType, IntakeAssumption DEF IInv, Routed, Again, TypeOK, IntakeAssumption
<1>2. ASSUME NEW k, k \notin d.large PROVE Printed(was, k) = Printed(now, k)
  <2>1. DOMAIN was = DOMAIN now
    BY DEF Again
  <2>2. Verbatim(d, was) /\ Verbatim(d, now)
    BY DEF Wording, Worded, Again, Match
  <2>3. k \in DOMAIN was => was[k] = "plain" /\ now[k] = "plain"
    BY <1>2, <2>1, <2>2 DEF Verbatim
  <2>4. QED  BY <2>1, <2>3 DEF Printed
<1>3. ASSUME NEW w \in DOMAIN copy, NEW i \in DOMAIN copy[w]
      PROVE  Fits(copy[w][i], d, was) <=> Fits(copy[w][i], d, now)
  <2>1. \A k \in DOMAIN copy[w][i].filter : k \notin d.large
    BY DEF Again, Unfiltered
  <2>2. QED  BY <1>2, <2>1 DEF Fits, MatchesRule
<1>4. Takers(copy, d, was) = Takers(copy, d, now)
  BY <1>3 DEF Takers
<1>5. first[e].worker \in FirstTaker(copy, d, now) /\ Takers(copy, d, now) # {}
  BY <1>1, <1>4 DEF FirstTaker
<1>6. PICK w \in FirstTaker(copy, d, now) :
          /\ match' = [match EXCEPT ![e] = [worker |-> w, rule |-> FirstRule(copy[w], d, now)]]
          /\ event' = event
  BY <1>5 DEF Match
<1>7. match'[e].worker = w /\ w = first[e].worker
  BY <1>1, <1>5, <1>6, InvType, TakerIsUnique DEF Functions
<1>8. QED  BY <1>6, <1>7

LEMMA WordingStep == IInv /\ Wording /\ [Next]_vars => Wording'
<1> SUFFICES ASSUME IInv, Wording, [Next]_vars, NEW q \in Request
             PROVE  Worded(q)'
  BY DEF Wording
<1>1. Worded(q) /\ Own(q) /\ EventType /\ Functions
  BY InvType DEF IInv, EventInv, Own, Wording
<1>2. Stored(q) => http[q] # "idle"
  BY <1>1 DEF Own, Handled
<1>3. ASSUME UNCHANGED <<stored, attrs, first, carries>>,
             Stored(q)' <=> Stored(q), bg'[q] # "none" => bg[q] # "none",
             http[q] # "idle" => http'[q] # "idle"
      PROVE  Worded(q)'
  BY <1>1, <1>3 DEF Worded
<1>4. ASSUME NEW r \in Request, NEW d \in Deliveries, Arrive(r, d) PROVE Worded(q)'
  <2>1. UNCHANGED <<stored, attrs, first, event, bg>> /\ http[r] = "idle"
    BY <1>4 DEF Arrive, goVars, storeVars
  <2>2. q # r => carries'[q] = carries[q] /\ http'[q] = http[q]
    BY <1>4, InvType DEF Arrive, Reply, TypeOK
  <2>3. q = r => ~Stored(q) /\ bg[q] = "none" /\ first[q] = NoMatch
    BY <1>1, <2>1 DEF Own, Handled, Going, Worded
  <2>4. QED  BY <1>1, <2>1, <2>2, <2>3 DEF Worded, Stored
<1>5. ASSUME NEW r \in Request, Insert(r) PROVE Worded(q)'
  <2>1. UNCHANGED <<attrs, first, carries, bg>> /\ (http[q] # "idle" => http'[q] # "idle")
    BY <1>5, InvType DEF Insert, goVars, Reply, TypeOK
  <2>2. \/ UNCHANGED <<event, stored>>
        \/ Moved(r, {"absent"}, "received") /\ stored' = [stored EXCEPT ![r] = Attrs(carries[r])]
    BY <1>1, <1>5, EventMoves DEF Insert
  <2>3. Stored(q)' => Verbatim(carries[q], stored'[q])
    BY <1>1, <2>2, Verbatims DEF Worded, Moved, Stored, Functions, Verbatim, Attrs
  <2>4. QED  BY <1>1, <2>1, <2>3 DEF Worded
<1>6. ASSUME NEW r \in Request, Answer(r) PROVE Worded(q)'
  <2>1. /\ UNCHANGED <<stored, event, first, carries>> /\ (http[q] # "idle" => http'[q] # "idle")
        /\ attrs' = [attrs EXCEPT ![r] = Attrs(carries[r])] /\ bg' = [bg EXCEPT ![r] = "reload"]
    BY <1>6, InvType DEF Answer, storeVars, Reply, TypeOK, Start
  <2>2. bg'[q] # "none" => Verbatim(carries[q], attrs'[q])
    BY <1>1, <2>1, InvType DEF Worded, Functions, Verbatim, Attrs, TypeOK
  <2>3. QED  BY <1>1, <2>1, <2>2 DEF Worded, Stored
<1>7. ASSUME NEW e \in Request, Match(e) PROVE Worded(q)'
  <2>1. UNCHANGED <<stored, attrs, carries, http>> /\ bg[e] = "match"
    BY <1>7, GoingFrame DEF Match
  <2>2. Stored(q)' <=> Stored(q)
    BY <1>1, <1>7, EventMoves DEF Match, Moved, Stored
  <2>3. bg'[q] # "none" => bg[q] # "none"
    BY <1>7, <2>1, InvType DEF Match, Return, Goto, TypeOK
  <2>4. first'[q] = first[q] \/ (q = e /\ first'[q].have = attrs[q])
    BY <1>1, <1>7 DEF Match, Functions
  <2>5. q = e => http[q] # "idle" /\ Verbatim(carries[q], attrs[q])
    BY <1>1, <1>2, <2>1 DEF Worded, Own, Going
  <2>6. QED  BY <1>1, <2>1, <2>2, <2>3, <2>4, <2>5 DEF Worded
<1>8. ASSUME NEW e \in Request, Hydrate(e) PROVE Worded(q)'
  <2>1. UNCHANGED <<first, event, carries, http>> /\ bg[e] = "hydrate"
    BY <1>8, GoingFrame DEF Hydrate
  <2>2. PICK have \in Hydrations(carries[e], attrs[e]) :
           /\ attrs' = [attrs EXCEPT ![e] = have]
           /\ stored' = [stored EXCEPT ![e] = have] \/ stored' = stored
    BY <1>8 DEF Hydrate
  <2>3. q = e => Verbatim(carries[q], have)
    BY <1>1, <2>1, <2>2, Verbatims DEF Worded
  <2>4. bg'[q] # "none" => bg[q] # "none"
    BY <1>8, <2>1, InvType DEF Hydrate, Goto, TypeOK
  <2>5. QED  BY <1>1, <2>1, <2>2, <2>3, <2>4 DEF Worded, Functions, Stored
<1>9. ASSUME NEW e \in Request, RecoverEvent(e) PROVE Worded(q)'
  <2>1. UNCHANGED <<stored, first, carries, http>>
    BY <1>9 DEF RecoverEvent, requestVars
  <2>2. Stored(q)' <=> Stored(q)
    BY <1>1, <1>9, EventMoves DEF RecoverEvent, Moved, Stored, Events!EventState
  <2>3. \/ UNCHANGED <<bg, attrs>>
        \/ /\ attrs' = [attrs EXCEPT ![e] = ReadBack(carries[e], stored[e])]
           /\ bg' = [bg EXCEPT ![e] = "reload"]
    BY <1>9 DEF RecoverEvent, Start
  <2>4. q = e => Verbatim(carries[q], ReadBack(carries[q], stored[q]))
    BY <1>1, <1>9, Verbatims DEF RecoverEvent, Worded, Own, Going, Stored
  <2>5. bg'[q] # "none" => Verbatim(carries[q], attrs'[q])
    BY <1>1, <2>3, <2>4, InvType DEF Worded, Functions, TypeOK
  <2>6. QED  BY <1>1, <2>1, <2>2, <2>5 DEF Worded
<1>10. CASE Restart
  <2>1. /\ UNCHANGED <<stored, first, carries, event>> /\ bg'[q] = "none"
        /\ http[q] # "idle" => http'[q] # "idle"
    BY <1>10 DEF Restart, storeVars
  <2>2. QED  BY <1>1, <2>1 DEF Worded, Stored
<1>11. ASSUME NEW e \in Request,
              DeliveryExists(e) \/ Reload(e) \/ SetMatched(e) \/ SetFailed(e)
              \/ CreateTask(e) \/ SetDispatched(e) \/ Undo(e)
       PROVE  Worded(q)'
  <2>1. UNCHANGED <<stored, attrs, first, carries>>
    BY <1>11 DEF DeliveryExists, Reload, SetMatched, SetFailed, CreateTask, SetDispatched,
                 Undo, GoUnchanged, goVars, storeVars, requestVars
  <2>2. \/ event' = event \/ Events!SetMatched(e) \/ Events!SetFailed(e)
        \/ Events!SetDispatched(e)
    BY <1>11 DEF DeliveryExists, Reload, SetMatched, SetFailed, CreateTask, SetDispatched,
                 Undo, storeVars
  <2>3. Stored(q)' <=> Stored(q)
    BY <1>1, <2>2, EventMoves DEF Moved, Stored, Events!EventState
  <2>4. http[q] # "idle" => http'[q] # "idle"
    BY <1>11, InvType DEF DeliveryExists, Reload, SetMatched, SetFailed, CreateTask,
       SetDispatched, Undo, GoUnchanged, requestVars, Reply, TypeOK
  <2>5. bg'[q] # "none" => bg[q] # "none"
    BY <1>11, InvType DEF DeliveryExists, Reload, SetMatched, SetFailed, CreateTask,
       SetDispatched, Undo, goVars, Goto, Return, TypeOK
  <2>6. QED  BY <1>3, <2>1, <2>3, <2>4, <2>5
<1>12. CASE ReloadSecrets \/ EditRegistry \/ Limit \/ UNCHANGED vars
  BY <1>3, <1>12
     DEF ReloadSecrets, EditRegistry, Limit, vars, requestVars, goVars, storeVars, Stored
<1>13. QED
  BY <1>4, <1>5, <1>6, <1>7, <1>8, <1>9, <1>10, <1>11, <1>12 DEF Next

(* An event matched again after a crash, on the copy of the registry it was *)
(* matched on at first and before hydration has added anything, goes to the *)
(* same worker and is not skipped, if no rule filters on a large number     *)
(* (webhook.go:115-130, recover.go:53-85, events/helpers.go:20-47).         *)
THEOREM RouteIsStable == Spec => RouteSurvivesCrash
<1> DEFINE SameWay(e) ==
              /\ match'[e] \in {NoMatch, match[e]} \/ match'[e].worker = first[e].worker
              /\ event'[e].state = "skipped" => event[e].state = "skipped"
<1>1. ASSUME IInv, Wording, [Next]_vars, NEW e \in Request, Again(e) PROVE SameWay(e)
  <2>1. CASE Match(e)
    BY <1>1, <2>1, MatchesAgain
  <2>2. ASSUME NEW q \in Request, q # e, Match(q) PROVE SameWay(e)
    BY <1>1, <2>2, InvType, EventMoves DEF Match, Functions, Moved
  <2>3. CASE Restart
    BY <2>3 DEF Restart, storeVars
  <2>4. CASE match' = match /\ event' = event
    BY <2>4
  <2>5. ASSUME NEW q \in Request, match' = match,
               \/ Events!Create(q) \/ Events!SetMatched(q) \/ Events!SetDispatched(q)
               \/ Events!SetFailed(q)
        PROVE  SameWay(e)
    BY <1>1, <2>5, InvType, EventMoves DEF Moved
  <2>6. QED
    BY <1>1, <2>1, <2>2, <2>3, <2>4, <2>5
       DEF Next, vars, goVars, storeVars, Arrive, DeliveryExists, Insert, Answer, Reload,
           Hydrate, SetMatched, SetFailed, CreateTask, SetDispatched, Undo, RecoverEvent,
           ReloadSecrets, EditRegistry, Limit
<1> DEFINE Rematch == \A e \in Request : Again(e) => SameWay(e)
<1>2. IInv /\ Wording /\ [Next]_vars => [Rematch]_vars
  BY <1>1
<1>3. Init => Wording
  BY DEF Init, Events!Init, Wording, Worded, Stored
<1>4. Spec => []Wording
  BY <1>3, WordingStep, Invariant, PTL DEF Spec
<1>5. QED  BY <1>2, <1>4, Invariant, PTL DEF Spec, RouteSurvivesCrash

(* Between two restarts, webhooks are let through as by buckets that are    *)
(* never deleted (ratelimit.go:38-78).                                      *)
THEOREM LimiterIsKept == Spec => LimiterKept
<1>1. ASSUME IInv, [Next]_vars PROVE [Ideal!Next \/ Restart]_Levels
  <2>1. CASE UNCHANGED bucket
    BY <2>1 DEF Levels, Level
  <2>2. CASE Restart
    BY <2>2
  <2>3. CASE \E r \in Request : \E d \in Deliveries : Arrive(r, d)
    <3>1. PICK r \in Request, d \in Deliveries : Arrive(r, d)
      BY <2>3
    <3>2. d.source \in Key
      BY IntakeAssumption DEF IntakeAssumption
    <3>3. UNCHANGED bucket \/ Exceeds(d.source) \/ Allow(d.source)
      BY <3>1 DEF Arrive
    <3>4. QED
      BY <2>1, <3>2, <3>3, <1>1, InvType, AllowIsTake, ExceedsIsStutter
         DEF Ideal!Next, TypeOK
  <2>4. CASE Limit
    BY <2>4, <1>1, InvType, TickIsRefill, CleanupIsStutter DEF Limit, Ideal!Next, TypeOK
  <2>5. QED
    BY <1>1, <2>1, <2>2, <2>3, <2>4
       DEF Next, vars, DeliveryExists, Insert, Answer, Reload, Match, Hydrate, SetMatched, SetFailed,
           CreateTask, SetDispatched, Undo, GoUnchanged, RecoverEvent, ReloadSecrets,
           EditRegistry
<1>2. QED  BY <1>1, Invariant, PTL DEF Spec, LimiterKept

-----------------------------------------------------------------------------
(* The refinement of Inbox.  A step of one request or event leaves the     *)
(* other rows alone, in Intake and so in Inbox.                            *)
EntryStep(e) ==
    \/ \E d \in Deliveries : Arrive(e, d)
    \/ DeliveryExists(e) \/ Insert(e) \/ Answer(e)
    \/ Reload(e) \/ Match(e) \/ Hydrate(e) \/ SetMatched(e) \/ SetFailed(e)
    \/ CreateTask(e) \/ SetDispatched(e) \/ Undo(e) \/ RecoverEvent(e)

Told(r) == http[r] \in {"accepted", "duplicate"}

Apart(e) == \A q \in Request \ {e} :
    /\ event'[q].state = event[q].state /\ carries'[q] = carries[q]
    /\ http'[q] = http[q] /\ tasks'[q] = tasks[q]

LEMMA EntryApart ==
    ASSUME IInv, NEW e \in Request, EntryStep(e)
    PROVE  Apart(e)
<1>1. ASSUME NEW q \in Request, q # e
      PROVE  event'[q].state = event[q].state
  <2>1. \/ event' = event          \/ Events!Create(e)        \/ Events!SetSkipped(e)
        \/ Events!SetMatched(e)    \/ Events!SetDispatched(e) \/ Events!SetFailed(e)
    BY DEF EntryStep, Arrive, DeliveryExists, Insert, Answer, Reload, Match, Hydrate,
           SetMatched, SetFailed, CreateTask, SetDispatched, Undo, RecoverEvent, storeVars
  <2>2. QED  BY <1>1, <2>1, InvType, EventMoves DEF Moved
<1>2. ASSUME NEW q \in Request, q # e
      PROVE  carries'[q] = carries[q] /\ http'[q] = http[q]
  <2>1. /\ carries' = carries \/ \E d : carries' = [carries EXCEPT ![e] = d]
        /\ http' = http \/ \E status : Reply(e, status)
    BY DEF EntryStep, Arrive, DeliveryExists, Insert, Answer, Reload, Match, Hydrate,
           SetMatched, SetFailed, CreateTask, SetDispatched, Undo, RecoverEvent, GoUnchanged, requestVars
  <2>2. QED  BY <1>2, <2>1, InvType DEF TypeOK, Reply
<1>3. ASSUME NEW q \in Request, q # e
      PROVE  tasks'[q] = tasks[q]
  <2>1. tasks' = tasks \/ \E state : SetTask(e, state)
    BY DEF EntryStep, Arrive, DeliveryExists, Insert, Answer, Reload, Match, Hydrate,
           SetMatched, SetFailed, CreateTask, SetDispatched, Undo, RecoverEvent, storeVars
  <2>2. QED  BY <1>3, <2>1, InvType DEF TypeOK, SetTask
<1>4. QED  BY <1>1, <1>2, <1>3 DEF Apart

LEMMA OneEntry ==
    ASSUME NEW f, NEW g, f = [r \in Request |-> f[r]], g = [r \in Request |-> g[r]],
           NEW e \in Request, \A q \in Request \ {e} : g[q] = f[q]
    PROVE  g = [f EXCEPT ![e] = g[e]]
OBVIOUS

LEMMA BoxDomains == /\ Items = [r \in Request |-> Items[r]]
                    /\ Items' = [r \in Request |-> Items'[r]]
                    /\ Stage = [r \in Request |-> Stage[r]]
                    /\ Stage' = [r \in Request |-> Stage'[r]]
                    /\ Given = [r \in Request |-> Given[r]]
                    /\ Given' = [r \in Request |-> Given'[r]]
<1>1. Items = [r \in Request |-> Items[r]] /\ Items' = [r \in Request |-> Items'[r]]
  BY Zenon DEF Items
<1>2. Stage = [r \in Request |-> Stage[r]] /\ Stage' = [r \in Request |-> Stage'[r]]
  BY Zenon DEF Stage
<1>3. Given = [r \in Request |-> Given[r]] /\ Given' = [r \in Request |-> Given'[r]]
  BY Zenon DEF Given
<1>4. QED  BY <1>1, <1>2, <1>3

LEMMA BoxFrame ==
    ASSUME NEW e \in Request, Apart(e)
    PROVE  /\ Items' = [Items EXCEPT ![e] = Items'[e]]
           /\ Stage' = [Stage EXCEPT ![e] = Stage'[e]]
           /\ Given' = [Given EXCEPT ![e] = Given'[e]]
           /\ (Told(e)' <=> Told(e)) /\ (Told(e) => carries'[e] = carries[e])
                 => Promised' = Promised
           /\ ~Told(e) /\ Told(e)' => Promised' = Promised \cup {carries'[e]}
<1>1. ASSUME NEW q \in Request, q # e
      PROVE  /\ Items'[q] = Items[q] /\ Stage'[q] = Stage[q] /\ Given'[q] = Given[q]
             /\ (Told(q)' <=> Told(q)) /\ carries'[q] = carries[q]
  BY <1>1 DEF Apart, Items, Stage, Given, Told, Stored
<1>2. /\ Items' = [Items EXCEPT ![e] = Items'[e]]
      /\ Stage' = [Stage EXCEPT ![e] = Stage'[e]]
      /\ Given' = [Given EXCEPT ![e] = Given'[e]]
  BY <1>1, BoxDomains, OneEntry
<1>3. Promised = {carries[r] : r \in {q \in Request : Told(q)}}
  BY DEF Promised, Told
<1>4. Promised' = {carries'[r] : r \in {q \in Request : Told(q)'}}
  BY DEF Promised, Told
<1>5. QED  BY <1>1, <1>2, <1>3, <1>4

(* What the row of one entry has to show for each step of Inbox.           *)
Same(e) == Items'[e] = Items[e] /\ Stage'[e] = Stage[e] /\ Given'[e] = Given[e]
Quiet(e) == (Told(e)' <=> Told(e)) /\ (Told(e) => carries'[e] = carries[e])

LEMMA BoxSame ==
    ASSUME NEW e \in Request, Apart(e), Quiet(e), Same(e)
    PROVE  UNCHANGED Box!inboxVars
<1>1. /\ Items' = [Items EXCEPT ![e] = Items[e]] /\ Stage' = [Stage EXCEPT ![e] = Stage[e]]
      /\ Given' = [Given EXCEPT ![e] = Given[e]] /\ Promised' = Promised
  BY BoxFrame DEF Same, Quiet
<1>2. /\ Items = [r \in Request |-> Items[r]] /\ Stage = [r \in Request |-> Stage[r]]
      /\ Given = [r \in Request |-> Given[r]]
  BY DEF Items, Stage, Given
<1>3. QED  BY <1>1, <1>2 DEF Box!inboxVars

LEMMA BoxFile ==
    ASSUME NEW e \in Request, Apart(e), Quiet(e), NEW d \in Deliveries,
           Items[e] = NoDelivery, Items'[e] = d, Stage'[e] = "open", Given'[e] = Given[e],
           d \in KeyedDeliveries => \A q \in Request : Items[q] # d
    PROVE  Box!Next
<1>1. Given' = Given
  <2>1. Given' = [Given EXCEPT ![e] = Given[e]] /\ Given = [r \in Request |-> Given[r]]
    BY BoxFrame DEF Given
  <2>2. QED  BY <2>1
<1>2. Box!File(e, d)
  BY <1>1, BoxFrame DEF Box!File, Quiet
<1>3. QED  BY <1>2 DEF Box!Next

LEMMA BoxPromise ==
    ASSUME NEW e \in Request, Apart(e), Same(e), ~Told(e), Told(e)',
           carries'[e] \in Deliveries, \E q \in Request : Items[q] = carries'[e]
    PROVE  Box!Next
<1>1. /\ Items' = [Items EXCEPT ![e] = Items[e]] /\ Stage' = [Stage EXCEPT ![e] = Stage[e]]
      /\ Given' = [Given EXCEPT ![e] = Given[e]]
      /\ Promised' = Promised \cup {carries'[e]}
  BY BoxFrame DEF Same
<1>2. /\ Items = [r \in Request |-> Items[r]] /\ Stage = [r \in Request |-> Stage[r]]
      /\ Given = [r \in Request |-> Given[r]]
  BY DEF Items, Stage, Given
<1>3. Box!Promise(carries'[e])
  BY <1>1, <1>2 DEF Box!Promise
<1>4. QED  BY <1>3 DEF Box!Next

LEMMA BoxGive ==
    ASSUME NEW e \in Request, Apart(e), Quiet(e), NEW w \in DOMAIN Worker,
           Items'[e] = Items[e], Stage'[e] = Stage[e], Stage[e] = "open",
           Given[e] = {}, Given'[e] = {w}
    PROVE  Box!Next
<1>1. /\ Items' = [Items EXCEPT ![e] = Items[e]] /\ Stage' = [Stage EXCEPT ![e] = Stage[e]]
      /\ Given' = [Given EXCEPT ![e] = {w}] /\ Promised' = Promised
  BY BoxFrame DEF Quiet
<1>2. Items = [r \in Request |-> Items[r]] /\ Stage = [r \in Request |-> Stage[r]]
  BY DEF Items, Stage
<1>3. Box!Give(e, w)
  BY <1>1, <1>2 DEF Box!Give
<1>4. QED  BY <1>3 DEF Box!Next

LEMMA BoxEnd ==
    ASSUME NEW e \in Request, Apart(e), Quiet(e),
           Items'[e] = Items[e], Given'[e] = Given[e], Stage[e] = "open",
           \/ Given[e] = {} /\ Stage'[e] \in {"skipped", "failed"}
           \/ Given[e] # {} /\ Stage'[e] = "dispatched"
    PROVE  Box!Next
<1>1. /\ Items' = [Items EXCEPT ![e] = Items[e]] /\ Given' = [Given EXCEPT ![e] = Given[e]]
      /\ Stage' = [Stage EXCEPT ![e] = Stage'[e]] /\ Promised' = Promised
  BY BoxFrame DEF Quiet
<1>2. Items = [r \in Request |-> Items[r]] /\ Given = [r \in Request |-> Given[r]]
  BY DEF Items, Given
<1>3. Items' = Items /\ Given' = Given
  BY <1>1, <1>2
<1>4. Box!Close(e) \/ Box!Dispatch(e)
  BY <1>1, <1>3 DEF Box!Close, Box!Dispatch
<1>5. QED  BY <1>4 DEF Box!Next
(* A handler files its delivery, or promises one that is filed.            *)
LEMMA HandlerBox ==
    ASSUME IInv, NEW r \in Request,
           (\E d \in Deliveries : Arrive(r, d)) \/ DeliveryExists(r) \/ Insert(r) \/ Answer(r)
    PROVE  Box!Next \/ UNCHANGED Box!inboxVars
<1>1. Apart(r)
  BY EntryApart DEF EntryStep
<1>2. Own(r) /\ tasks' = tasks /\ Given'[r] = Given[r]
  BY DEF IInv, EventInv, Own, Arrive, DeliveryExists, Insert, Answer, storeVars, Given
<1>3. ASSUME event' = event, ~Stored(r) \/ carries' = carries PROVE Same(r)
  BY <1>2, <1>3 DEF Same, Items, Stage, Stored
<1>4. CASE \E d \in Deliveries : Arrive(r, d)
  <2>1. http[r] = "idle" /\ http'[r] \in {"refused", "check"} /\ event' = event
    BY <1>4, InvType DEF Arrive, Reply, TypeOK, storeVars
  <2>2. Same(r) /\ Quiet(r)
    BY <1>2, <1>3, <2>1 DEF Own, Handled, Quiet, Told
  <2>3. QED  BY <1>1, <2>2, BoxSame
<1>5. CASE DeliveryExists(r)
  <2>1. /\ http[r] = "check" /\ carries' = carries /\ Same(r)
        /\ \/ http'[r] = "duplicate" /\ Known(r)
           \/ http'[r] \in {"insert", "error"}
    BY <1>3, <1>5, InvType DEF DeliveryExists, Reply, TypeOK, storeVars
  <2>2. CASE http'[r] \in {"insert", "error"}
    BY <1>1, <2>1, <2>2, BoxSame DEF Quiet, Told
  <2>3. CASE http'[r] = "duplicate" /\ Known(r)
    <3>1. \E q \in Request : Items[q] = carries'[r]
      BY <2>1, <2>3, KnownDelivery DEF Items
    <3>2. carries'[r] \in Deliveries
      BY <1>2, <2>1 DEF Own, Handled
    <3>3. QED  BY <1>1, <2>1, <2>3, <3>1, <3>2, BoxPromise DEF Told
  <2>4. QED  BY <2>1, <2>2, <2>3
<1>6. CASE Insert(r)
  <2>1. /\ http[r] = "insert" /\ carries' = carries /\ ~Stored(r)
        /\ carries[r] \in Deliveries
    BY <1>2, <1>6 DEF Insert, Own, Handled
  <2>2. CASE ~Known(r) /\ Events!Create(r) /\ Reply(r, "answer")
    <3>1. /\ event'[r].state = "received" /\ http'[r] = "answer"
          /\ Items[r] = NoDelivery /\ Items'[r] = carries[r] /\ Stage'[r] = "open"
      BY <2>1, <2>2, InvType, EventMoves DEF Moved, Reply, TypeOK, Items, Stage, Stored
    <3>2. ASSUME carries[r] \in KeyedDeliveries,
                 NEW q \in Request, Items[q] = carries[r]
          PROVE  FALSE
      <4>1. Stored(q) /\ carries[q] = carries[r]
        BY <2>1, <3>2, IntakeAssumption DEF Items, IntakeAssumption
      <4>2. Id(q) = carries[r] /\ Id(r) = carries[r]
        <5>1. HasId(carries[r])
          BY <3>2 DEF KeyedDeliveries
        <5>2. QED  BY <4>1, <5>1 DEF Id, IdOf, HasId
      <4>3. carries[r] # NoId
        BY <2>1, IntakeAssumption DEF IntakeAssumption
      <4>4. QED  BY <2>2, <4>1, <4>2, <4>3 DEF Known
    <3>3. QED  BY <1>1, <1>2, <2>1, <3>1, <3>2, BoxFile DEF Quiet, Told
  <2>3. CASE event' = event /\ Known(r) /\ Reply(r, "duplicate")
    <3>1. http'[r] = "duplicate" /\ Same(r)
      BY <1>3, <2>1, <2>3, InvType DEF Reply, TypeOK
    <3>2. \E q \in Request : Items[q] = carries'[r]
      BY <2>1, <2>3, KnownDelivery DEF Items
    <3>3. QED  BY <1>1, <2>1, <3>1, <3>2, BoxPromise DEF Told
  <2>4. CASE event' = event /\ Reply(r, "error")
    <3>1. http'[r] = "error" /\ Same(r)
      BY <1>3, <2>1, <2>4, InvType DEF Reply, TypeOK
    <3>2. QED  BY <1>1, <2>1, <3>1, BoxSame DEF Quiet, Told
  <2>5. QED  BY <1>6, <2>2, <2>3, <2>4 DEF Insert
<1>7. CASE Answer(r)
  <2>1. /\ http[r] = "answer" /\ http'[r] = "accepted" /\ carries' = carries /\ Same(r)
    BY <1>3, <1>7, InvType DEF Answer, Reply, TypeOK, storeVars
  <2>2. carries[r] \in Deliveries /\ Items[r] = carries[r]
    BY <1>2, <2>1 DEF Own, Handled, Items, Stored
  <2>3. QED  BY <1>1, <2>1, <2>2, BoxPromise DEF Told
<1>8. QED  BY <1>4, <1>5, <1>6, <1>7

(* What the statements of matchAndHydrate and recoverEvents make of an     *)
(* entry that is open and has no task yet.                                 *)
LEMMA GoingBox ==
    ASSUME IInv, NEW e \in Request, EntryStep(e), UNCHANGED <<http, carries>>, Stored(e)
    PROVE  Box!Next \/ UNCHANGED Box!inboxVars
<1>1. Apart(e) /\ Quiet(e) /\ Own(e)
  BY EntryApart DEF Quiet, Told, IInv, EventInv, Own
<1>2. Given[e] = {w \in DOMAIN Worker : tasks[e][w] # "none"}
  BY DEF Given
<1>3. Given'[e] = {w \in DOMAIN Worker : tasks'[e][w] # "none"}
  BY DEF Given
<1>4. ASSUME event' = event PROVE Items'[e] = Items[e] /\ Stage'[e] = Stage[e]
  BY <1>4 DEF Items, Stage, Stored
<1>5. ASSUME tasks' = tasks PROVE Given'[e] = Given[e]
  BY <1>2, <1>3, <1>5
<1>6. CASE event' = event /\ tasks' = tasks
  BY <1>1, <1>4, <1>5, <1>6, BoxSame DEF Same
<1>7. ASSUME tasks' = tasks, NoTask(e), event[e].state \in {"received", "matched"},
             event'[e].state \in {"skipped", "failed"}
      PROVE  Box!Next
  <2>1. /\ Items'[e] = Items[e] /\ Given'[e] = Given[e] /\ Given[e] = {}
        /\ Stage[e] = "open" /\ Stage'[e] \in {"skipped", "failed"}
    BY <1>2, <1>5, <1>7 DEF Items, Stage, Stored, NoTask
  <2>2. QED  BY <1>1, <2>1, BoxEnd
<1>8. CASE Match(e) \/ SetFailed(e) \/ RecoverEvent(e)
  <2>1. /\ tasks' = tasks /\ event[e].state \in {"received", "matched"} /\ NoTask(e)
        /\ event[e].state = "received" \/ ~Match(e)
    BY <1>1, <1>8 DEF Own, Going, Tasked, Match, SetFailed, RecoverEvent
  <2>2. event' = event \/ event'[e].state \in {"skipped", "failed"}
    BY <1>8, <2>1, InvType, EventMoves
       DEF Match, SetFailed, RecoverEvent, Moved, Events!EventState
  <2>3. QED  BY <1>6, <1>7, <2>1, <2>2
<1>9. CASE SetMatched(e)
  <2>1. /\ tasks' = tasks /\ event[e].state = "received"
        /\ event' = event \/ event'[e].state = "matched"
    BY <1>1, <1>9, InvType, EventMoves DEF Own, Going, SetMatched, Moved
  <2>2. event'[e].state = "matched" => Same(e)
    BY <1>5, <2>1 DEF Same, Items, Stage, Stored
  <2>3. QED  BY <1>1, <1>6, <2>1, <2>2, BoxSame
<1>10. CASE CreateTask(e)
  <2>1. /\ event' = event /\ event[e].state = "matched" /\ NoTask(e)
        /\ match[e].worker \in DOMAIN Worker
        /\ tasks' = tasks \/ SetTask(e, "pending")
    BY <1>1, <1>10 DEF Own, Going, Tasked, CreateTask
  <2>2. CASE SetTask(e, "pending")
    <3>1. \A w \in DOMAIN Worker : tasks'[e][w] # "none" <=> w = match[e].worker
      BY <2>1, <2>2, InvType DEF SetTask, TypeOK, NoTask
    <3>2. Given[e] = {} /\ Given'[e] = {match[e].worker} /\ Stage[e] = "open"
      BY <1>2, <1>3, <2>1, <3>1 DEF NoTask, Stage
    <3>3. QED  BY <1>1, <1>4, <2>1, <3>2, BoxGive
  <2>3. QED  BY <1>6, <2>1, <2>2
<1>11. CASE SetDispatched(e)
  <2>1. /\ tasks' = tasks /\ event[e].state = "matched"
        /\ Given[e] # {}
        /\ event' = event \/ event'[e].state = "dispatched"
    <3>1. /\ tasks' = tasks /\ event[e].state = "matched"
          /\ event' = event \/ Events!SetDispatched(e)
      BY <1>1, <1>11 DEF Own, Going, SetDispatched
    <3>2. match[e].worker \in Given[e]
      BY <1>1, <1>2, <1>11 DEF Own, Going, Tasked, SetDispatched
    <3>3. QED  BY <3>1, <3>2, InvType, EventMoves DEF Moved
  <2>2. CASE event'[e].state = "dispatched"
    <3>1. Items'[e] = Items[e] /\ Stage[e] = "open" /\ Stage'[e] = "dispatched"
      BY <2>1, <2>2 DEF Items, Stage, Stored
    <3>2. QED  BY <1>1, <1>5, <2>1, <3>1, BoxEnd
  <2>3. QED  BY <1>6, <2>1, <2>2
<1>12. CASE Undo(e)
  <2>1. /\ event' = event /\ (tasks' = tasks \/ SetTask(e, "failed"))
        /\ \A w \in DOMAIN Worker : tasks[e][w] # "none" <=> w = match[e].worker
    BY <1>1, <1>12 DEF Own, Tasked, Undo
  <2>2. CASE SetTask(e, "failed")
    <3>1. \A w \in DOMAIN Worker : tasks'[e][w] # "none" <=> w = match[e].worker
      BY <1>1, <1>12, <2>1, <2>2, InvType DEF SetTask, TypeOK, Own, Going, Undo
    <3>2. Given'[e] = Given[e]
      BY <1>2, <1>3, <2>1, <3>1
    <3>3. QED  BY <1>1, <1>4, <2>1, <3>2, BoxSame DEF Same
  <2>3. QED  BY <1>6, <2>1, <2>2
<1>13. Insert(e) \/ DeliveryExists(e) \/ Answer(e) \/ (\E d \in Deliveries : Arrive(e, d))
       => event' = event /\ tasks' = tasks
  BY <1>1 DEF Insert, DeliveryExists, Answer, Arrive, Own, Handled, storeVars
<1>14. Reload(e) \/ Hydrate(e) => event' = event /\ tasks' = tasks
  BY DEF Reload, Hydrate, storeVars
<1>15. QED
  BY <1>6, <1>8, <1>9, <1>10, <1>11, <1>12, <1>13, <1>14 DEF EntryStep
LEMMA InboxStep == IInv /\ [Next]_vars => [Box!Next]_Box!inboxVars
<1> SUFFICES ASSUME IInv, [Next]_vars
             PROVE  Box!Next \/ UNCHANGED Box!inboxVars
  OBVIOUS
<1>1. ASSUME NEW e \in Request, EntryStep(e)
      PROVE  Box!Next \/ UNCHANGED Box!inboxVars
  <2>1. CASE (\E d \in Deliveries : Arrive(e, d)) \/ DeliveryExists(e) \/ Insert(e) \/ Answer(e)
    BY <2>1, HandlerBox
  <2>2. CASE Reload(e) \/ Match(e) \/ Hydrate(e) \/ SetMatched(e) \/ SetFailed(e) \/ CreateTask(e)
             \/ SetDispatched(e) \/ Undo(e) \/ RecoverEvent(e)
    <3>1. UNCHANGED <<http, carries>>
      BY <2>2, GoingFrame
         DEF Reload, Match, Hydrate, SetMatched, SetFailed, CreateTask, SetDispatched, Undo,
             RecoverEvent, requestVars
    <3>2. Stored(e)
      BY <2>2
         DEF IInv, EventInv, Going, Stored, Reload, Match, Hydrate, SetMatched, SetFailed, CreateTask,
             SetDispatched, Undo, RecoverEvent
    <3>3. QED  BY <1>1, <3>1, <3>2, GoingBox
  <2>3. QED  BY <1>1, <2>1, <2>2 DEF EntryStep
<1>2. ASSUME UNCHANGED <<event, carries, tasks>>, \A r \in Request : Told(r)' <=> Told(r)
      PROVE  UNCHANGED Box!inboxVars
  <2>1. Promised = {carries[r] : r \in {q \in Request : Told(q)}}
    BY DEF Promised, Told
  <2>2. Promised' = {carries'[r] : r \in {q \in Request : Told(q)'}}
    BY DEF Promised, Told
  <2>3. QED  BY <1>2, <2>1, <2>2 DEF Box!inboxVars, Items, Stage, Given, Stored
<1>3. CASE Restart
  <2>1. \A r \in Request : Told(r)' <=> Told(r)
    BY <1>3 DEF Restart, Answers, Told
  <2>2. QED  BY <1>2, <1>3, <2>1 DEF Restart, storeVars
<1>4. CASE ReloadSecrets \/ EditRegistry \/ Limit \/ UNCHANGED vars
  BY <1>2, <1>4
     DEF ReloadSecrets, EditRegistry, Limit, vars, requestVars, storeVars, Told
<1>5. QED  BY <1>1, <1>3, <1>4 DEF Next, EntryStep

(* The whole of the intake, crashes, duplicates and failing statements     *)
(* included, is an Inbox: nothing is filed twice, nothing promised is      *)
(* missing, no event is given to a second worker, and none is dispatched   *)
(* without a task or closed with one (webhook.go:67-194, recover.go:50-85).*)
THEOREM IntakeIsInbox == Spec => ImplementsInbox
<1>1. Init => Box!Init
  BY DEF Init, Events!Init, Box!Init, Items, Stage, Given, Promised, Stored
<1>2. QED
  BY <1>1, InboxStep, Invariant, PTL DEF Spec, ImplementsInbox, Box!Spec
=============================================================================
