------------------------------- MODULE Intake -------------------------------
(***************************************************************************)
(* From a webhook to a task (internal/serve/webhook.go, match.go,          *)
(* recover.go, reload.go): platforms deliver, and deliver again what was   *)
(* not answered; each delivery becomes an event at most once, is matched   *)
(* to a worker and becomes a task.  What becomes of the task is in Serve.  *)
(*                                                                         *)
(* A request is also the id of the event it creates.                       *)
(***************************************************************************)
EXTENDS RateLimiter, Sources, Sequences, FiniteSets

CONSTANTS Request, Deliveries,
          Worker,        \* names of workers, ranked in the order of List
          Registries,    \* rules of each worker
          SecretFiles,   \* for each source its secret, or NoSource
          NoSource, NoDelivery, NoMatch,
          MaxWriteBack,
          MaxFaults, MaxEdits   \* bounds

ASSUME IntakeAssumption ==
    /\ Deliveries \subseteq Delivery /\ {d.source : d \in Deliveries} \subseteq Key
    /\ (Request \cup {NoId, NoDelivery}) \cap Deliveries = {} /\ NoId \notin Request
    /\ Worker \in [DOMAIN Worker -> Nat]
    /\ \A v, w \in DOMAIN Worker : Worker[v] = Worker[w] => v = w
    /\ \A file \in SecretFiles : DOMAIN file = Key
    /\ \A registry \in Registries : DOMAIN registry = DOMAIN Worker
    /\ {MaxFaults, MaxEdits} \subseteq Nat

VARIABLES event,       \* the rows of table events (EventStore)
          carries,     \* the delivery of each request, and of its event
          stored,      \* column attrs
          tasks,       \* the task of each event and worker
          rules,       \* the registry: what is in the table of workers
          copy,        \* the server's copy of it
          sources,     \* the secret of each registered source
          http,        \* where the handler of each request is, or its answer
          bg,          \* where the goroutine of each event is
          attrs,       \* its attributes, in memory
          match,       \* the worker it has chosen, and the rule
          stuck,       \* events recoverEvents has still to process
          faults, edits,
          first,       \* history: the first match of each event, and from what
          hit          \* history: events a fault has kept from going on

requestVars == <<http, carries>>
goVars == <<bg, attrs, match, first>>
storeVars == <<event, stored, tasks>>
configVars == <<rules, copy, sources, edits>>
faultVars == <<faults, hit>>
vars == <<requestVars, goVars, storeVars, configVars, faultVars, stuck, bucket>>

Events == INSTANCE EventStore WITH Event <- Request

Fault == faults < MaxFaults /\ faults' = faults + 1
Edit == edits < MaxEdits /\ edits' = edits + 1

(* A statement for e succeeds, or fails and e is hit. *)
Succeed == UNCHANGED faultVars
Fail(e) == Fault /\ hit' = hit \cup {e}

Stored(r) == event[r].state # "absent"
Id(r) == IdOf(carries[r], r)

-----------------------------------------------------------------------------
(* Matching.  A filter says how some attributes have to print; one that is *)
(* not there prints as <nil>.                                              *)
Printed(have, k) == IF k \in DOMAIN have THEN have[k] ELSE "<nil>"

MatchesRule(rule, d, have) ==
    /\ rule.source = d.source
    /\ Type(d) \in rule.on
    /\ \A k \in DOMAIN rule.filter : Printed(have, k) = rule.filter[k]

Fits(rule, d, have) == rule.auto /\ MatchesRule(rule, d, have)

Takers(list, d, have) ==
    {w \in DOMAIN list : \E i \in DOMAIN list[w] : Fits(list[w][i], d, have)}

AnyTaker(list, d, have) == Takers(list, d, have)  \* a variant: in the order of a Go map

(* The first worker of the list, and of its rules the first. *)
FirstTaker(list, d, have) ==
    {w \in Takers(list, d, have) : \A v \in Takers(list, d, have) : Worker[w] <= Worker[v]}

FirstRule(list, d, have) ==  \* list: of one worker
    list[CHOOSE i \in DOMAIN list :
            /\ Fits(list[i], d, have)
            /\ \A j \in 1..(i - 1) : ~Fits(list[j], d, have)]

(* renderPrompt: a template may not use a key the event does not have. *)
Renders(rule, have) == rule.uses \subseteq DOMAIN have

-----------------------------------------------------------------------------
(* handleWebhook.  A request that is refused leaves no trace. *)
Reply(r, status) == http' = [http EXCEPT ![r] = status]

Arrive(r, d) ==
    /\ http[r] = "idle" /\ stuck = {}
    /\ carries' = [carries EXCEPT ![r] = d]
    /\ \/ sources[d.source] = NoSource /\ Reply(r, "refused") /\ UNCHANGED bucket
       \/ sources[d.source] # NoSource /\ Exceeds(d.source) /\ Reply(r, "refused")
       \/ /\ sources[d.source] # NoSource /\ Allow(d.source)
          /\ Reply(r, IF Parses(d, sources[d.source]) THEN "check" ELSE "refused")
    /\ UNCHANGED <<goVars, storeVars, configVars, faultVars, stuck>>

(* Whether a row has the id r comes with; an empty id is nobody's. *)
Known(r) == Id(r) # NoId /\ \E q \in Request : Stored(q) /\ Id(q) = Id(r)

DeliveryExists(r) ==
    /\ http[r] = "check"
    /\ \/ UNCHANGED faults /\ Reply(r, IF Known(r) THEN "duplicate" ELSE "insert")
       \/ Fault /\ Reply(r, "error")
    /\ UNCHANGED <<carries, goVars, storeVars, configVars, stuck, hit, bucket>>

AnyErrorIsDuplicate(r) ==  \* a variant: isUniqueViolation says yes to any error
    /\ http[r] = "insert"
    /\ \/ /\ UNCHANGED faults /\ ~Known(r) /\ Events!Create(r) /\ Reply(r, "answer")
          /\ stored' = [stored EXCEPT ![r] = Attrs(carries[r])]
       \/ /\ Reply(r, "duplicate") /\ UNCHANGED <<event, stored>>
          /\ (Known(r) /\ UNCHANGED faults) \/ Fault
    /\ UNCHANGED <<carries, goVars, tasks, configVars, stuck, hit, bucket>>

InsertAnyway(r) ==  \* a variant: the table was rebuilt without the index
    /\ http[r] = "insert"
    /\ \/ /\ UNCHANGED faults /\ Events!Create(r) /\ Reply(r, "answer")
          /\ stored' = [stored EXCEPT ![r] = Attrs(carries[r])]
       \/ Fault /\ Reply(r, "error") /\ UNCHANGED <<event, stored>>
    /\ UNCHANGED <<carries, goVars, tasks, configVars, stuck, hit, bucket>>

(* Another request may have inserted the delivery since: idx_events_delivery. *)
Insert(r) ==
    /\ http[r] = "insert"
    /\ \/ /\ UNCHANGED faults /\ ~Known(r) /\ Events!Create(r) /\ Reply(r, "answer")
          /\ stored' = [stored EXCEPT ![r] = Attrs(carries[r])]
       \/ Known(r) /\ UNCHANGED faults /\ Reply(r, "duplicate") /\ UNCHANGED <<event, stored>>
       \/ Fault /\ Reply(r, "error") /\ UNCHANGED <<event, stored>>
    /\ UNCHANGED <<carries, goVars, tasks, configVars, stuck, hit, bucket>>

Start(e, have) == /\ bg' = [bg EXCEPT ![e] = "reload"]
                  /\ attrs' = [attrs EXCEPT ![e] = have]

Answer(r) ==
    /\ http[r] = "answer"
    /\ Reply(r, "accepted") /\ Start(r, Attrs(carries[r]))
    /\ UNCHANGED <<carries, match, first, storeVars, configVars, faultVars, stuck, bucket>>

-----------------------------------------------------------------------------
(* matchAndHydrate. *)
Goto(e, step) == bg' = [bg EXCEPT ![e] = step]
Return(e) == Goto(e, "none")

GoUnchanged == UNCHANGED <<requestVars, configVars, stuck, bucket>>

(* reg.Reload; if it fails the server goes on with the copy it has. *)
Reload(e) ==
    /\ bg[e] = "reload" /\ Goto(e, "match")
    /\ \/ copy' = rules /\ UNCHANGED faults
       \/ Fault /\ UNCHANGED copy
    /\ UNCHANGED <<requestVars, attrs, match, first, storeVars, rules, sources, edits,
                   hit, stuck, bucket>>

Match(e) ==
    /\ bg[e] = "match"
    /\ \/ \E w \in FirstTaker(copy, carries[e], attrs[e]) :
            LET m == [worker |-> w, rule |-> FirstRule(copy[w], carries[e], attrs[e])]
            IN  /\ match' = [match EXCEPT ![e] = m]
                /\ first' = [first EXCEPT ![e] = IF @ # NoMatch THEN @
                               ELSE [worker |-> w, rules |-> copy, have |-> attrs[e]]]
                /\ Goto(e, IF carries[e].source = "github" THEN "hydrate" ELSE "matched")
                /\ UNCHANGED <<event, faultVars>>
       \/ /\ Takers(copy, carries[e], attrs[e]) = {} /\ Return(e) /\ UNCHANGED <<match, first>>
          /\ (Succeed /\ Events!SetSkipped(e)) \/ (Fail(e) /\ UNCHANGED event)
    /\ UNCHANGED <<attrs, stored, tasks>> /\ GoUnchanged

(* Hydrate and UpdateAttrs; a failure of either is only logged. *)
Hydrate(e) ==
    /\ bg[e] = "hydrate" /\ Goto(e, "matched")
    /\ \E have \in Hydrations(carries[e], attrs[e]) :
          /\ attrs' = [attrs EXCEPT ![e] = have]
          /\ \/ stored' = [stored EXCEPT ![e] = have] /\ UNCHANGED faults
             \/ Fault /\ UNCHANGED stored
    /\ UNCHANGED <<match, first, event, tasks, hit>> /\ GoUnchanged

(* A template that fails fails the event. *)
SetMatched(e) ==
    /\ bg[e] = "matched"
    /\ \/ ~Renders(match[e].rule, attrs[e]) /\ Goto(e, "fail") /\ Succeed /\ UNCHANGED event
       \/ /\ Renders(match[e].rule, attrs[e]) /\ event[e].state = "received"
          /\ Events!SetMatched(e) /\ Goto(e, "create") /\ Succeed
       \/ /\ Renders(match[e].rule, attrs[e]) /\ Return(e) /\ UNCHANGED event
          /\ (event[e].state # "received" /\ Succeed) \/ Fail(e)
    /\ UNCHANGED <<attrs, match, first, stored, tasks>> /\ GoUnchanged

SetFailed(e) ==
    /\ bg[e] = "fail" /\ Return(e)
    /\ (Succeed /\ Events!SetFailed(e)) \/ (Fail(e) /\ UNCHANGED event)
    /\ UNCHANGED <<attrs, match, first, stored, tasks>> /\ GoUnchanged

(* CreateWithEvent; idx_tasks_dedup allows one task for an event and worker. *)
SetTask(e, state) == tasks' = [tasks EXCEPT ![e][match[e].worker] = state]

CreateAnyway(e) ==  \* a variant: the error of CreateWithEvent is only logged
    LET exists == tasks[e][match[e].worker] # "none"
    IN  /\ bg[e] = "create" /\ Goto(e, "dispatch")
        /\ \/ ~exists /\ SetTask(e, "pending") /\ UNCHANGED faults
           \/ ((exists /\ UNCHANGED faults) \/ Fault) /\ UNCHANGED tasks
        /\ UNCHANGED <<attrs, match, first, event, stored, hit>> /\ GoUnchanged

CreateTask(e) ==
    LET exists == tasks[e][match[e].worker] # "none"
    IN  /\ bg[e] = "create"
        /\ \/ ~exists /\ SetTask(e, "pending") /\ Goto(e, "dispatch") /\ UNCHANGED faults
           \/ ((exists /\ UNCHANGED faults) \/ Fault) /\ Goto(e, "fail") /\ UNCHANGED tasks
        /\ UNCHANGED <<attrs, match, first, event, stored, hit>> /\ GoUnchanged

(* Then the task is put in the queue of Serve. *)
SetDispatched(e) ==
    /\ bg[e] = "dispatch"
    /\ \/ event[e].state = "matched" /\ Events!SetDispatched(e) /\ Return(e) /\ Succeed
       \/ Goto(e, "undo") /\ UNCHANGED event /\ ((event[e].state # "matched" /\ Succeed) \/ Fail(e))
    /\ UNCHANGED <<attrs, match, first, stored, tasks>> /\ GoUnchanged

Undo(e) ==
    /\ bg[e] = "undo" /\ Return(e)
    /\ (Succeed /\ SetTask(e, "failed")) \/ (Fail(e) /\ UNCHANGED tasks)
    /\ UNCHANGED <<attrs, match, first, event, stored>> /\ GoUnchanged

-----------------------------------------------------------------------------
(* Restart, recovery and configuration. *)
Answers == {"idle", "refused", "error", "duplicate", "accepted"}

In(state) == {e \in Request : event[e].state = state}

Received == In("received")

(* The process stops, in whatever it is doing, and starts again with the   *)
(* secrets the file has then.  Received() may fail.                        *)
Restart ==
    /\ Fault
    /\ http' = [r \in Request |-> IF http[r] \in Answers THEN http[r] ELSE "lost"]
    /\ bg' = [e \in Request |-> "none"]
    /\ attrs' = [e \in Request |-> <<>>]
    /\ match' = [e \in Request |-> NoMatch]
    /\ bucket' = [k \in Key |-> NoBucket]
    /\ sources' \in SecretFiles /\ copy' = rules
    /\ \/ stuck' = Received /\ hit' = hit \cup In("matched")
       \/ stuck' = {} /\ hit' = hit \cup In("matched") \cup In("received")
    /\ UNCHANGED <<carries, first, storeVars, rules, edits>>

LeaveSourceless(e) ==  \* a variant: an event whose source has gone is only logged
    /\ e \in stuck /\ stuck' = stuck \ {e}
    /\ \/ Fail(e) /\ UNCHANGED <<bg, attrs>>
       \/ sources[carries[e].source] = NoSource /\ Succeed /\ UNCHANGED <<bg, attrs>>
       \/ sources[carries[e].source] # NoSource /\ Succeed /\ Start(e, ReadBack(carries[e], stored[e]))
    /\ UNCHANGED <<requestVars, match, first, storeVars, configVars, bucket>>

(* recoverEvents, before the server listens. *)
RecoverEvent(e) ==
    /\ e \in stuck /\ stuck' = stuck \ {e}
    /\ \/ Fail(e) /\ UNCHANGED <<event, bg, attrs>>
       \/ /\ sources[carries[e].source] = NoSource /\ Succeed
          /\ Events!SetFailed(e) /\ UNCHANGED <<bg, attrs>>
       \/ /\ sources[carries[e].source] # NoSource /\ Succeed
          /\ Start(e, ReadBack(carries[e], stored[e])) /\ UNCHANGED event
    /\ UNCHANGED <<requestVars, match, first, stored, tasks, configVars, bucket>>

(* SIGHUP: a source with no secret in the file keeps the one it has. *)
ReloadSecrets ==
    /\ Edit
    /\ \E file \in SecretFiles :
          sources' = [k \in Key |-> IF file[k] = NoSource THEN sources[k] ELSE file[k]]
    /\ UNCHANGED <<requestVars, goVars, storeVars, rules, copy, faultVars, stuck, bucket>>

(* mecha worker add and remove. *)
EditRegistry ==
    /\ Edit /\ rules' \in Registries \ {rules}
    /\ UNCHANGED <<requestVars, goVars, storeVars, copy, sources, faultVars, stuck, bucket>>

Limit == /\ Tick \/ Cleanup
         /\ UNCHANGED <<requestVars, goVars, storeVars, configVars, faultVars, stuck>>

Init ==
    /\ Events!Init /\ LimiterInit
    /\ carries = [r \in Request |-> NoDelivery]
    /\ stored = [r \in Request |-> <<>>]
    /\ tasks = [r \in Request |-> [w \in DOMAIN Worker |-> "none"]]
    /\ rules \in Registries /\ copy = rules /\ sources \in SecretFiles
    /\ http = [r \in Request |-> "idle"]
    /\ bg = [r \in Request |-> "none"]
    /\ attrs = [r \in Request |-> <<>>]
    /\ match = [r \in Request |-> NoMatch]
    /\ stuck = {} /\ faults = 0 /\ edits = 0
    /\ first = [r \in Request |-> NoMatch]
    /\ hit = {}

Next ==
    \/ \E r \in Request :
          \/ \E d \in Deliveries : Arrive(r, d)
          \/ DeliveryExists(r) \/ Insert(r) \/ Answer(r)
          \/ Reload(r) \/ Match(r) \/ Hydrate(r) \/ SetMatched(r) \/ SetFailed(r)
          \/ CreateTask(r) \/ SetDispatched(r) \/ Undo(r)
          \/ RecoverEvent(r)
    \/ Restart \/ ReloadSecrets \/ EditRegistry \/ Limit

Spec == Init /\ [][Next]_vars

-----------------------------------------------------------------------------
(* The variables have their types (internal/events/types.go, tasks/types.go). *)
TypeOK ==
    /\ event \in [Request -> Events!EventRow]
    /\ carries \in [Request -> Deliveries \cup {NoDelivery}]
    /\ tasks \in [Request -> [DOMAIN Worker -> {"none", "pending", "failed"}]]
    /\ {rules, copy} \subseteq Registries
    /\ http \in [Request -> Answers \cup {"check", "insert", "answer", "lost"}]
    /\ bg \in [Request -> {"none", "reload", "match", "hydrate", "matched", "fail",
                           "create", "dispatch", "undo"}]
    /\ stuck \cup hit \subseteq Request
    /\ faults \in 0..MaxFaults /\ edits \in 0..MaxEdits
    /\ LimiterTypeOK

KeyedDeliveries == {d \in Deliveries : HasId(d)}

(* However often a delivery with an id comes, at once or one after another, *)
(* across crashes and while the registry is edited, it becomes one task of   *)
(* one worker (webhook.go:67-93, recover.go:54, events.md, Delivery         *)
(* Deduplication).                                                          *)
OneTaskPerDelivery ==
    \A d \in KeyedDeliveries :
        Cardinality({t \in Request \X DOMAIN Worker :
                        carries[t[1]] = d /\ tasks[t[1]][t[2]] # "none"}) <= 1

(* A platform that is told `accepted' or `duplicate' will not deliver again: *)
(* there is a row with that delivery, whatever has failed or crashed since   *)
(* (webhook.go:73-95).                                                       *)
AcceptedIsDurable ==
    \A r \in Request :
        /\ http[r] = "accepted" => Stored(r)
        /\ http[r] = "duplicate" => \E q \in Request : Stored(q) /\ carries[q] = carries[r]

(* An event that is not dispatched, skipped or failed is being worked on, or *)
(* will be by recoverEvents; only events hit by a failed statement, or by a  *)
(* crash after they were matched, stay where they are (webhook.go:115-194,   *)
(* recover.go:53-85).                                                        *)
StrandedOnlyByFault ==
    \A e \in Request \ hit :
        event[e].state \in {"received", "matched"} =>
            bg[e] # "none" \/ e \in stuck \/ http[e] = "answer"

(* No rule of a list looks at a number of d that prints differently once   *)
(* it has been stored.                                                     *)
Unfiltered(list, d) ==
    \A w \in DOMAIN list : \A i \in DOMAIN list[w] : DOMAIN list[w][i].filter \cap d.large = {}

(* An event that is matched again after a crash goes to the worker it was    *)
(* matched to before, and is not skipped, as long as the server's copy of    *)
(* the registry is what it was, hydration has added nothing, and no rule     *)
(* filters on a large number.  That it came from the request then and from   *)
(* the JSON of its row now makes no other difference, nor does the order of  *)
(* a map (webhook.go:121-126 goes through List, which is sorted by name).    *)
Again(e) == /\ first[e] # NoMatch /\ first[e].rules = copy
            /\ DOMAIN first[e].have = DOMAIN attrs[e]
            /\ Unfiltered(copy, carries[e])

RouteSurvivesCrash ==
    [][\A e \in Request :
          Again(e) => /\ match'[e] \in {NoMatch, match[e]} \/ match'[e].worker = first[e].worker
                      /\ event'[e].state = "skipped" => event[e].state = "skipped"]_vars

(* Deleting unused buckets is not noticed: until the process is restarted,   *)
(* webhooks are let through exactly as with buckets kept for ever            *)
(* (ratelimit.go:68-78).                                                     *)
LimiterKept == [][Ideal!Next \/ Restart]_Levels

(* The intake implements Inbox, where an entry is a row of table events:    *)
(* what has been matched but not dispatched is still open, and a task that  *)
(* has failed since was given all the same (webhook.go:67-194).             *)
Items    == [r \in Request |-> IF Stored(r) THEN carries[r] ELSE NoDelivery]
Stage    == [r \in Request |-> IF event[r].state \in {"received", "matched"} THEN "open"
                                                                           ELSE event[r].state]
Given    == [r \in Request |-> {w \in DOMAIN Worker : tasks[r][w] # "none"}]
Promised == {carries[r] : r \in {q \in Request : http[q] \in {"accepted", "duplicate"}}}

Box == INSTANCE Inbox
         WITH Entry <- Request, Item <- Deliveries, Worker <- DOMAIN Worker,
              Keyed <- KeyedDeliveries, NoItem <- NoDelivery,
              item <- Items, stage <- Stage, taker <- Given, promised <- Promised

ImplementsInbox == Box!Spec
=============================================================================
