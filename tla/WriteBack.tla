----------------------------- MODULE WriteBack -----------------------------
(***************************************************************************)
(* What follows a completed task: its result is filtered by the worker's   *)
(* policy and written to the platform, action by action, first by the      *)
(* dispatch and, when that fails, by the write-back retry loop             *)
(* (internal/serve/dispatch_policy.go and writeback_retry.go,              *)
(* internal/writeback, internal/source/gitlab_respond.go).                 *)
(*                                                                         *)
(* An action on a platform is <<platform, what, argument>>.  GitHub is     *)
(* told label by label; such an argument has the label's place in the      *)
(* worker's list too: a label that is listed twice is two actions.         *)
(***************************************************************************)
EXTENDS Policy, SequencesExt

CONSTANTS Event, MaxWriteBack,
          Results,      \* parsed results a worker may return
          Targets,      \* what an event says of its place on the platform
          Policies,     \* policy sections of worker definitions
          MaxFaults,    \* bound on SQL errors and restarts
          MaxEdits      \* bound on changes to workers and secrets

ASSUME WriteBackAssumption ==
    /\ MaxWriteBack \in Nat \ {0} /\ {MaxFaults, MaxEdits} \subseteq Nat
    /\ Results \subseteq Result /\ Policies \subseteq [Section -> SectionYaml]

VARIABLES event,        \* the rows of table events (EventStore)
          result,       \* tasks.result; Nil when it is not the JSON expected
          target,       \* attributes of each event
          responders,   \* names of the registered responders
          client,       \* s.writeback is configured
          token,        \* its token is not empty
          yaml,         \* the policy section of the worker, Nil if none
          pc,           \* where the write-back of each event is
          plan,         \* actions still to be sent in this attempt
          failed,       \* an action of this attempt has failed
          rows,         \* listed by the scan, not yet looked at
          faults, edits,
          posted,       \* history: how often the platform did each action
          under,        \* history: the policy section this attempt began with, and
                        \* what it is to ask of the platform
          acked,        \* history: actions acknowledged in this attempt
          lost          \* history: attempts whose outcome was not recorded

inputVars == <<result, target, responders, client>>
attemptVars == <<plan, failed>>
history == <<posted, under, acked, lost>>
vars == <<event, inputVars, token, yaml, pc, attemptVars, rows, faults, edits, history>>

Events == INSTANCE EventStore

Fault == faults < MaxFaults /\ faults' = faults + 1
Edit == edits < MaxEdits /\ edits' = edits + 1

-----------------------------------------------------------------------------
(* What the responders do with a filtered result r of event e. *)
When(c, s) == IF c THEN s ELSE <<>>

Listed(ls, i) == [label |-> ls[i], at |-> i]

GitHubPlan(t, r) ==  \* writeback.Client
    When(r.comment \notin {Nil, 0} /\ t.number, <<<<"github", "comment", r.comment>>>>)
    \o When(r.status \in ValidStatusStates /\ t.sha, <<<<"github", "status", r.status>>>>)
    \o When(r.labels # Nil /\ t.number,
            LET Each(what, ls) == SetToSeq({<<"github", what, Listed(ls, i)>> : i \in DOMAIN ls})
            IN  Each("add", r.labels.add) \o Each("remove", r.labels.remove))
    \o When(r.commit \notin {Nil, 0} /\ t.number, <<<<"github", "commit", r.commit>>>>)

(* GitLabResponder: the output stands in for a missing comment. *)
Nothing(r) == ~r.output /\ \A x \in {"comment", "status", "labels", "commit"} : r[x] = Nil

GitLabPlan(t, r) ==
    When(r.comment \notin {Nil, 0} /\ t.number, <<<<"gitlab", "comment", r.comment>>>>)
    \o When(r.comment \in {Nil, 0} /\ r.output /\ t.number, <<<<"gitlab", "output", Nil>>>>)
    \o When(r.status \notin {Nil, ""} /\ t.sha, <<<<"gitlab", "status", r.status>>>>)
    \o When(r.labels # Nil /\ t.number /\ DOMAIN r.labels.add \cup DOMAIN r.labels.remove # {},
            <<<<"gitlab", "labels", r.labels>>>>)
    \o When(r.commit \notin {Nil, 0} /\ t.number, <<<<"gitlab", "commit", r.commit>>>>)

(* doWriteBack: the responder of the event's source, or else the GitHub     *)
(* client.                                                                  *)
ByGitLab(e) == target[e].source = "gitlab" /\ "gitlab" \in responders

Plan(e, r) == IF ByGitLab(e) THEN When(target[e].repo, GitLabPlan(target[e], r))
              ELSE When(client /\ token, GitHubPlan(target[e], r))

NoTarget(e, r) == ByGitLab(e) /\ ~Nothing(r) /\ ~target[e].repo

Filtered(e) == Apply(WorkerPolicy(yaml), result[e])

(* What the platform is to be asked; with no client or token for it, and    *)
(* with a result that is not JSON, nothing.                                 *)
Asked(e) ==
    LET r == Filtered(e)
    IN  CASE result[e] = Nil -> {}
          [] result[e] # Nil /\ ByGitLab(e) -> Range(GitLabPlan(target[e], r))
          [] result[e] # Nil /\ ~ByGitLab(e) ->
                IF client /\ token THEN Range(GitHubPlan(target[e], r)) ELSE {}

(* The event is read, the result parsed, the policy looked up and applied;  *)
(* if the event cannot be read, the attempt has failed.                     *)
Begin(e, first) ==
    /\ LET r == Filtered(e)
       IN  \/ /\ plan' = [plan EXCEPT ![e] = IF result[e] = Nil THEN <<>> ELSE Plan(e, r)]
              /\ failed' = [failed EXCEPT ![e] = result[e] # Nil /\ NoTarget(e, r)]
              /\ UNCHANGED faults
           \/ /\ Fault
              /\ plan' = [plan EXCEPT ![e] = <<>>]
              /\ failed' = [failed EXCEPT ![e] = TRUE]
    /\ pc' = [pc EXCEPT ![e] = IF first THEN "first" ELSE "again"]
    /\ acked' = [acked EXCEPT ![e] = {}]
    /\ under' = [under EXCEPT ![e] = [yaml |-> yaml, asked |-> Asked(e)]]
    /\ UNCHANGED <<event, inputVars, token, yaml, edits, posted, lost>>

(* The dispatch, once the task is completed. *)
Deliver(e) == pc[e] = "due" /\ Begin(e, TRUE) /\ UNCHANGED rows

(* One request: done by the platform or not, and answered or not.  The      *)
(* token is read again for each.                                            *)
Send(e, done, ok) ==
    /\ pc[e] \in {"first", "again"} /\ plan[e] # <<>>
    /\ LET a == Head(plan[e])
       IN  /\ ok => done
           /\ done /\ a[1] = "github" => token
           /\ plan' = [plan EXCEPT ![e] = Tail(@)]
           /\ posted' = [posted EXCEPT ![e] = IF done THEN @ (+) SetToBag({a}) ELSE @]
           /\ acked' = [acked EXCEPT ![e] = IF ok THEN @ \cup {a} ELSE @]
    /\ UNCHANGED <<event, inputVars, token, yaml, pc, rows, faults, edits, under, lost>>

SwallowPost(e, done, ok) ==  \* a variant: only the last error counts
    Send(e, done, ok) /\ failed' = [failed EXCEPT ![e] = ~ok]

(* An error does not keep the next action from being sent. *)
Post(e, done, ok) ==
    Send(e, done, ok) /\ failed' = [failed EXCEPT ![e] = @ \/ ~ok]

SettleAlike(e) ==  \* a variant: a retry ends as a first attempt does
    \/ failed[e] /\ Events!SetWriteBackFailed(e)
    \/ ~failed[e] /\ Events!SetCompleted(e)

(* The outcome is recorded, or cannot be. *)
Settle(e) ==
    \/ failed[e] /\ Events!SetWriteBackFailed(e)
    \/ ~failed[e] /\ pc[e] = "first" /\ Events!SetCompleted(e)
    \/ ~failed[e] /\ pc[e] = "again" /\ Events!SetWriteBackCompleted(e)

Finish(e) ==
    /\ pc[e] \in {"first", "again"} /\ plan[e] = <<>>
    /\ \/ Settle(e) /\ UNCHANGED <<faults, lost>>
       \/ Fault /\ lost' = [lost EXCEPT ![e] = @ + 1] /\ UNCHANGED event
    /\ pc' = [pc EXCEPT ![e] = "idle"]
    /\ UNCHANGED <<inputVars, token, yaml, attemptVars, rows, edits, posted, under, acked>>

-----------------------------------------------------------------------------
(* scanWriteBackRetries, a single goroutine: the events are listed, then    *)
(* looked at one by one.                                                    *)
Pausing == rows = {} /\ \A e \in Event : pc[e] # "again"

Scan ==
    /\ Pausing
    /\ rows' = {e \in Event : event[e].state = "write_back_failed"}
    /\ rows' # {}
    /\ UNCHANGED <<event, inputVars, token, yaml, pc, attemptVars, faults, edits, history>>

Take(e) == /\ e \in rows
           /\ \A d \in Event : pc[d] # "again"
           /\ rows' = rows \ {e}

EndlessRetry(e) == Take(e) /\ Begin(e, FALSE)  \* a variant: no dead letters

Retry(e) == Take(e) /\ event[e].attempts < MaxWriteBack /\ Begin(e, FALSE)

DeadLetter(e) ==
    /\ Take(e) /\ event[e].attempts >= MaxWriteBack
    /\ \/ Events!SetFailed(e) /\ UNCHANGED faults
       \/ Fault /\ UNCHANGED event
    /\ UNCHANGED <<inputVars, token, yaml, pc, attemptVars, edits, history>>

(* The task has been dispatched once more and is refused by its worker      *)
(* (dispatch.go).                                                           *)
Refuse(e) ==
    /\ event[e].state # "failed" /\ Fault
    /\ Events!SetFailed(e)
    /\ UNCHANGED <<inputVars, token, yaml, pc, attemptVars, rows, edits, history>>

(* A restart forgets the attempts; the task of a first one is completed and *)
(* is not dispatched again.                                                 *)
Restart ==
    /\ Fault
    /\ pc' = [e \in Event |-> "idle"]
    /\ plan' = [e \in Event |-> <<>>]
    /\ rows' = {}
    /\ lost' = [e \in Event |-> lost[e] + IF pc[e] \in {"first", "again"} THEN 1 ELSE 0]
    /\ UNCHANGED <<event, inputVars, token, yaml, failed, edits, posted, under, acked>>

(* `mecha worker' edits the worker or removes it. *)
EditWorker ==
    /\ Edit
    /\ yaml' \in (Policies \cup {Nil}) \ {yaml}
    /\ UNCHANGED <<event, inputVars, token, pc, attemptVars, rows, faults, history>>

(* UpdateToken, on SIGHUP. *)
UpdateToken ==
    /\ Edit /\ client
    /\ token' = ~token
    /\ UNCHANGED <<event, inputVars, yaml, pc, attemptVars, rows, faults, history>>

-----------------------------------------------------------------------------
Init ==
    /\ event = [e \in Event |-> [state |-> "dispatched", attempts |-> 0]]
    /\ result \in [Event -> Results \cup {Nil}] /\ target \in [Event -> Targets]
    /\ client \in BOOLEAN /\ token = client
    /\ responders \in {g \cup {"github" : x \in {c \in {client} : c}} : g \in SUBSET {"gitlab"}}
    /\ yaml \in Policies \cup {Nil}
    /\ pc = [e \in Event |-> "due"]
    /\ plan = [e \in Event |-> <<>>] /\ failed = [e \in Event |-> FALSE]
    /\ rows = {} /\ faults = 0 /\ edits = 0
    /\ posted = [e \in Event |-> EmptyBag] /\ acked = [e \in Event |-> {}]
    /\ under = [e \in Event |-> [yaml |-> Nil, asked |-> {}]] /\ lost = [e \in Event |-> 0]

Next ==
    \/ Scan \/ Restart \/ EditWorker \/ UpdateToken
    \/ \E e \in Event : \/ Deliver(e) \/ Finish(e) \/ Retry(e) \/ DeadLetter(e) \/ Refuse(e)
                        \/ \E done, ok \in BOOLEAN : Post(e, done, ok)

Spec == Init /\ [][Next]_vars

-----------------------------------------------------------------------------
(* The shape of the state: no attempt is under way without a step to come.  *)
TypeOK ==
    /\ event \in [Event -> Events!EventRow]
    /\ pc \in [Event -> {"due", "first", "again", "idle"}]
    /\ \A e \in Event : /\ plan[e] # <<>> => pc[e] \in {"first", "again"}
                       /\ event[e].attempts <= MaxWriteBack
                       /\ acked[e] \subseteq BagToSet(posted[e])
    /\ rows \subseteq Event
    /\ Cardinality({e \in Event : pc[e] = "again"}) <= 1

(* What a worker's policy permits, read off its YAML.  A section that is    *)
(* absent or is no mapping restricts nothing, commit suggestions included   *)
(* (policies/rules.go; the guide would have them allowed explicitly).       *)
Mapping(y, x) == y # Nil /\ y[x].kind = "map"
FailsClosed(y) == \E x \in Section : Mapping(y, x) /\ y[x].allow = "other"
SomeSpelling(l, list) == \E m \in list : LowerCase[m] = LowerCase[l]
PermitsLabel(y, l) ==
    Mapping(y, "labels") =>
        /\ ~SomeSpelling(l, y["labels"].blocked)
        /\ y["labels"].allowed = {} \/ SomeSpelling(l, y["labels"].allowed)
SectionOf(what) == IF what \in {"add", "remove"} THEN "labels" ELSE what

Permits(y, a) ==
    LET x == SectionOf(a[2])
    IN  /\ ~FailsClosed(y)
        /\ Mapping(y, x) => y[x].allow = "true"
        /\ CASE x \in {"comment", "commit"} ->
                  Mapping(y, x) /\ y[x].max > 0 => a[3] <= y[x].max
             [] x = "status" -> y # Nil /\ (\E s \in Section : y[s].kind # "absent")
                                => a[3] \in ValidStatusStates
             [] a[2] \in {"add", "remove"} -> PermitsLabel(y, a[3].label)
             [] a[2] = "labels" ->
                  \A l \in Range(a[3].add) \cup Range(a[3].remove) : PermitsLabel(y, l)

Copies(a, bag) == IF BagIn(a, bag) THEN bag[a] ELSE 0

(* A step has the platform do only what the policy permits that was in      *)
(* force when its attempt began, first or repeated, whatever became of the  *)
(* worker meanwhile.  One thing is under no policy, GitLab's output; it is  *)
(* shown only where the filtered result has no comment to show.             *)
OutputAlone(asked) == \A a, b \in asked : ~(a[2] = "output" /\ b[2] = "comment")

PolicyKept ==
    [][\A e \in Event : \A a \in BagToSet(posted'[e]) :
          Copies(a, posted'[e]) > Copies(a, posted[e]) =>
              IF a[2] = "output" THEN a \in under[e].asked /\ OutputAlone(under[e].asked)
                                 ELSE Permits(under[e].yaml, a)]_vars

(* An event is completed only when the platform has acknowledged everything *)
(* the filtered result asks of it, in the attempt that completed it.        *)
WrittenWhenCompleted ==
    \A e \in Event : event[e].state = "completed" => under[e].asked \subseteq acked[e]

(* The platform does an action once, and once more for each attempt that    *)
(* was recorded as failed or whose outcome was lost, but never for more     *)
(* than writeBackMaxAttempts attempts and the lost ones.  A label that the  *)
(* worker lists n times is n actions, so that bound holds n times for it.   *)
RepeatsAccountedFor ==
    \A e \in Event : \A a \in BagToSet(posted[e]) :
        /\ Copies(a, posted[e]) <= event[e].attempts + 1 + lost[e]
        /\ Copies(a, posted[e]) <= MaxWriteBack + lost[e]

-----------------------------------------------------------------------------
(* The state of Delivery.                                                  *)
Outcome == [e \in Event |-> CASE event[e].state = "completed" -> "written"
                              [] event[e].state = "failed"    -> "dropped"
                              [] OTHER                        -> "owed"]
Trying == {e \in Event : pc[e] \in {"first", "again"}}
Missing == [e \in Event |-> IF e \in Trying THEN under[e].asked \ acked[e] ELSE {}]
Recorded == [e \in Event |-> event[e].attempts]

Courier == INSTANCE Delivery WITH MaxAttempts <- MaxWriteBack, outcome <- Outcome,
               trying <- Trying, missing <- Missing, done <- posted,
               recorded <- Recorded, excused <- lost

(* The dispatch and the retry loop together deliver at least once: what an  *)
(* attempt has done, what it still misses, how it ends and what is told of  *)
(* its end never contradict one another (dispatch_policy.go,                *)
(* writeback_retry.go).                                                     *)
ImplementsDelivery == Courier!Spec
=============================================================================
