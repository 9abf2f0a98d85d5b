# mecha: a verification development

mecha dispatches tasks (prompts) to AI workers: HTTP servers that run in
containers, elsewhere, or inside the process.  Tasks come from `POST /task` or
from webhooks, whose events are matched against the workers' rules; the result
of an event's task is filtered by a policy and written back to the platform the
event came from.  Everything durable is in one SQLite database.

This directory holds TLA+ models of that program (`src/`, Go), the TLC
configurations that check them, and proofs for TLAPS.

## 1. Inventory

| component (source) | state | operations | interacts with |
| --- | --- | --- | --- |
| task store (`internal/tasks`) | rows: state, attempts, next_retry_at, updated_at | guarded UPDATEs; `RetryOrFail` reads, then writes | dispatcher, loops, handlers |
| event store (`internal/events`) | rows: state, write_back_attempts, delivery id, dedup key | guarded UPDATEs; `Create` checks, then inserts | webhook handlers, dispatcher, write-back loop |
| worker registry (`internal/workers/registry*.go`) | workers' state, endpoint, container; in memory, persisted entry by entry | one transition per method, under a mutex; `Reload` | dispatcher, webhook handler, reconciliation, command line (another process) |
| dispatcher (`serve/dispatch*.go`, `disposable.go`) | 16 goroutine slots | run one task id: mark, claim the worker, send, complete, hand back, write back | all stores, workers, platforms |
| loops (`serve/pending.go`, `retry.go`, `writeback_retry.go`) | – | every 30 or 60 s: put forgotten, due or stale ids into the channel; repeat write-backs | channel, stores |
| start and shutdown (`serve/server.go`, `recover.go`) | context, wait group | recovery before listening; SIGTERM cancels the context and waits | everything |
| intake (`serve/webhook.go`, `handlers.go`) | channel of 256 ids | create rows, enqueue | stores, registry |
| rate limiter (`serve/ratelimit.go`) | token buckets by source or worker | `Allow`; `Cleanup` every five minutes | dispatcher, webhook handler |
| reconciliation (`serve/reconcile.go`) | a list of entries, a health answer | list, check one by one, `SetError` or `Recover` | registry, containers |
| worker commands (`internal/cli`) | own copy of the registry | add, start, stop, remove | SQLite, Docker, adapters |
| containers (`internal/workers/docker*.go`) | one per managed worker, one per dispatch of a disposable one | create, start, stop, remove, remove orphans | commands, dispatcher |
| adapters, worker runtime (`internal/adapter`, `docker/runtime`) | listener, busy flag | `/task`, `/health`; one task at a time | dispatcher, reconciliation |
| sources (`internal/source`) | a secret each | verify and parse a request; hydrate an event | intake |
| rule matching (`serve/match.go`, `workers/event_rule.go`) | – | first worker, first rule, prompt | intake |
| policies (`internal/policies`) | – | parse rules, filter a result | write-back |
| write-back (`serve/dispatch_policy.go`, `writeback_retry.go`, `internal/writeback`, `source/gitlab_respond.go`) | GitHub token | send each action of a filtered result; repeat | platforms, event store |
| audit log and metrics; secrets, configuration, validation; migrations; MCP server | – | input, output, parsing | – |

What is hard in this code: the same id reaches the channel along several paths
and nothing removes the duplicates; a goroutine reads a row and acts on it many
steps later; the store's WHERE clauses are the only locks; the registry's
persisted `busy` is a lock that survives its holder; and every SQL statement
may fail, because the context was cancelled or SQLite was busy.  The properties
that make the components correct are in section 4, the hazards, each with its
line, in `PROJECT.json`.

## 2. Modules

| module | models | extends / instances |
| --- | --- | --- |
| `TaskStore` | the table of tasks | – |
| `EventStore` | the table of events | – |
| `Dispatch` | channel, registry states, goroutines of `dispatchLoop` | instances of both stores |
| `Serve` | the server process: intake, scans, write-back retries, start, shutdown, crash, recovery, operators, time | extends `Dispatch` |
| `TaskContract` | abstract: what the server promises about a task | instanced by `Serve` |
| `ServeClaims` | what docs and comments say and the code does not do | extends `Serve` |
| `MCServe` | values and symmetries for TLC | extends `ServeClaims` |
| `ServeProofs` | type correctness, one task per worker, workers handed back | extends `Serve` |
| `OutcomeProofs` | settled rows stay settled; the retry budget | extends `ServeProofs` |
| `ContractProofs` | write-backs, events, the refinement | extends `OutcomeProofs` |
| `OrphanProofs` | how an event is left behind, or failed | extends `ContractProofs` |
| `Registry` | the workers table, the copy of each process, every method | – |
| `Fleet` | server, `mecha worker` commands, reconciliation, dispatches, containers and adapters, tied together by the registry | extends `Registry` |
| `Lease` | abstract: who has a worker, who a container, until when | instanced by `Fleet` |
| `MCFleet`, `FleetProofs` | values for TLC; proofs | extend `Fleet` |
| `TokenBucket` | abstract: token buckets that are kept for ever | instanced by `RateLimiter` |
| `RateLimiter` | buckets filled when used and deleted when unused | instances `TokenBucket` |
| `Sources` | what the four sources make of a request | – |
| `Intake` | from a webhook's arrival to its task; recovery of events | extends `RateLimiter`, `Sources`; instances `EventStore` |
| `Inbox` | abstract: an item is filed, promised, given to a worker, dispatched or closed | instanced by `Intake` |
| `MCIntake`, `LimiterProofs`, `IntakeProofs` | values for TLC; proofs | extend `Intake`, `RateLimiter` |
| `Policy` | the parsing of a policy section and the three filters | – |
| `WriteBack` | from a completed task to a completed event, request by request | extends `Policy`; instances `EventStore` |
| `Delivery` | abstract: at-least-once delivery in attempts | instanced by `WriteBack` |
| `MCWriteBack`, `WriteBackProofs` | values for TLC; proofs | extend `WriteBack` |

`Serve` treats matching, the limiter, the registry's other writers, the policy
and the platform as nondeterministic.  `Intake`, `Fleet` and `WriteBack` open
these up: `Intake` ends where a task has been created, `WriteBack` begins where
one is completed, and `Fleet` keeps of a dispatch only what it asks of the
registry and of containers.

### State and code: `Serve`

* `task[t]`, `event[e]`: the rows.  A store's operation is total: where the
  UPDATE's WHERE clause does not match, nothing changes, and the caller sees the
  error of `checkRowAffected` as `task' = task`.
* `worker[w]`: the registry's state of each persistent worker.
* `queue`: the channel `s.pending`.
* `pc[j]`, `on[j]`, `saw[j]`, `tries[j]`: a goroutine, its task, and what it has
  read (`t.State == StatePending`; the attempts `RetryOrFail` has SELECTed).
  Each action of `Dispatch` is one access to shared state, in the order of the
  code: `GetTask` – `Route` – `Mark` – `Claim` – (request) – `CompleteTask`,
  `RejectTask` or `ReadAttempts`/`RetryOrFail`/`Blame` – `Release` – `WriteBack`
  – `CompleteEvent`.  `Refuse` and `Requeue` are the early returns, `Panic` is
  the recovered panic with its deferred safety net.
* `ctx`: "cancelled" once SIGTERM has arrived; from then on every statement of
  the loops and dispatches fails, while those of HTTP handlers and webhook
  goroutines (other contexts) do not.
* `found`: ids a scan has listed and not yet sent; `intake`: where the handler
  or webhook goroutine of a task is; `wb`: where the write-back loop is with an
  event.
* `wrote`: history variable, write-backs made by the goroutine that completed a
  task (repeats by the write-back loop are not counted).

A `Crash` or `Restart` keeps only `task`, `event`, `worker` and `wrote`, and
starts with `found` listing every open row: `recoverTasks` and `recoverEvents`
run before the server listens.

### State and code: `Fleet`

* `row`, `cache[p]`: the table, and `Registry.entries` of each process.  A
  method tests the copy (`Accepts`), computes the new entry from the copy and
  writes it to the table (`Mutate`), or writes the whole copy (`Add`, `Remove`).
  `Load` is `NewRegistry` or `Reload`.
* `cmd[c]`: a `mecha worker` command, one access to the table, to Docker or to a
  worker at a time, in the order of `dockerStart` (wipe, create, boot, health,
  record), `dockerStop` (halt, `StopRuntime`) and `dockerRemove` (raze,
  `ClearRuntime`, delete).  Any of them may fail or be interrupted.
* `box`, `temps`, `runner`: containers and listeners, numbered so that an
  address that has been given to another is not taken for the old one.
  `busyAt` is the busy flag behind an address.
* `leaked` holds the disposable containers that nobody removes before the server
  starts again (Docker refused the removal, or the answer to `Create` was lost,
  or a panic came before the deferred cleanup).  `unseen` holds those a sweep
  does not find: `Create` asks the daemon of the worker's own `docker.host` and
  gives the container the labels of its YAML, which may overwrite
  `mecha.lifecycle`, while the sweep asks one daemon for that label.  Which
  containers are so is any (`Made`).
* `serve`: down, starting (`todo` holds the adapters `serveCmd` is about to
  start) or up.  `snap` and `probe` are where `reconcile` is.
* `stale`, `tainted`: history variables for `CacheFresh` and `BusyExcludes`.

### State and code: `Intake`

* A request is also the id of the event it may create.  `http[r]` is where
  `handleWebhook` is (check, insert, answer) or what it has answered; `bg[e]`
  where the goroutine of the event is, one statement of `matchAndHydrate` at a
  time: reload, match, hydrate, `UpdateAttrs`, `SetMatched`, `CreateWithEvent`,
  `SetDispatched`, and `Fail` of the task if that did not work.
* `rules` is the table of workers, `copy` the server's registry; `Reload` makes
  them equal, or fails and leaves the older copy, on which `Match` then works.
* `stored[e]` and `attrs[e]` are the attributes in the row and in the goroutine:
  for each key how its value prints.  A filter says how some have to print, a
  template uses some keys.  `RecoverEvent` starts again from `ReadBack` of the
  row: a number is a float64 then, and prints with an exponent if it is large
  (`large` of the delivery).
* `Restart` forgets `http`, `bg` and the buckets, and lists in `stuck` the
  events whose state is received: `recoverEvents` runs over them before the
  server listens (`Arrive` waits for `stuck = {}`).

### State and code: `WriteBack`

* `pc[e]`: due (task completed, write-back not begun), first (`doWriteBack` of
  the dispatch), again (of the retry loop) or idle.  `plan[e]` holds the
  requests still to be sent, `failed[e]` whether the error is set.
* `Begin` reads the event, parses the result, looks the policy up and filters;
  `Post` is one request, done or not and answered or not; `Finish` records the
  outcome with the statement that fits, or fails to.
* `rows` is what the scan has listed; `Retry` and `DeadLetter` take from it.
* A result has a comment and a commit as lengths, labels as two lists, a status,
  and whether there is an output.  The filters keep the duplicates of a list and
  leave each label its place; GitHub is asked once for each element, so an
  action on a label is the label and its place.  `LowerCase` is strings.ToLower.
* `posted`, `acked`, `under`, `lost` are history variables; `under[e]` holds the
  policy section in force when the attempt began and what the platform is to be
  asked in it.

### Abstractions

In `Serve` and its parts:

* Time: `retry` says whether next_retry_at is unset, ahead or past; `old`
  whether updated_at is 15 minutes back.  `Age` makes a row old while a
  goroutine that marked it is still at work only for tasks in `Slow` (a worker
  timeout above `staleDispatchTimeout`); a recovered or requeued row, which the
  second dispatch does not touch, may grow old under its goroutine.
* A webhook's task is named by its event: `SetMatched`'s guard and the unique
  index on dedup_key allow one task per event.  A plain task has no event.
* The limiter's answer is any (`Claim`); so are rule matching (`Match`), the
  worker's answer, the policy and the platform's.
* `WriteBack` counts a write-back that the code skips (unparsable result, no
  responder) as made.
* A faulty step (SQL error, panic, crash, shutdown) takes one of `MaxFaults`.
  A statement on a cancelled context fails without being charged.
* Scans list rows one at a time (the code lists all and then loops); the
  write-back loop treats events independently: both allow more interleavings.
* `dispatchLoop` takes an id out of the channel before it waits for a slot;
  here the id leaves the channel with the slot, so when all slots are taken the
  real channel holds one id more.
* After SIGTERM a scan may still send an id it has in hand; nothing can come of
  it (the next `Get` fails), and `Shutdown` drops it.
* `Reload` merges an operator's command with the webhook handler's
  `reg.Reload`: a worker that is not busy is started or removed.  The process's
  own copy of the registry, commands that write from an old one, and
  reconciliation are in `Fleet`.
* For a disposable worker, a container that does not come up is `RejectTask`.

Elsewhere:

* `Fleet`: a worker's kind is fixed; `serve` reads the table when it starts and
  when a webhook arrives (`Reload`).  The health of an unmanaged worker is any.
  A container keeps its number when it is stopped.  A dispatch that the limiter
  refuses, or that panics with its worker claimed, goes on as one that was
  answered (`Yield`): it hands its worker back.  `reconcile` lists only
  the workers on which its health check has an effect, those online or in error.  Waiting for health and the
  dispatch's own request are one step each, with the outcomes they can have.
* `Intake`: an attribute is its key and how its value prints: "plain", which is
  what a filter on it asks for, or "exponent"; a delivery with another value is
  one without the key.  The dedup key of an event is left out: only the cron
  trigger sets it, and nothing starts that.
* `RateLimiter`: a tick is the time in which a bucket gains one unit.
* `WriteBack`: the responders of GitHub and GitLab; the requests for the labels
  of one list come in some order (`SetToSeq`), as it makes no difference.  `GitLabResponder`
  is modelled because the repository documents it, although `mecha serve`
  registers only the GitHub client: `responders` may or may not have it.

## 3. Runs

Deadlocks are not looked for, except in `Intake`, where time always goes on:
the system stops when every request has been served and the bounds on requests
and faults are used up.

| run | instance | shows |
| --- | --- | --- |
| persistent | 1 event, persistent worker, 2 goroutines, 1 fault | `TypeOK`, `SingleFlight`, `WriteBackOnce`, `EventFollowsTask`, `WorkerHandedBack`, `ImplementsContract`, `OrphanedOnlyBy`, `FailedOnlyBy` |
| two | 2 plain tasks, 1 worker, 2 goroutines | `SingleFlight` between different tasks |
| disposable | 1 slow event, disposable worker, 2 goroutines, 3 attempts | `WriteBackOnce`, `RetryBudget`, `EventFollowsTask` where one task runs twice at once |
| live | 1 event, 1 goroutine, 1 fault, fair | `EveryTaskSettles`, `WriteBackSettles` |
| busy, retry, orphan, drain | smallest instance each | violated: see section 6 |
| fleet | 1 worker of any kind, 1 command process (2 commands), 2 dispatches, 3 listeners, 2 starts of the server, 1 fault, Docker configured | `TypeOK`, `CacheFresh`, `BusyExcludes`, `OrphansCleaned`, `ServerKeepsRows`, `ImplementsLease` |
| adapters | 1 adapter added, the server started twice | violated: see section 6 |
| intake | 2 requests of a pull request and a chat message, 2 workers, 2 registries, 2 sets of secrets, 2 faults, 1 edit, buckets of 1 request | `TypeOK`, `OneTaskPerDelivery`, `AcceptedIsDurable`, `StrandedOnlyByFault`, `RouteSurvivesCrash`, `LimiterKept`, `ImplementsInbox` |
| writeback | 1 event, 4 results, 4 targets, 6 policies, 2 attempts, 1 fault, 1 edit | `TypeOK`, `WrittenWhenCompleted`, `RepeatsAccountedFor`, `PolicyKept`, `ImplementsDelivery` |

Why the bounds are enough: what can go wrong here goes wrong between two
goroutines that hold copies of one row, or one row and one worker, and after
one fault; two goroutines, a channel of one place (so that every sender meets
it full and empty), two or three attempts and one fault contain each of those
cases (the runs reach every action and every alternative of it).  A scan can
fill the channel with duplicates of the same id without any bound, because
`found` is refilled from the table.

`fleet`: what can go wrong is between two copies of one row, so one worker, one
command process and two dispatches are enough; two commands in a row, or one
command across a restart, are the longest stories the properties speak of, and
three listeners let a container be replaced.  `View` keeps TLC from telling
states apart by what nobody reads any more: the copy of a process that has ended
and the busy flag of a listener that is gone.  Every action fires, in each
alternative but one: with a single command process, a command never finds its
container replaced by another command (the ELSE branches of `StartBox` and
`AwaitHealth`).  Without Docker (`HasDocker = FALSE`), as `mecha serve` runs,
behaviours are those in which reconciliation and clean-up do not happen;
`OrphansCleaned` then says nothing, so that it is a promise to programs that
embed the server and give it a Docker client, not to users of `mecha serve`.

`intake`: two requests meet as duplicates of one delivery (a pull request, which
is hydrated, or a Telegram message of a chat with a large number, on which a
rule filters), or as different deliveries; deliveries without an id, and
different ones that share a limiter, are left to the proofs; two faults are a failed statement and a
restart, or two restarts; the edit changes rules or secrets under an event that
is recovered.  A window of two ticks over a capacity of two is the tightest the
assumption permits.

`writeback`: the write-backs of different events share only the retry loop,
which takes one at a time (a conjunct of `TypeOK` that says something only with
more than one event, and is proved).  The results, targets and policies take
each branch of the filter and of both responders; with two attempts an event
fails once and is dead-lettered, and one fault loses an answer or an outcome.
One of the results lists a label twice.

The safety properties are proved for every value of the constants besides.

## 4. Properties

* `SingleFlight`: a persistent worker is given one task at a time.  Duplicated
  ids, stale scans and recovered tasks all meet at `SetBusy`.
* `WorkerHandedBack`: each return path of `dispatchTask`, and a panic, gives the
  worker back.
* `WriteBackOnce`: the order of `Complete` and `doWriteBack`, and what is done
  when `Complete` fails.
* `RetryBudget`: `RetryOrFail` is not atomic, and two goroutines may run the
  same disposable task.
* `EventFollowsTask`: no event claims a result that its task does not have.
* `ImplementsContract`: with `Outcome` as refinement mapping (`pending` and
  `dispatched` are "open"), the server implements `TaskContract`: a task is
  accepted once, settles once, never changes its outcome, and its write-back
  comes after a completion.
* `OrphanedOnlyBy`: an event is orphaned when its task has ended and nobody is on
  the way to tell it.  Without a fault or a shutdown there are two ways to get
  there, and the property names them: a dispatch that gives its task up at an
  unknown worker or a refused `SetBusy`, and a task that has ended before the
  webhook points its event to it.  Every other end of a dispatch tells the event.
* `FailedOnlyBy`: an event whose task is completed is failed only by the dead
  letter of its write-back or by a goroutine that was given the task again.
* `EveryTaskSettles`, `WriteBackSettles`: under `FairSpec`.  With one task the
  channel can be full only of that task's own id, so `EveryTaskSettles` shows
  that a dropped id is found again, not that others cannot crowd it out for ever.
* `CacheFresh`: the server's copy of a worker differs from the table only where
  a command has written since; a write of the server reaches both, or neither
  when its statement fails.  That the server then writes over what the command
  wrote is what the code does, and excused (`stale`).
* `ServerKeepsRows`: a server that still knows a removed worker does not bring
  it back when it records the end of a dispatch.
* `BusyExcludes`: `SetBusy` is the lock, taken in a copy.  The property says
  exactly which writers can break it (`tainted`).
* `OrphansCleaned`: containers of disposable workers through crashes and failed
  removals.  It names its three excuses: a removal refused or a creation not
  answered since this server started, and a container the sweep does not ask
  for.  What a sweep finds is gone, and what an earlier server has left is not
  excused unless the sweep was refused it.
* `ImplementsLease`: a worker is leased to one dispatch; the lease can be broken
  into (a command writes the row, reconcile changes the state) and is whole again
  once the last holder has left.  A container is rented by the dispatch it was
  made for until the deferred cleanup; what is hidden from the sweep, or refused
  to it, is all there is when the next server opens.  A creation that is not
  answered makes a container nobody has rented (`Lose`).
* `OneTaskPerDelivery`: `DeliveryExists`, the unique index, `SetMatched`'s guard
  and `recoverEvents` together, for two requests at once and after a crash.
* `AcceptedIsDurable`: what is answered 202 or `duplicate` will not come again.
* `StrandedOnlyByFault`: no early return of the handler or of `matchAndHydrate`
  forgets an event.
* `RouteSurvivesCrash`: an event that is matched again, now on attributes read
  back from JSON, goes to the worker it went to, and is not skipped.  Excused are
  a changed copy of the registry, attributes that hydration has added, and rules
  that filter on a large number (section 6): without the last the property is
  false of the code.
* `LimiterKept`: deleting a bucket cannot be observed (a refinement of
  `TokenBucket` until a restart).
* `ImplementsInbox`: the intake as a whole.  Nothing filed, given or promised is
  taken back; an entry is dispatched only with a worker and closed only without.
  A failed statement, a crash or a recovery may stop an entry, but makes no step
  of another kind.
* `WrittenWhenCompleted`: the error of one action survives the success of the
  next, in each attempt.
* `RepeatsAccountedFor`: an entry of the result is done again only for a failure
  that was counted or an outcome that was lost, and at most
  `writeBackMaxAttempts` times plus the lost ones.  A label that is listed n
  times is n entries, so GitHub is asked n times for it in every attempt.
* `PolicyKept`: truncation, label matching, statuses and the parsing of rules
  against a statement of what a section permits, for the policy found when the
  attempt began.  A section that is absent permits, as in the code (the guide
  asks more of commits, section 6).  The raw output, shown to GitLab, is under no
  policy; the property says of it only that it is shown in place of a comment.
* `ImplementsDelivery`: write-back is at-least-once delivery.  An event is written
  only by an attempt that has seen all it asks acknowledged, and no attempt
  follows; each attempt ends in one way (written, counted, given up, or lost) and
  an action is done no more often than attempts were counted or lost, plus one.

Fairness (`Serve` only; the other runs check safety).  Weak fairness of each goroutine and handler (every request and
statement has a timeout), of each scan and its sends (tickers), of time
(`Backoff`, `Age`), of the write-back loop and of `Restart` (a supervisor).
Strong fairness of `Admit`, a claim the limiter lets through: buckets refill at
two tokens a second, so a worker that is asked for again and again is granted
again and again, although each single request may be refused.  Nothing is
assumed of requests, webhooks, operators, panics and crashes.  `WF(Step(j))`
does not favour an answer: a worker may fail every time, and the task then
settles through its retry budget.

## 5. Proofs

All safety properties above are theorems, for any sets of tasks, events, jobs
and workers and any bounds that meet `DispatchAssumption` (events are tasks,
`WorkerOf` is total, the numbers are naturals, capacity and retries at least 1)
and `SlowAssumption`.

* `TypeCorrect` (`ServeProofs`): one lemma per family of operations, one step
  per action.
* `OneTaskAtATime`: inductive invariant `FlightInv`, that is `SingleFlight` and
  `HeldBusy` (a goroutine that holds a worker finds it busy).  `SetBusy` takes
  only an online worker, so no other goroutine can hold it; only holders change
  a busy worker.
* `HandsBack`: the action property, from the same invariant and types.
* `RetriesBounded` (`OutcomeProofs`): `RetryInv` adds that a goroutine about to
  write has read a count below the budget, or its row is settled by now and the
  WHERE clause protects it.  `SettledKept` (no operation changes a settled
  row's state or attempts) is the lemma everything else rests on.
* `WritesBackOnce` (`ContractProofs`): `WriteInv` adds that only the goroutine
  whose `Complete` changed the row is on its way to the write-back, that there
  is one such goroutine per event, and that nothing has been written before.
* `EventsFollowTasks`: `EventInv` adds the same knowledge for goroutines after
  their write-back and for events in the hands of the write-back loop.
* `OrphansExplained`, `FailuresExplained` (`OrphanProofs`): `AdmitInv` says what
  the rows are while a webhook is on its way to its task (no task before it is
  created, an event not dispatched before it is linked), so that the steps of
  intake, scans and recovery can be told from those of dispatches; the rest is a
  step for each action.
* `ServerKeepsContract`: the refinement, from `TaskSteps` (which store
  operation a step applies), `WroteSteps` and `WriteInv`.

Those of the other modules, for any values that meet `FleetAssumption` (there
may be a listener for each worker, workers are finitely many),
`LimiterAssumption` (a bucket is full again before it may be deleted),
`IntakeAssumption` (deliveries have one of the limiter's keys, workers have
different ranks) and `PolicyAssumption`, `WriteBackAssumption` (finitely many
labels, at least one attempt, results and sections of the right form):

* `LimiterIsTokenBucket` (`LimiterProofs`): the type invariant is inductive; a
  bucket that may be deleted has an age beyond the window, so its level is the
  capacity already, and `Cleanup` leaves all levels as they are.
* `FleetProofs`: one invariant, `IInv`.  `Rows` and `Others` are the types, with
  absent entries being exactly `Absent`.  `Containers` and `Orphans` say whose
  each container is: a dispatch owns its own, two never the same, and while the
  server is up one that nobody owns is leaked or unseen.
  `Exclusion` adds to `BusyExcludes` that the worker of a dispatch is busy in
  the table and in the server's copy, or tainted; without `CacheFresh` a reload
  could not be shown to keep that.  `CopyIsFresh`, `BusyIsExclusive` and
  `NoOrphans` are conjuncts, `TypeCorrect` adds the bound of the listeners, and
  `RowsAreKept` is an action property of each step.  `FleetIsLease` adds
  `TaintHeld`: a broken lease has a holder.  Without it a hand-back could mend a
  lease that is not the one given back.  That a `SetBusy` that is accepted finds
  no holder, or a broken lease, is `Exclusion`; that a container which is made
  is new, and one that is returned exists, is `Containers`.
* `IntakeProofs`: per request, `Handled` (what handler and answer say of the
  row), `Going` (what goroutine and recovery say of its state), `Tasked` (one
  worker has the task, the one that was matched), `Stranded` and `Routed`; and
  across requests `IdsDiffer`, the unique index.  `DeliveredOnce` needs
  `IdsDiffer` and `Tasked`; `RouteIsStable` needs `Routed` and that `FirstTaker`
  has at most one member; `LimiterIsKept` reuses `LimiterProofs`.  For
  `IntakeIsInbox`, `Going` says besides which goroutines run over an entry that
  is still open, and `Tasked` that none has a task before `CreateTask` or on the
  way to `fail`, while in `dispatch` and `undo` the matched worker alone has it; a
  step concerns one entry (`EntryApart`), and that entry's row makes one step of
  `Inbox` or none.
* `WriteBackProofs`: first what the filters let through (`FilterPermits`, one
  lemma per section) and that a plan consists of permitted actions, one for each
  entry of the filtered result, where the place of a label tells two of the same
  name apart (`PlanAllowed`, `ListedOnce`).  Then per event: `Place` (what the row says while an attempt
  is due, under way, listed or over), `Planned`, `Complete` (what is asked is
  planned or acknowledged, or the attempt has failed) and `Counted` (for an
  action that has been or will be done, its number plus one if it is still
  planned is within what attempts and lost outcomes account for).  `Counted`
  holds at the next attempt because each end of an attempt moves one of the two
  counters (`FinishEffect`).  `WriteBackDelivers` needs of `Planned` that what
  is still to be sent was asked and is not acknowledged, and of `Counted` that a
  request may still be made; the end of an attempt is `Write`, `Fail`, `Abandon`
  or `Forget` by what became of its statement.

Only model-checked: the liveness properties (fairness and ENABLED are beyond
the prover).  `ServeClaims` and `AdaptersComeUp` are refuted, not proved.

## 6. Where the repository says otherwise

Each is refuted by a run, and `PROJECT.json` quotes the text.

* `BusyMeansExecuting` (`workers/types.go:13`): a crash in mid dispatch, or a
  `SetOnline` that fails, leaves a worker persisted busy that nothing frees.
* `RetryReachesWorker` (`website/guide/server.md:77,86`): a transport error
  puts the worker in error, so its own retry is refused and the task failed
  before its attempts are used.
* `EventNotOrphaned` (`writeback_retry.go:18-20`): a `SetWriteBackFailed` that
  fails leaves the event `dispatched` for ever.
* `DrainRecordsResult` (`website/guide/server.md:185`): the shutdown cancels the
  context with which the draining dispatches would record their outcome.

* `AdaptersComeUp` (`website/guide/adapters.md:108`): an adapter that was
  running when the server stopped stays `online` in the table, and the next
  server starts only those that are offline.

The others were met while modelling and are no properties of a run:

* `server.md:86` says that any 5xx fails without a retry, while
  `isTransportError` retries 502, 503 and 504.
* The comment on `StopRuntime` (`registry.go:122`) asks its caller not to stop a
  busy container; the callers stop it before they call.
* `dispatch.go:101` relies on `SetBusy` against concurrent dispatch; a command
  that stops and starts the worker from an older copy frees it underneath.
* `website/guide/policy.md`: "nothing is written to the platform" when all is
  denied, but GitLab is shown the raw output; "invalid YAML types" deny only
  inside a mapping; and a worker that has been removed has no policy, which
  permits all.
* `website/guide/events.md`: GitLab events are answered by `GitLabResponder`
  (nothing registers it, and the GitHub client answers them), GitLab hydrates
  (it does not), triggers generate events (nothing starts one).
* `website/guide/events.md:491` requires `policy.commit.allow: true` for a commit
  suggestion, and the comment-only worker of `policy.md` has no commit section;
  `applyCommit` lets the commit through when the section is absent.
* `website/guide/events.md:127`: a filter is an "equality match", but of how a
  value prints.  A number of a million or more (a Telegram `chat_id`) is an int
  when the message arrives and a float64 when the event is recovered, so such a
  filter matches before a restart and not after (`match.go:29`,
  `events/helpers.go:38`); the event goes to another worker, or is skipped.
* Without a GitHub token a write-back counts as done and is not made later.
* `applyMetadata` differs from the guide in its default and its log.

## 7. Not modelled, and why

* Migrations and schema (`internal/store`): run once when a database is opened.
  The unique indexes are guards of `Insert` and `CreateTask` in `Intake`.
* Audit log, metrics, traces: written and never read by a decision.
* Configuration, secrets, validation, redaction, authentication: sequential
  parsing without state.  Their reload is an action of `Intake` and `WriteBack`.
* The MCP server: a client of the HTTP API, one request at a time.  The rest of
  the command line displays rows.
* Of the sources: the generic one and the cron trigger, which nothing in the
  program creates; the GET handshakes and Slack's challenge, which leave no
  trace; the content of attributes and prompts.
* Of adapters and the worker runtime: the calls to model backends.
* Of containers: images, mounts, environment, host parsing.
* A panic in `matchAndHydrate`: it is recovered and leaves the event where it
  was, to be found by the recovery of the next start.
* The list endpoints, which only read.
