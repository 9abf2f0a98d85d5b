------------------------------- MODULE Fleet -------------------------------
(***************************************************************************)
(* The server, the `mecha worker' commands, the containers and the         *)
(* in-process adapters, as far as the registry ties them together: each    *)
(* process changes the workers table from its own copy of it, and asks     *)
(* Docker and the workers themselves in between.                           *)
(*                                                                         *)
(* A container or an adapter's listener is a number; 0 is none.            *)
(***************************************************************************)
EXTENDS Registry, FiniteSets

CONSTANTS Serve,        \* the server's process
          Command,      \* processes of `mecha worker'
          Job,          \* dispatch goroutines
          NoWorker,
          HasDocker,    \* Config.Docker, which `mecha serve' leaves nil
          MaxListeners, MaxCommands, MaxBoots, MaxFaults  \* bounds

ASSUME FleetAssumption ==
    /\ Process = Command \cup {Serve} /\ Serve \notin Command
    /\ HasDocker \in BOOLEAN /\ NoWorker \notin Worker
    /\ {MaxListeners, MaxCommands, MaxBoots, MaxFaults} \subseteq Nat
    /\ IsFiniteSet(Worker) /\ Cardinality(Worker) <= MaxListeners

VARIABLES kind,      \* what the worker's YAML says it is
          cmd,       \* a command: what it does, to which workers, where it is
          box,       \* the container mecha-worker-<name>
          temps,     \* containers of disposable workers
          leaked,    \* those nobody removes before the server starts again
          unseen,    \* those a sweep does not find
          runner,    \* adapterRunners: the listener of each adapter
          busyAt,    \* listeners whose busy flag is set
          serve,     \* "down", "boot" or "up"
          todo,      \* adapters still to be started
          snap,      \* entries reconcile has still to look at
          probe,     \* the entry it has checked
          pc, on, at,  \* of each goroutine: its worker and the endpoint it read
          stale,     \* rows written by commands since the server last read them
          tainted,   \* workers whose exclusion was broken under a dispatch
          gen, launched, boots, faults  \* counters

dockerVars == <<box, gen>>
tempVars == <<temps, leaked, unseen>>
bootVars == <<serve, todo, boots, runner>>
reconcileVars == <<snap, probe>>
jobVars == <<pc, on, at, busyAt>>
vars == <<registryVars, kind, cmd, launched, dockerVars, tempVars, bootVars, reconcileVars,
          jobVars, stale, tainted, faults>>

-----------------------------------------------------------------------------
Kind == {"managed", "disposable", "adapter", "unmanaged"}
IsManaged(w) == kind[w] \in {"managed", "disposable"}

Fault == faults < MaxFaults /\ faults' = faults + 1

(* dispatchTask between SetBusy and the return that hands the worker back. *)
Holds(j, w) == /\ pc[j] \in {"send", "work", "ok", "lost"}
               /\ on[j] = w /\ kind[w] # "disposable"
Held(w) == \E j \in Job : Holds(j, w)

Live == {box[w].id : w \in {v \in Worker : box[v].st = "running"}}
        \cup temps \cup ({runner[w] : w \in Worker} \ {0})

(* GET /health: 200 only from a listener that is there and not busy. *)
Healthy(id) == id \in Live /\ id \notin busyAt

NoBox == [id |-> 0, st |-> "none"]
NewListener == gen < MaxListeners /\ gen' = gen + 1

-----------------------------------------------------------------------------
(* Commands. *)
Off == [pc |-> "off", op |-> "none", ws |-> {}, id |-> 0]

Goto(c, l) == cmd' = [cmd EXCEPT ![c] = IF l = "off" THEN Off
                                        ELSE [@ EXCEPT !.pc = l]]

(* registry(): the table is read once, when the command starts. *)
Launch(c) ==
    /\ cmd[c] = Off /\ launched < MaxCommands
    /\ launched' = launched + 1
    /\ Load(c)
    /\ \E op \in {"add", "start", "stop", "remove"}, ws \in SUBSET Worker \ {{}} :
          /\ op # "add" => Cardinality(ws) = 1
          /\ cmd' = [cmd EXCEPT ![c] = [pc |-> "get", op |-> op, ws |-> ws, id |-> 0]]
    /\ UNCHANGED <<dockerVars, faults>>

(* What the copy says of the worker decides how the command goes on. *)
FirstStep(c, w) ==
    LET e == cache[c][w]
    IN  CASE e = Absent -> "off"
          [] cmd[c].op = "start" ->
                CASE e.state # "offline" \/ kind[w] = "adapter" -> "off"
                  [] IsManaged(w) -> "wipe"
                  [] OTHER        -> "begin"
          [] cmd[c].op = "stop"   -> IF IsManaged(w) /\ e.cid # 0 THEN "halt" ELSE "stop"
          [] cmd[c].op = "remove" -> IF IsManaged(w) THEN "raze" ELSE "delete"

GetEntry(c, w) == /\ cmd[c].pc = "get" /\ cmd[c].op # "add"
                  /\ Goto(c, FirstStep(c, w))
                  /\ UNCHANGED <<registryVars, dockerVars, faults>>

(* addFile; addDir first looks for a name that is taken. *)
CheckBatch(c) ==
    /\ cmd[c].pc = "get" /\ cmd[c].op = "add"
    /\ Goto(c, IF \A w \in cmd[c].ws : cache[c][w] = Absent THEN "insert" ELSE "off")
    /\ UNCHANGED <<registryVars, dockerVars, faults>>

Insert(c, w) ==
    /\ cmd[c].pc = "insert"
    /\ \/ /\ Add(c, w)
          /\ cmd' = [cmd EXCEPT ![c] = IF @.ws = {w} THEN Off
                                           ELSE [@ EXCEPT !.ws = cmd[c].ws \ {w}]]
          /\ UNCHANGED faults
       \/ Fault /\ Goto(c, "off") /\ UNCHANGED registryVars
    /\ UNCHANGED dockerVars

(* Registry.Remove, the last step of `worker remove'. *)
Delete(c, w) ==
    /\ cmd[c].pc = "delete"
    /\ \/ Remove(c, w) /\ UNCHANGED faults
       \/ cache[c][w].state # "offline" /\ UNCHANGED <<registryVars, faults>>
       \/ Fault /\ UNCHANGED registryVars
    /\ Goto(c, "off")
    /\ UNCHANGED dockerVars

(* A registry method of a command: what it calls where, and what is next.   *)
Method == [begin |-> "Start", stop |-> "Stop", blame |-> "SetError",
           record |-> "SetRuntime", halted |-> "StopRuntime", razed |-> "ClearRuntime"]
Next1(c, w) == CASE cmd[c].pc = "begin" -> "probe"
                 [] cmd[c].pc = "razed" -> "delete"
                 [] OTHER               -> "off"

CallMethod(c, w) ==
    LET m == Method[cmd[c].pc]
    IN  /\ cmd[c].pc \in DOMAIN Method
        /\ \/ /\ Call(c, w, m, cmd[c].id, cmd[c].id)
              /\ Goto(c, Next1(c, w))
              /\ UNCHANGED faults
           \/ ~Accepts(c, w, m) /\ Goto(c, "off") /\ UNCHANGED <<registryVars, faults>>
           \/ Fault /\ Goto(c, "off") /\ UNCHANGED registryVars
        /\ UNCHANGED dockerVars

(* workerStartCmd: the health check of an unmanaged worker, whose listener  *)
(* is none of ours.                                                         *)
ProbeUnmanaged(c) ==
    /\ cmd[c].pc = "probe"
    /\ \E l \in {"off", "blame"} : Goto(c, l)
    /\ UNCHANGED <<registryVars, dockerVars, faults>>

-----------------------------------------------------------------------------
(* dockerStart.  A container that does not come up is removed again.        *)
Wipe(c, w) ==
    /\ cmd[c].pc = "wipe"
    /\ \/ box' = [box EXCEPT ![w] = NoBox] /\ UNCHANGED faults
       \/ Fault /\ UNCHANGED box
    /\ Goto(c, "create")
    /\ UNCHANGED <<registryVars, gen>>

Create(c, w) ==
    /\ cmd[c].pc = "create"
    /\ \/ /\ box[w] = NoBox /\ NewListener
          /\ box' = [box EXCEPT ![w] = [id |-> gen', st |-> "created"]]
          /\ cmd' = [cmd EXCEPT ![c].pc = "boot", ![c].id = gen']
          /\ UNCHANGED faults
       \/ box[w] # NoBox /\ Goto(c, "blame") /\ UNCHANGED <<dockerVars, faults>>
       \/ Fault /\ Goto(c, "blame") /\ UNCHANGED dockerVars
    /\ UNCHANGED registryVars

Mine(c, w) == box[w].id = cmd[c].id

StartBox(c, w) ==
    /\ cmd[c].pc = "boot"
    /\ \/ /\ Mine(c, w)
          /\ box' = [box EXCEPT ![w].st = "running"]
          /\ Goto(c, "health")
          /\ UNCHANGED faults
       \/ /\ Goto(c, "blame")
          /\ IF Mine(c, w)
             THEN Fault /\ box' \in {box, [box EXCEPT ![w] = NoBox]}
             ELSE UNCHANGED <<box, faults>>
    /\ UNCHANGED <<registryVars, gen>>

(* waitForHealth gives up after two minutes. *)
AwaitHealth(c, w) ==
    /\ cmd[c].pc = "health"
    /\ \/ /\ Mine(c, w) /\ Healthy(cmd[c].id)
          /\ Goto(c, "record")
          /\ UNCHANGED <<box, faults>>
       \/ /\ Goto(c, "blame")
          /\ IF Mine(c, w)
             THEN /\ IF Healthy(cmd[c].id) THEN Fault ELSE UNCHANGED faults
                  /\ box' \in {box, [box EXCEPT ![w].st = "exited"], [box EXCEPT ![w] = NoBox]}
             ELSE UNCHANGED <<box, faults>>
    /\ UNCHANGED <<registryVars, gen>>

(* dockerStop stops the container its copy names ... *)
Halt(c, w) ==
    /\ cmd[c].pc = "halt"
    /\ \/ /\ box' = IF box[w].id = cache[c][w].cid /\ box[w].st = "running"
                    THEN [box EXCEPT ![w].st = "exited"] ELSE box
          /\ Goto(c, "halted")
          /\ UNCHANGED faults
       \/ Fault /\ Goto(c, "off") /\ UNCHANGED box
    /\ UNCHANGED <<registryVars, gen>>

(* ... and dockerRemove goes on whatever Docker says. *)
Raze(c, w) ==
    /\ cmd[c].pc = "raze"
    /\ \/ /\ box' = IF cache[c][w].cid \in {0, box[w].id}
                    THEN [box EXCEPT ![w] = NoBox] ELSE box
          /\ UNCHANGED faults
       \/ Fault /\ UNCHANGED box
    /\ Goto(c, "razed")
    /\ UNCHANGED <<registryVars, gen>>

(* A command is interrupted. *)
Interrupt(c) == /\ cmd[c] # Off /\ Fault /\ Goto(c, "off")
                /\ UNCHANGED <<registryVars, dockerVars>>

WorkerStep(c, w) == \/ GetEntry(c, w) \/ Insert(c, w)   \/ Delete(c, w)
                    \/ CallMethod(c, w) \/ Wipe(c, w)   \/ Create(c, w)
                    \/ StartBox(c, w) \/ AwaitHealth(c, w)
                    \/ Halt(c, w)     \/ Raze(c, w)

(* The rows it overwrites are news to the server, and end the exclusion of *)
(* a dispatch that relies on them.                                          *)
Overwritten == {w \in Worker : row'[w] # row[w]}

CommandNext ==
    /\ \E c \in Command :
          \/ Launch(c)
          \/ /\ \/ CheckBatch(c) \/ ProbeUnmanaged(c) \/ Interrupt(c)
                \/ \E w \in cmd[c].ws : WorkerStep(c, w)
             /\ UNCHANGED launched
    /\ stale' = stale \cup Overwritten
    /\ tainted' = tainted \cup {w \in Overwritten : Held(w)}
    /\ UNCHANGED <<kind, tempVars, bootVars, reconcileVars, jobVars>>

-----------------------------------------------------------------------------
(* The server starts: its copy of the table, then the adapters that are     *)
(* offline, then the orphans of disposable workers, then everything else.   *)
Boot ==
    /\ serve = "down" /\ boots < MaxBoots
    /\ boots' = boots + 1
    /\ Load(Serve)
    /\ serve' = "boot"
    /\ todo' = {w \in Worker : kind[w] = "adapter" /\ row[w].state = "offline"}
    /\ UNCHANGED <<dockerVars, tempVars, runner, faults>>

(* adapterStart.  Its health check, or anything before it, may fail. *)
AdapterStart(w) ==
    /\ serve = "boot" /\ w \in todo
    /\ todo' = todo \ {w}
    /\ \/ /\ NewListener
          /\ runner' = [runner EXCEPT ![w] = gen']
          /\ \/ Call(Serve, w, "SetRuntime", 0, gen') /\ UNCHANGED faults
             \/ Fault /\ UNCHANGED registryVars
       \/ /\ \/ Call(Serve, w, "SetError", 0, 0) \/ UNCHANGED registryVars
          /\ Fault
          /\ UNCHANGED <<runner, gen>>
    /\ UNCHANGED <<serve, boots, box, tempVars>>

(* CleanupOrphanDisposables asks one daemon for the label; what it cannot   *)
(* remove (all of it, if it cannot even list) is skipped.                   *)
Swept(refused) == /\ temps' = unseen \cup refused
                  /\ leaked' = (leaked \cap unseen) \cup refused
                  /\ UNCHANGED unseen

CleanupOrphanDisposables ==
    \/ Swept({}) /\ UNCHANGED faults
    \/ Fault /\ \E refused \in SUBSET (temps \ unseen) : Swept(refused)

Up == /\ serve = "boot" /\ todo = {}
      /\ serve' = "up"
      /\ IF HasDocker THEN CleanupOrphanDisposables ELSE UNCHANGED <<tempVars, faults>>
      /\ UNCHANGED <<registryVars, todo, boots, dockerVars, runner>>

BootNext == /\ Boot \/ Up \/ \E w \in Worker : AdapterStart(w)
            /\ stale' = IF serve = "down" THEN {} ELSE stale
            /\ UNCHANGED <<kind, cmd, launched, reconcileVars, jobVars, tainted>>

(* The process ends, by a crash or by a shutdown that has waited its time:  *)
(* its goroutines and its listeners are gone, and the table says nothing of *)
(* it.                                                                      *)
Exit == /\ serve # "down"
        /\ serve' = "down" /\ todo' = {}
        /\ runner' = [w \in Worker |-> 0]
        /\ snap' = {} /\ probe' = {}
        /\ pc' = [j \in Job |-> "idle"]
        /\ on' = [j \in Job |-> NoWorker] /\ at' = [j \in Job |-> 0]
        /\ tainted' = {}
        /\ UNCHANGED <<registryVars, kind, cmd, launched, dockerVars, tempVars, boots,
                       busyAt, stale, faults>>

(* A variant: orphans are looked for although dispatches are running. *)
SweepOnReload == /\ serve = "up"
                 /\ Load(Serve)
                 /\ stale' = {} /\ Swept({})
                 /\ UNCHANGED <<kind, cmd, launched, dockerVars, bootVars,
                                reconcileVars, jobVars, tainted, faults>>

(* matchAndHydrate reloads the registry for every webhook. *)
Reload == /\ serve = "up"
          /\ Load(Serve)
          /\ stale' = {}
          /\ UNCHANGED <<kind, cmd, launched, dockerVars, tempVars, bootVars, reconcileVars,
                         jobVars, tainted, faults>>

-----------------------------------------------------------------------------
(* reconcile: a list of copies, then for each a health check and, by what   *)
(* the copy said, SetError or Recover; on a worker that is offline or busy  *)
(* in the list the answer has no effect.                                    *)
List == /\ HasDocker /\ serve = "up" /\ snap = {} /\ probe = {}
        /\ snap' = {[w |-> v, state |-> cache[Serve][v].state, ep |-> cache[Serve][v].ep] :
                    v \in {u \in Worker : /\ IsManaged(u) /\ cache[Serve][u].cid # 0
                                          /\ cache[Serve][u].ep # 0
                                          /\ cache[Serve][u].state \in {"online", "error"}}}
        /\ snap' # {}
        /\ UNCHANGED <<registryVars, probe, tainted, faults>>

Check(e) == /\ probe = {} /\ e \in snap
            /\ snap' = snap \ {e}
            /\ \/ /\ Healthy(e.ep)
                  /\ probe' = IF e.state = "error" THEN {[w |-> e.w, m |-> "Recover"]} ELSE {}
                  /\ UNCHANGED faults
               \/ /\ IF Healthy(e.ep) THEN Fault ELSE UNCHANGED faults
                  /\ probe' = IF e.state = "online" THEN {[w |-> e.w, m |-> "SetError"]} ELSE {}
            /\ UNCHANGED <<registryVars, tainted>>

Judge(p) == /\ p \in probe
            /\ probe' = {}
            /\ \/ /\ Call(Serve, p.w, p.m, 0, 0)
                  /\ tainted' = IF Held(p.w) THEN tainted \cup {p.w} ELSE tainted
                  /\ UNCHANGED faults
               \/ ~Accepts(Serve, p.w, p.m) /\ UNCHANGED <<registryVars, tainted, faults>>
               \/ Fault /\ UNCHANGED <<registryVars, tainted>>
            /\ UNCHANGED snap

ReconcileNext == /\ List \/ (\E e \in snap : Check(e)) \/ (\E p \in probe : Judge(p))
                 /\ UNCHANGED <<kind, cmd, launched, dockerVars, tempVars, bootVars, jobVars,
                                stale>>

-----------------------------------------------------------------------------
(* dispatchTask, as the registry and the workers see it.                    *)
Pick(j, w) ==
    LET e == cache[Serve][w]
    IN  /\ pc[j] = "idle"
        /\ on' = [on EXCEPT ![j] = w]
        /\ \/ /\ kind[w] = "disposable" /\ e # Absent
              /\ pc' = [pc EXCEPT ![j] = "make"] /\ UNCHANGED at
           \/ /\ kind[w] # "disposable" /\ e.state = "online"
              /\ e.ep # 0 \/ kind[w] = "unmanaged"
              /\ pc' = [pc EXCEPT ![j] = "claim"] /\ at' = [at EXCEPT ![j] = e.ep]
        /\ UNCHANGED <<registryVars, tempVars, gen, busyAt, tainted, faults>>

LeaveWorkerSet(j) == /\ pc' = [pc EXCEPT ![j] = "idle"]  \* a variant
                     /\ UNCHANGED on /\ at' = [at EXCEPT ![j] = 0]

Leave(j) == /\ pc' = [pc EXCEPT ![j] = "idle"]
            /\ on' = [on EXCEPT ![j] = NoWorker] /\ at' = [at EXCEPT ![j] = 0]

(* A variant: the worker counts as claimed although SetBusy has failed. *)
ClaimAnyway(j) ==
    /\ pc[j] = "claim"
    /\ \/ Call(Serve, on[j], "SetBusy", 0, 0) \/ UNCHANGED registryVars
    /\ pc' = [pc EXCEPT ![j] = "send"] /\ UNCHANGED <<on, at>>
    /\ UNCHANGED <<tempVars, gen, busyAt, tainted, faults>>

Claim(j) ==
    /\ pc[j] = "claim"
    /\ \/ /\ Call(Serve, on[j], "SetBusy", 0, 0)
          /\ pc' = [pc EXCEPT ![j] = "send"] /\ UNCHANGED <<on, at, faults>>
       \/ /\ \/ ~Accepts(Serve, on[j], "SetBusy") /\ UNCHANGED faults
             \/ Fault
          /\ Leave(j) /\ UNCHANGED registryVars
    /\ UNCHANGED <<tempVars, gen, busyAt, tainted>>

(* The new container.  The daemon (docker.host) and the label it gets are   *)
(* those of the worker's YAML, and not always those the sweep asks for.     *)
Made == /\ NewListener
        /\ temps' = temps \cup {gen'}
        /\ unseen' \in {unseen, unseen \cup {gen'}}

(* A variant: a container that does not become healthy is left alone. *)
MakeWithoutCleanup(j) ==
    /\ pc[j] = "make"
    /\ \/ /\ Made
          /\ \/ /\ at' = [at EXCEPT ![j] = gen']
                /\ pc' = [pc EXCEPT ![j] = "send"] /\ UNCHANGED <<on, faults>>
             \/ Leave(j) /\ Fault
       \/ Fault /\ Leave(j) /\ UNCHANGED <<temps, unseen, gen>>
    /\ UNCHANGED <<registryVars, leaked, busyAt, tainted>>

(* disposableContainer: created, started and healthy, or created and to be  *)
(* cleaned up.  Of a container whose Create is not answered, or that is     *)
(* there when a panic comes before the deferred cleanup(), the dispatch     *)
(* knows nothing.                                                           *)
MakeContainer(j) ==
    /\ pc[j] = "make"
    /\ \/ /\ Made
          /\ \/ /\ at' = [at EXCEPT ![j] = gen']
                /\ \/ pc' = [pc EXCEPT ![j] = "send"] /\ UNCHANGED faults
                   \/ pc' = [pc EXCEPT ![j] = "clean"] /\ Fault
                /\ UNCHANGED <<on, leaked>>
             \/ Fault /\ Leave(j) /\ leaked' = leaked \cup {gen'}
       \/ Fault /\ Leave(j) /\ UNCHANGED <<tempVars, gen>>
    /\ UNCHANGED <<registryVars, busyAt, tainted>>

(* No token is left for the worker: it is handed back, the task waits.      *)
Yield(j) == /\ pc[j] = "send" /\ kind[on[j]] # "disposable"
            /\ pc' = [pc EXCEPT ![j] = "ok"]
            /\ UNCHANGED <<registryVars, tempVars, gen, busyAt, on, at, tainted, faults>>

(* handleTask, at the listener: its flag is swapped, or the answer is 429.  *)
(* A worker of no kind we run answers as it likes.                          *)
Arrive(j) ==
    /\ pc[j] = "send"
    /\ \/ /\ at[j] \in Live \ busyAt
          /\ pc' = [pc EXCEPT ![j] = "work"]
          /\ busyAt' = busyAt \cup {at[j]}
       \/ /\ at[j] \in Live \cap busyAt \/ at[j] = 0
          /\ pc' = [pc EXCEPT ![j] = "ok"] /\ UNCHANGED busyAt
       \/ /\ at[j] \notin Live
          /\ pc' = [pc EXCEPT ![j] = "lost"] /\ UNCHANGED busyAt
    /\ UNCHANGED <<registryVars, tempVars, gen, on, at, tainted, faults>>

Answer(j) == /\ pc[j] = "work" /\ at[j] \in Live
             /\ pc' = [pc EXCEPT ![j] = "ok"]
             /\ busyAt' = busyAt \ {at[j]}
             /\ UNCHANGED <<registryVars, tempVars, gen, on, at, tainted, faults>>

(* The worker's timeout, or the end of its listener.  A container works on. *)
GiveUp(j) == /\ pc[j] = "work"
             /\ pc' = [pc EXCEPT ![j] = "lost"]
             /\ IF at[j] \in Live THEN Fault ELSE UNCHANGED faults
             /\ UNCHANGED <<registryVars, tempVars, gen, busyAt, on, at, tainted>>

(* SetOnline, or SetError after a transport error and then, if that fails,  *)
(* the deferred SetOnline.                                                  *)
HandBack(j) ==
    LET m == IF pc[j] = "ok" THEN "SetOnline" ELSE "SetError"
    IN  /\ pc[j] \in {"ok", "lost"} /\ kind[on[j]] # "disposable"
        /\ \/ Call(Serve, on[j], m, 0, 0) /\ Leave(j) /\ UNCHANGED faults
           \/ /\ \/ ~Accepts(Serve, on[j], m) /\ UNCHANGED faults
                 \/ Fault
              /\ UNCHANGED registryVars
              /\ IF pc[j] = "ok" THEN Leave(j)
                 ELSE pc' = [pc EXCEPT ![j] = "ok"] /\ UNCHANGED <<on, at>>
        /\ tainted' = {w \in tainted : \/ w = on[j] /\ pc'[j] # "idle"
                                       \/ \E i \in Job \ {j} : Holds(i, w)}
        /\ UNCHANGED <<tempVars, gen, busyAt>>

(* The deferred cleanup(). *)
Cleanup(j) ==
    /\ pc[j] = "clean" \/ (pc[j] \in {"ok", "lost"} /\ kind[on[j]] = "disposable")
    /\ \/ /\ temps' = temps \ {at[j]} /\ unseen' = unseen \ {at[j]}
          /\ UNCHANGED <<leaked, faults>>
       \/ Fault /\ leaked' = leaked \cup {at[j]} /\ UNCHANGED <<temps, unseen>>
    /\ Leave(j)
    /\ UNCHANGED <<registryVars, gen, busyAt, tainted>>

JobNext == /\ serve = "up"
           /\ \E j \in Job : \/ \E w \in Worker : Pick(j, w)
                             \/ Claim(j)  \/ MakeContainer(j) \/ Yield(j)    \/ Arrive(j)
                             \/ Answer(j) \/ GiveUp(j)        \/ HandBack(j) \/ Cleanup(j)
           /\ UNCHANGED <<kind, cmd, launched, box, bootVars, reconcileVars, stale>>

-----------------------------------------------------------------------------
(* A container exits; a worker finishes what nobody waits for any more.     *)
BoxExits(w) == /\ box[w].st = "running"
               /\ box' = [box EXCEPT ![w].st = "exited"]
               /\ UNCHANGED busyAt

Finished(id) == /\ \A j \in Job : pc[j] = "work" => at[j] # id
                /\ busyAt' = busyAt \ {id}
                /\ UNCHANGED box

Outside == /\ (\E w \in Worker : BoxExits(w)) \/ (\E id \in busyAt : Finished(id))
           /\ UNCHANGED <<registryVars, kind, cmd, launched, gen, tempVars, bootVars,
                          reconcileVars, pc, on, at, stale, tainted, faults>>

-----------------------------------------------------------------------------
(* What an earlier life of the program may have left: no row, a worker that *)
(* was added, or one that was started (its listener has the number nr[w]).  *)
Left(w, n) == [state |-> "online",
               cid   |-> IF IsManaged(w) THEN n ELSE 0,
               ep    |-> IF kind[w] = "unmanaged" THEN 0 ELSE n]

Init == /\ kind \in [Worker -> Kind]
        /\ \E nr \in [Worker -> 1..Cardinality(Worker)] :
              /\ \A v, w \in Worker : nr[v] = nr[w] => v = w
              /\ row \in {r \in [Worker -> {Absent, Fresh} \cup {Left(w, nr[w]) : w \in Worker}] :
                             \A w \in Worker : r[w] \in {Absent, Fresh, Left(w, nr[w])}}
              /\ box = [w \in Worker |-> IF IsManaged(w) /\ row[w] = Left(w, nr[w])
                                         THEN [id |-> nr[w], st |-> "running"] ELSE NoBox]
        /\ cache = [p \in Process |-> [w \in Worker |-> Absent]]
        /\ cmd = [c \in Command |-> Off]
        /\ temps = {} /\ leaked = {} /\ unseen = {} /\ busyAt = {} /\ todo = {} /\ snap = {} /\ probe = {}
        /\ runner = [w \in Worker |-> 0]
        /\ serve = "down"
        /\ pc = [j \in Job |-> "idle"] /\ on = [j \in Job |-> NoWorker] /\ at = [j \in Job |-> 0]
        /\ stale = {} /\ tainted = {}
        /\ gen = Cardinality(Worker) /\ launched = 0 /\ boots = 0 /\ faults = 0

Next == CommandNext \/ BootNext \/ Exit \/ Reload \/ ReconcileNext \/ JobNext \/ Outside

Spec == Init /\ [][Next]_vars

-----------------------------------------------------------------------------
Id == 0..MaxListeners

CommandState == [pc : {"off", "get", "insert", "delete", "probe", "wipe", "create", "boot",
                       "health", "halt", "raze"} \cup DOMAIN Method,
                 op : {"none", "add", "start", "stop", "remove"},
                 ws : SUBSET Worker, id : Id]
Box == [id : Id, st : {"none", "created", "running", "exited"}]

TypeOK ==
    /\ RegistryTypeOK
    /\ kind \in [Worker -> Kind]
    /\ cmd \in [Command -> CommandState]
    /\ box \in [Worker -> Box]
    /\ temps \subseteq Id /\ leaked \subseteq temps /\ unseen \subseteq temps
    /\ busyAt \subseteq Id
    /\ runner \in [Worker -> Id]
    /\ serve \in {"down", "boot", "up"} /\ todo \subseteq Worker
    /\ snap \subseteq [w : Worker, state : WorkerState, ep : Id]
    /\ probe \subseteq [w : Worker, m : {"Recover", "SetError"}]
    /\ pc \in [Job -> {"idle", "make", "claim", "send", "work", "ok", "lost", "clean"}]
    /\ on \in [Job -> Worker \cup {NoWorker}] /\ at \in [Job -> Id]
    /\ \A j \in Job : pc[j] = "idle" <=> on[j] = NoWorker
    /\ stale \subseteq Worker /\ tainted \subseteq Worker
    /\ gen \in Id /\ launched \in Nat /\ boots \in Nat /\ faults \in Nat

(* The server's copy of an entry differs from the table only if a command   *)
(* has changed the row since the server last read it: no method of the      *)
(* server, failing or not, lets the two part (mutateEntry).                 *)
CacheFresh == \A w \in Worker :
    serve # "down" /\ cache[Serve][w] # row[w] => w \in stale

(* Only commands make and delete rows.  A worker that `worker remove' has   *)
(* deleted is not brought back by a server that still knows it and records  *)
(* the end of a dispatch or of a health check.                              *)
ServerKeepsRows ==
    [][\A w \in Worker : (row[w] = Absent) # (row'[w] = Absent) => cmd' # cmd]_vars

(* dispatchTask relies on SetBusy for exclusion.  With several processes    *)
(* writing the table, two dispatches hold one worker only if, while one     *)
(* held it, a command wrote its row or reconcile changed its state.         *)
BusyExcludes == \A w \in Worker, i, j \in Job :
    Holds(i, w) /\ Holds(j, w) /\ i # j => w \in tainted

(* A dispatch has a container from its creation to the deferred cleanup().  *)
Owns(j) == /\ pc[j] \in {"send", "work", "ok", "lost", "clean"}
           /\ kind[on[j]] = "disposable"

(* No container of a disposable worker outlives its dispatch, or a crash of *)
(* the server, unnoticed: a server that is up and has Docker configured     *)
(* (Config.Docker, which `mecha serve' leaves nil) has no others than those *)
(* of running dispatches, those of which Docker, since the server started,  *)
(* refused the removal or did not answer the creation, and those its sweep  *)
(* does not ask for (a docker.host or a mecha.lifecycle label of the        *)
(* worker's own).                                                           *)
OrphansCleaned ==
    HasDocker /\ serve = "up" =>
        temps \subseteq leaked \cup unseen \cup {at[j] : j \in {i \in Job : Owns(i)}}

-----------------------------------------------------------------------------
(* The state of Lease. *)
Holders == [w \in Worker |-> {j \in Job : Holds(j, w)}]
Rented == [j \in Job |-> IF Owns(j) THEN at[j] ELSE 0]

Ledger == INSTANCE Lease WITH Container <- 1..MaxListeners, None <- 0, Sweeps <- HasDocker,
              open <- serve = "up", holders <- Holders, broken <- tainted,
              rented <- Rented, containers <- temps, left <- leaked, hidden <- unseen

(* Workers are leased and containers rented one at a time: a broken lease   *)
(* is whole again once its last holder is gone, a container stays as long   *)
(* as its dispatch, and a server that has died gives out nothing before it  *)
(* has swept what the dead one had made.                                    *)
ImplementsLease == Ledger!Spec

-----------------------------------------------------------------------------
(* What website/guide/adapters.md says: on the start of `mecha serve' any   *)
(* adapter worker comes up, so that one that is online has its listener.    *)
AdaptersComeUp == \A w \in Worker :
    /\ serve = "up" /\ kind[w] = "adapter"
    /\ cache[Serve][w].state = "online"
    => runner[w] # 0
=============================================================================
