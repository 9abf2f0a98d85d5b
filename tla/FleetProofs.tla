---------------------------- MODULE FleetProofs ----------------------------
(***************************************************************************)
(* Proofs about Fleet, for every set of workers, commands and dispatches   *)
(* and every number of listeners, boots and faults.                        *)
(***************************************************************************)
EXTENDS Fleet, FiniteSetTheorems, TLAPS

-----------------------------------------------------------------------------
(* The inductive invariant, in parts.                                      *)

(* An entry that leads somewhere is an entry of a worker. *)
Row == {e \in [state : WorkerState \cup {"absent"}, cid : Id, ep : Id] :
            e.state = "absent" => e = Absent}
Rows == row \in [Worker -> Row] /\ cache \in [Process -> [Worker -> Row]]

Cmds == /\ cmd \in [Command -> CommandState]
        /\ \A c \in Command : cmd[c].pc # "off" => cmd[c].op # "none"

Containers ==
    /\ temps \subseteq 1..gen /\ leaked \subseteq temps /\ unseen \subseteq temps
    /\ \A j \in Job : Owns(j) => at[j] \in temps \ leaked
    /\ \A i, j \in Job : Owns(i) /\ Owns(j) /\ at[i] = at[j] => i = j

Orphans ==
    HasDocker /\ serve = "up" =>
        \A id \in temps \ (leaked \cup unseen) : \E j \in Job : Owns(j) /\ at[j] = id

Dispatches ==
    /\ pc \in [Job -> {"idle", "make", "claim", "send", "work", "ok", "lost", "clean"}]
    /\ on \in [Job -> Worker \cup {NoWorker}] /\ at \in [Job -> Id]
    /\ \A j \in Job : pc[j] = "idle" <=> on[j] = NoWorker
    /\ \A j \in Job : pc[j] \in {"make", "clean"} => kind[on[j]] = "disposable"
    /\ \A j \in Job : pc[j] = "claim" => kind[on[j]] # "disposable"
    /\ serve # "up" => \A j \in Job : pc[j] = "idle"

(* What exclusion rests on: nobody else writes the entry of a worker that  *)
(* is held, or it is tainted.                                              *)
Claimed(e) == e.state \in {"busy", "absent"}
Exclusion ==
    /\ \A w \in Worker, j \in Job :
          Holds(j, w) => w \in tainted \/ (Claimed(cache[Serve][w]) /\ Claimed(row[w]))
    /\ BusyExcludes

Others ==
    /\ kind \in [Worker -> Kind]
    /\ box \in [Worker -> Box]
    /\ busyAt \subseteq Id /\ runner \in [Worker -> Id]
    /\ serve \in {"down", "boot", "up"} /\ todo \subseteq Worker
    /\ snap \subseteq [w : Worker, state : WorkerState, ep : Id]
    /\ probe \subseteq [w : Worker, m : {"Recover", "SetError"}]
    /\ snap # {} \/ probe # {} => serve = "up"
    /\ stale \subseteq Worker /\ tainted \subseteq Worker
    /\ gen \in Id /\ launched \in Nat /\ boots \in Nat /\ faults \in Nat

IInv == Rows /\ Cmds /\ Others /\ Dispatches /\ Containers /\ Orphans /\ CacheFresh /\ Exclusion

-----------------------------------------------------------------------------
LEMMA Constants ==
    /\ Serve \in Process /\ Serve \notin Command /\ Command \subseteq Process
    /\ NoWorker \notin Worker /\ HasDocker \in BOOLEAN
    /\ Cardinality(Worker) \in Nat /\ Cardinality(Worker) <= MaxListeners
    /\ MaxListeners \in Nat /\ 0 \in Id /\ Id \subseteq Nat
<1>1. Cardinality(Worker) \in Nat
  BY FleetAssumption, FS_CardinalityType DEF FleetAssumption
<1>2. QED  BY <1>1, FleetAssumption DEF FleetAssumption, Id

(* What the entries are that the methods compute.                          *)
LEMMA Entries == /\ Absent \in Row /\ Fresh \in Row
                 /\ Fresh # Absent /\ Fresh.state = "offline" /\ Absent.state = "absent"
BY Constants DEF Row, Absent, Fresh, WorkerState

LEMMA Methods ==
    ASSUME NEW m \in DOMAIN From
    PROVE  To[m] \in WorkerState /\ From[m] \subseteq WorkerState
BY DEF From, To, WorkerState

LEMMA AfterType ==
    ASSUME NEW m \in DOMAIN From, NEW e \in Row, NEW id \in Id, NEW n \in Id
    PROVE  /\ After(m, e, id, n) \in Row
           /\ After(m, e, id, n).state = To[m] /\ To[m] \in WorkerState
<1>1. To[m] \in WorkerState /\ To[m] # "absent"
  BY Methods DEF WorkerState
<1>2. e.cid \in Id /\ e.ep \in Id
  BY DEF Row
<1>3. QED  BY <1>1, <1>2, Constants DEF After, Row

(* An accepted call writes the entry w, in the copy and, if there is one,   *)
(* in the row, and nothing else.                                           *)
Written(p, w, m) ==
    /\ Rows'
    /\ \A v \in Worker \ {w} : row'[v] = row[v] /\ cache'[p][v] = cache[p][v]
    /\ \A q \in Process \ {p} : cache'[q] = cache[q]
    /\ cache[p][w].state \in From[m] /\ cache'[p][w].state = To[m]
    /\ row'[w] = IF row[w] = Absent THEN Absent ELSE cache'[p][w]
    /\ cache[p][w] # Absent /\ cache'[p][w] # Absent

LEMMA CallWrites ==
    ASSUME Rows, NEW p \in Process, NEW w \in Worker, NEW m \in DOMAIN From,
           NEW id \in Id, NEW n \in Id, Call(p, w, m, id, n)
    PROVE  Written(p, w, m)
<1> DEFINE e == After(m, cache[p][w], id, n)
<1>1. cache[p][w] \in Row /\ cache[p][w].state \in From[m]
  BY DEF Rows, Call, Accepts
<1>2. e \in Row /\ e.state = To[m] /\ To[m] \in WorkerState
  BY <1>1, AfterType
<1>3. From[m] \subseteq WorkerState
  BY Methods
<1>4. cache[p][w] # Absent /\ e # Absent
  BY <1>1, <1>2, <1>3 DEF Absent, WorkerState
<1> HIDE DEF e
<1>5. /\ row' = IF row[w] = Absent THEN row ELSE [row EXCEPT ![w] = e]
      /\ cache' = [cache EXCEPT ![p][w] = e]
  BY DEF Call, Mutate, e
<1>6. Rows'
  BY <1>2, <1>5 DEF Rows
<1>7. QED  BY <1>1, <1>2, <1>4, <1>5, <1>6 DEF Written, Rows

LEMMA PersistWrites ==
    ASSUME Rows, NEW p \in Process, NEW w \in Worker, Add(p, w) \/ Remove(p, w)
    PROVE  Rows' /\ \A q \in Process \ {p} : cache'[q] = cache[q]
BY Entries, SMTT(30) DEF Rows, Add, Remove, Persist

LEMMA LoadReads ==
    ASSUME Rows, NEW p \in Process, Load(p)
    PROVE  /\ Rows' /\ row' = row /\ cache'[p] = row
           /\ \A q \in Process \ {p} : cache'[q] = cache[q]
BY DEF Rows, Load

-----------------------------------------------------------------------------
(* What a step of a command does to what it shares with the others.        *)
CommandEffect ==
    /\ Rows' /\ Cmds'
    /\ cache'[Serve] = cache[Serve]
    /\ box' \in [Worker -> Box] /\ gen' \in Id /\ gen <= gen' /\ faults' \in Nat
    /\ \A w \in Worker : (row[w] = Absent) # (row'[w] = Absent) => cmd' # cmd

LEMMA GotoType ==
    ASSUME Cmds, NEW c \in Command, cmd[c].pc # "off", NEW l, Goto(c, l),
           l \in {"off", "get", "insert", "delete", "probe", "wipe", "create", "boot",
                  "health", "halt", "raze"} \cup DOMAIN Method
    PROVE  Cmds'
<1>1. CASE l = "off"
  BY <1>1, Constants DEF Cmds, Goto, CommandState, Off
<1>2. CASE l # "off"
  BY <1>2 DEF Cmds, Goto, CommandState
<1>3. QED  BY <1>1, <1>2

(* A step that leaves the table alone and only moves on.                   *)
LEMMA Quiet ==
    ASSUME IInv, NEW c \in Command, Cmds', UNCHANGED registryVars,
           box' \in [Worker -> Box], gen' \in Id, gen <= gen', faults' \in Nat
    PROVE  CommandEffect
BY DEF IInv, CommandEffect, Rows, registryVars

LEMMA FaultCounts == ASSUME IInv, Fault PROVE faults' \in Nat
BY DEF IInv, Others, Fault

LEMMA GenType == ASSUME IInv PROVE gen \in Id /\ gen \in Nat /\ gen <= gen
BY Constants DEF IInv, Others

LEMMA LaunchEffect ==
    ASSUME IInv, NEW c \in Command, Launch(c) PROVE CommandEffect
<1>1. c \in Process /\ c # Serve
  BY Constants
<1>2. Rows' /\ row' = row /\ cache'[Serve] = cache[Serve]
  BY <1>1, LoadReads, Constants DEF IInv, Launch
<1>3. Cmds'
  <2>1. PICK op \in {"add", "start", "stop", "remove"}, ws \in SUBSET Worker \ {{}} :
            cmd' = [cmd EXCEPT ![c] = [pc |-> "get", op |-> op, ws |-> ws, id |-> 0]]
    BY DEF Launch
  <2>2. [pc |-> "get", op |-> op, ws |-> ws, id |-> 0] \in CommandState
    BY Constants DEF CommandState
  <2>3. QED  BY <2>1, <2>2 DEF IInv, Cmds
<1>4. box' \in [Worker -> Box] /\ gen' = gen /\ faults' \in Nat
  BY DEF Launch, IInv, Others, dockerVars
<1>5. QED  BY <1>2, <1>3, <1>4, GenType DEF CommandEffect

LEMMA GetEntryEffect ==
    ASSUME IInv, NEW c \in Command, NEW w \in cmd[c].ws, GetEntry(c, w) PROVE CommandEffect
<1>1. cmd[c].op \in {"start", "stop", "remove"} /\ cmd[c].pc = "get"
  BY DEF GetEntry, IInv, Cmds, CommandState
<1>2. FirstStep(c, w) \in {"off", "wipe", "begin", "halt", "stop", "raze", "delete"}
  BY <1>1 DEF FirstStep
<1>3. Cmds'
  BY <1>1, <1>2, GotoType DEF GetEntry, Method, IInv
<1>4. QED  BY <1>3, Quiet, GenType DEF GetEntry, dockerVars, IInv, Others

LEMMA CheckBatchEffect ==
    ASSUME IInv, NEW c \in Command, CheckBatch(c) PROVE CommandEffect
<1>1. Cmds'
  BY GotoType DEF CheckBatch, IInv
<1>2. QED  BY <1>1, Quiet, GenType DEF CheckBatch, dockerVars, IInv, Others

LEMMA ProbeEffect ==
    ASSUME IInv, NEW c \in Command, ProbeUnmanaged(c) PROVE CommandEffect
<1>1. Cmds'
  BY GotoType DEF ProbeUnmanaged, IInv, Method
<1>2. QED  BY <1>1, Quiet, GenType DEF ProbeUnmanaged, dockerVars, IInv, Others

LEMMA InterruptEffect ==
    ASSUME IInv, NEW c \in Command, Interrupt(c) PROVE CommandEffect
<1>1. Cmds'
  BY Constants DEF Interrupt, Goto, IInv, Cmds, CommandState, Off
<1>2. QED  BY <1>1, Quiet, GenType, FaultCounts DEF Interrupt, dockerVars, IInv, Others

LEMMA InsertEffect ==
    ASSUME IInv, NEW c \in Command, NEW w \in cmd[c].ws, Insert(c, w) PROVE CommandEffect
<1>1. cmd[c].pc = "insert" /\ w \in Worker /\ c \in Process /\ c # Serve
  BY Constants DEF Insert, IInv, Cmds, CommandState
<1>2. box' \in [Worker -> Box] /\ gen' = gen
  BY DEF Insert, dockerVars, IInv, Others
<1>3. CASE /\ Add(c, w)
           /\ cmd' = [cmd EXCEPT ![c] = IF @.ws = {w} THEN Off
                                            ELSE [@ EXCEPT !.ws = cmd[c].ws \ {w}]]
           /\ UNCHANGED faults
  <2>1. Rows' /\ cache'[Serve] = cache[Serve]
    BY <1>1, <1>3, PersistWrites, Constants DEF IInv
  <2>2. Cmds' /\ cmd' # cmd
    <3>1. CASE cmd[c].ws = {w}
      BY <1>1, <1>3, <3>1, Constants DEF IInv, Cmds, CommandState, Off
    <3>2. CASE cmd[c].ws # {w}
      <4>1. cmd' = [cmd EXCEPT ![c] = [cmd[c] EXCEPT !.ws = cmd[c].ws \ {w}]]
        BY <1>3, <3>2 DEF IInv, Cmds, CommandState
      <4>2. [cmd[c] EXCEPT !.ws = cmd[c].ws \ {w}] \in CommandState
        BY DEF IInv, Cmds, CommandState
      <4>3. cmd'[c].ws # cmd[c].ws
        BY <4>1 DEF IInv, Cmds, CommandState
      <4>4. QED  BY <1>1, <4>1, <4>2, <4>3 DEF IInv, Cmds, CommandState
    <3>3. QED  BY <3>1, <3>2
  <2>3. QED  BY <1>2, <1>3, <2>1, <2>2, GenType DEF CommandEffect, IInv, Others
<1>4. CASE Fault /\ Goto(c, "off") /\ UNCHANGED registryVars
  BY <1>1, <1>2, <1>4, GotoType, FaultCounts, GenType, Quiet DEF IInv
<1>5. QED  BY <1>3, <1>4 DEF Insert

LEMMA DeleteEffect ==
    ASSUME IInv, NEW c \in Command, NEW w \in cmd[c].ws, Delete(c, w) PROVE CommandEffect
<1>1. cmd[c].pc = "delete" /\ w \in Worker /\ c \in Process /\ c # Serve
  BY Constants DEF Delete, IInv, Cmds, CommandState
<1>2. box' \in [Worker -> Box] /\ gen' = gen /\ Cmds'
  BY <1>1, GotoType DEF Delete, dockerVars, IInv, Others
<1>3. CASE Remove(c, w) /\ UNCHANGED faults
  <2>1. Rows' /\ cache'[Serve] = cache[Serve]
    BY <1>1, <1>3, PersistWrites, Constants DEF IInv
  <2>2. cmd' # cmd
    BY <1>1 DEF Delete, Goto, Off, IInv, Cmds
  <2>3. QED  BY <1>2, <1>3, <2>1, <2>2, GenType DEF CommandEffect, IInv, Others
<1>4. CASE UNCHANGED registryVars /\ faults' \in Nat
  BY <1>2, <1>4, GenType, Quiet
<1>5. QED  BY <1>3, <1>4, FaultCounts DEF Delete, IInv, Others

LEMMA CallMethodEffect ==
    ASSUME IInv, NEW c \in Command, NEW w \in cmd[c].ws, CallMethod(c, w) PROVE CommandEffect
<1> DEFINE m == Method[cmd[c].pc]
<1>1. /\ cmd[c].pc \in DOMAIN Method /\ cmd[c].pc # "off"
      /\ w \in Worker /\ c \in Process /\ c # Serve /\ cmd[c].id \in Id
  BY Constants DEF CallMethod, Method, IInv, Cmds, CommandState
<1>2. m \in DOMAIN From
  BY <1>1 DEF Method, From
<1>3. box' \in [Worker -> Box] /\ gen' = gen
  BY DEF CallMethod, dockerVars, IInv, Others
<1>4. Next1(c, w) \in {"probe", "delete", "off"}
  BY DEF Next1
<1>5. CASE Call(c, w, m, cmd[c].id, cmd[c].id) /\ Goto(c, Next1(c, w)) /\ UNCHANGED faults
  <2>1. Written(c, w, m)
    BY <1>1, <1>2, <1>5, CallWrites DEF IInv
  <2>2. Cmds'
    BY <1>1, <1>4, <1>5, GotoType DEF IInv
  <2>3. \A v \in Worker : (row[v] = Absent) <=> (row'[v] = Absent)
    BY <2>1 DEF Written
  <2>4. QED
    BY <1>1, <1>3, <1>5, <2>1, <2>2, <2>3, GenType, Constants
       DEF Written, CommandEffect, IInv, Others
<1>6. CASE /\ Goto(c, "off") /\ UNCHANGED registryVars
           /\ Fault \/ UNCHANGED faults
  <2>1. Cmds'
    BY <1>1, <1>6, GotoType DEF IInv
  <2>2. faults' \in Nat
    BY <1>6, FaultCounts DEF IInv, Others
  <2>3. QED  BY <1>3, <1>6, <2>1, <2>2, GenType, Quiet
<1>7. QED  BY <1>5, <1>6 DEF CallMethod

LEMMA NoBoxType == NoBox \in Box
BY Constants DEF NoBox, Box

LEMMA Listener == ASSUME IInv, NewListener PROVE gen' \in Id /\ gen' = gen + 1 /\ gen <= gen'
BY Constants DEF IInv, Others, NewListener, Id

LEMMA WipeEffect ==
    ASSUME IInv, NEW c \in Command, NEW w \in cmd[c].ws, Wipe(c, w) PROVE CommandEffect
<1>1. Cmds'
  BY GotoType DEF Wipe, IInv
<1>2. box' \in [Worker -> Box] /\ faults' \in Nat
  BY NoBoxType, FaultCounts DEF Wipe, IInv, Others
<1>3. QED  BY <1>1, <1>2, Quiet, GenType DEF Wipe

LEMMA CreateEffect ==
    ASSUME IInv, NEW c \in Command, NEW w \in cmd[c].ws, Create(c, w) PROVE CommandEffect
<1>1. cmd[c].pc = "create"
  BY DEF Create
<1>2. CASE /\ NewListener /\ box' = [box EXCEPT ![w] = [id |-> gen', st |-> "created"]]
           /\ cmd' = [cmd EXCEPT ![c].pc = "boot", ![c].id = gen']
           /\ UNCHANGED faults
  <2>1. box' \in [Worker -> Box]
    BY <1>2, Listener DEF IInv, Others, Box
  <2>2. Cmds'
    <3>1. cmd' = [cmd EXCEPT ![c] = [cmd[c] EXCEPT !.pc = "boot", !.id = gen']]
      BY <1>2 DEF IInv, Cmds, CommandState
    <3>2. [cmd[c] EXCEPT !.pc = "boot", !.id = gen'] \in CommandState
      BY <1>2, Listener DEF IInv, Cmds, CommandState
    <3>3. cmd[c].op # "none"
      BY <1>1 DEF IInv, Cmds
    <3>4. QED  BY <3>1, <3>2, <3>3 DEF IInv, Cmds, CommandState
  <2>3. QED  BY <1>2, <2>1, <2>2, Listener, Quiet DEF Create, IInv, Others
<1>3. CASE Goto(c, "blame") /\ UNCHANGED dockerVars /\ faults' \in Nat
  <2>1. Cmds'
    BY <1>1, <1>3, GotoType DEF IInv, Method
  <2>2. QED  BY <1>3, <2>1, Quiet, GenType DEF Create, dockerVars, IInv, Others
<1>4. QED  BY <1>2, <1>3, FaultCounts DEF Create, IInv, Others

(* The containers a step of Docker may leave. *)
LEMMA Boxes ==
    ASSUME IInv, NEW w \in Worker
    PROVE  /\ box \in [Worker -> Box] /\ [box EXCEPT ![w] = NoBox] \in [Worker -> Box]
           /\ [box EXCEPT ![w].st = "exited"] \in [Worker -> Box]
           /\ [box EXCEPT ![w].st = "running"] \in [Worker -> Box]
BY NoBoxType DEF IInv, Others, Box

LEMMA CommandWorkers == ASSUME IInv, NEW c \in Command PROVE cmd[c].ws \subseteq Worker
BY DEF IInv, Cmds, CommandState

LEMMA StartBoxEffect ==
    ASSUME IInv, NEW c \in Command, NEW w \in cmd[c].ws, StartBox(c, w) PROVE CommandEffect
<1>1. Cmds'
  BY GotoType DEF StartBox, IInv, Method
<1>2. box' \in [Worker -> Box]
  BY Boxes, CommandWorkers, ZenonT(40) DEF StartBox
<1>3. faults' \in Nat
  BY FaultCounts DEF StartBox, IInv, Others
<1>4. QED  BY <1>1, <1>2, <1>3, Quiet, GenType DEF StartBox

LEMMA AwaitHealthEffect ==
    ASSUME IInv, NEW c \in Command, NEW w \in cmd[c].ws, AwaitHealth(c, w) PROVE CommandEffect
<1>1. Cmds'
  BY GotoType DEF AwaitHealth, IInv, Method
<1>2. box' \in [Worker -> Box]
  BY Boxes, CommandWorkers, ZenonT(40) DEF AwaitHealth
<1>3. faults' \in Nat
  BY FaultCounts DEF AwaitHealth, IInv, Others
<1>4. QED  BY <1>1, <1>2, <1>3, Quiet, GenType DEF AwaitHealth

LEMMA HaltEffect ==
    ASSUME IInv, NEW c \in Command, NEW w \in cmd[c].ws, Halt(c, w) PROVE CommandEffect
<1>1. Cmds'
  BY GotoType DEF Halt, IInv, Method
<1>2. box' \in [Worker -> Box]
  <2>1. box' = box \/ box' = [box EXCEPT ![w].st = "exited"]
    BY ZenonT(40) DEF Halt
  <2>2. w \in Worker
    BY CommandWorkers
  <2>3. QED  BY <2>1, <2>2, Boxes, ZenonT(40)
<1>3. faults' \in Nat
  BY FaultCounts DEF Halt, IInv, Others
<1>4. QED  BY <1>1, <1>2, <1>3, Quiet, GenType DEF Halt

LEMMA RazeEffect ==
    ASSUME IInv, NEW c \in Command, NEW w \in cmd[c].ws, Raze(c, w) PROVE CommandEffect
<1>1. Cmds'
  BY GotoType DEF Raze, IInv, Method
<1>2. box' \in [Worker -> Box]
  <2>1. box' = box \/ box' = [box EXCEPT ![w] = NoBox]
    BY DEF Raze
  <2>2. QED  BY <2>1, Boxes, CommandWorkers
<1>3. faults' \in Nat
  BY FaultCounts DEF Raze, IInv, Others
<1>4. QED  BY <1>1, <1>2, <1>3, Quiet, GenType DEF Raze

LEMMA CommandSteps == ASSUME IInv, CommandNext PROVE CommandEffect /\ launched' \in Nat
<1>1. PICK c \in Command :
          \/ Launch(c)
          \/ /\ \/ CheckBatch(c) \/ ProbeUnmanaged(c) \/ Interrupt(c)
                \/ \E w \in cmd[c].ws : WorkerStep(c, w)
             /\ UNCHANGED launched
  BY DEF CommandNext
<1>2. launched' \in Nat
  BY <1>1 DEF Launch, IInv, Others
<1>3. CASE \E w \in cmd[c].ws : WorkerStep(c, w)
  BY <1>1, <1>2, <1>3, GetEntryEffect, InsertEffect, DeleteEffect, CallMethodEffect, WipeEffect,
     CreateEffect, StartBoxEffect, AwaitHealthEffect, HaltEffect, RazeEffect DEF WorkerStep
<1>4. CASE Launch(c) \/ CheckBatch(c) \/ ProbeUnmanaged(c) \/ Interrupt(c)
  BY <1>1, <1>2, <1>4, LaunchEffect, CheckBatchEffect, ProbeEffect, InterruptEffect
<1>5. QED  BY <1>1, <1>2, <1>3, <1>4

(* CommandNext itself marks what it has written. *)
LEMMA CommandPreserves == ASSUME IInv, CommandNext PROVE IInv'
<1> USE CommandSteps
<1>1. /\ UNCHANGED <<kind, tempVars, bootVars, reconcileVars, jobVars>>
      /\ stale' = stale \cup Overwritten /\ tainted' = tainted \cup {w \in Overwritten : Held(w)}
  BY DEF CommandNext
<1>2. Rows' /\ Cmds'
  BY DEF CommandEffect
<1>3. Others'
  BY <1>1 DEF CommandEffect, IInv, Others, bootVars, reconcileVars, jobVars, Overwritten
<1>4. Dispatches'
  BY <1>1 DEF IInv, Dispatches, bootVars, jobVars
<1>5. Containers'
  <2>1. gen \in Nat /\ gen' \in Nat /\ gen <= gen'
    BY Constants DEF CommandEffect, IInv, Others
  <2>2. 1..gen \subseteq 1..gen'
    BY <2>1
  <2>3. QED
    BY <1>1, <2>2 DEF IInv, Containers, Owns, tempVars, jobVars
<1>6. Orphans'
  BY <1>1 DEF IInv, Orphans, Owns, tempVars, jobVars, bootVars
<1>7. CacheFresh'
  BY <1>1 DEF CommandEffect, IInv, CacheFresh, Overwritten, bootVars
<1>8. Exclusion'
  BY <1>1 DEF CommandEffect, IInv, Exclusion, BusyExcludes, Held, Holds, Overwritten, jobVars
<1>9. QED  BY <1>2, <1>3, <1>4, <1>5, <1>6, <1>7, <1>8 DEF IInv

-----------------------------------------------------------------------------
(* Steps of the server.                                                    *)
RowsKept == \A w \in Worker : (row[w] = Absent) <=> (row'[w] = Absent)

(* A method of the server on one entry keeps its copy as fresh as it was.  *)
LEMMA ServerWrites ==
    ASSUME IInv, serve # "down", serve' = serve, stale' = stale,
           NEW w \in Worker, NEW m, Written(Serve, w, m)
    PROVE  Rows' /\ CacheFresh' /\ RowsKept
<1>1. CASE row[w] = Absent
  <2>1. w \in stale
    BY <1>1 DEF IInv, CacheFresh, Written
  <2>2. QED  BY <1>1, <2>1 DEF IInv, CacheFresh, Written, RowsKept
<1>2. CASE row[w] # Absent
  BY <1>2 DEF IInv, CacheFresh, Written, RowsKept
<1>3. QED  BY <1>1, <1>2

LEMMA TableUntouched ==
    ASSUME IInv, UNCHANGED registryVars, UNCHANGED <<serve, stale>>
    PROVE  Rows' /\ CacheFresh' /\ RowsKept
BY DEF IInv, Rows, CacheFresh, RowsKept, registryVars

LEMMA NobodyHolds == ASSUME Dispatches', serve' # "up" PROVE Exclusion' /\ Orphans'
<1>1. \A j \in Job : pc'[j] = "idle"
  BY DEF Dispatches
<1>2. QED  BY <1>1 DEF Exclusion, BusyExcludes, Holds, Orphans

LEMMA BootPreserves ==
    ASSUME IInv, Boot,
           UNCHANGED <<kind, cmd, launched, reconcileVars, jobVars, tainted>>, stale' = {}
    PROVE  IInv' /\ RowsKept
<1>1. /\ serve = "down" /\ serve' = "boot" /\ boots' = boots + 1 /\ todo' \subseteq Worker
      /\ UNCHANGED <<dockerVars, tempVars, runner, faults>>
  BY DEF Boot
<1>2. Rows' /\ row' = row /\ cache'[Serve] = row
  BY LoadReads, Constants DEF Boot, IInv
<1>3. Cmds' /\ Others'
  BY <1>1 DEF IInv, Cmds, Others, dockerVars, reconcileVars, jobVars
<1>4. Dispatches' /\ Containers'
  BY <1>1 DEF IInv, Dispatches, Containers, Owns, jobVars, tempVars, dockerVars
<1>5. CacheFresh' /\ RowsKept
  BY <1>2 DEF CacheFresh, RowsKept
<1>6. QED  BY <1>1, <1>2, <1>3, <1>4, <1>5, NobodyHolds DEF IInv

LEMMA AdapterStartPreserves ==
    ASSUME IInv, NEW w \in Worker, AdapterStart(w),
           UNCHANGED <<kind, cmd, launched, reconcileVars, jobVars, tainted, stale>>
    PROVE  IInv' /\ RowsKept
<1>1. /\ serve = "boot" /\ serve' = "boot" /\ todo' \subseteq todo
      /\ UNCHANGED <<boots, box, tempVars>>
  BY DEF AdapterStart
<1>2. /\ gen \in Nat /\ gen' \in Nat /\ gen' \in Id /\ gen <= gen'
      /\ runner' \in [Worker -> Id] /\ faults' \in Nat
  BY Listener, GenType, FaultCounts, Constants DEF AdapterStart, IInv, Others
<1>3. \/ Call(Serve, w, "SetRuntime", 0, gen') \/ Call(Serve, w, "SetError", 0, 0)
      \/ UNCHANGED registryVars
  BY DEF AdapterStart
<1>4. Rows' /\ CacheFresh' /\ RowsKept
  <2>1. CASE Call(Serve, w, "SetRuntime", 0, gen') \/ Call(Serve, w, "SetError", 0, 0)
    <3>1. "SetRuntime" \in DOMAIN From /\ "SetError" \in DOMAIN From
      BY DEF From
    <3>2. \E m \in DOMAIN From : Written(Serve, w, m)
      BY <1>2, <2>1, <3>1, CallWrites, Constants DEF IInv
    <3>3. QED  BY <1>1, <3>2, ServerWrites
  <2>2. CASE UNCHANGED registryVars
    BY <1>1, <2>2, TableUntouched
  <2>3. QED  BY <1>3, <2>1, <2>2
<1>5. Cmds' /\ Others'
  BY <1>1, <1>2 DEF IInv, Cmds, Others, reconcileVars, jobVars
<1>6. Dispatches'
  BY <1>1 DEF IInv, Dispatches, jobVars
<1>7. Containers'
  <2>1. 1..gen \subseteq 1..gen'
    BY <1>2
  <2>2. QED  BY <1>1, <2>1 DEF IInv, Containers, Owns, jobVars, tempVars
<1>8. QED  BY <1>1, <1>4, <1>5, <1>6, <1>7, NobodyHolds DEF IInv

LEMMA UpPreserves ==
    ASSUME IInv, Up, UNCHANGED <<kind, cmd, launched, reconcileVars, jobVars, tainted, stale>>
    PROVE  IInv' /\ RowsKept
<1>1. /\ serve = "boot" /\ serve' = "up"
      /\ UNCHANGED <<registryVars, todo, boots, dockerVars, runner>>
      /\ \A j \in Job : pc[j] = "idle" /\ pc'[j] = "idle"
  BY DEF Up, IInv, Dispatches, jobVars
<1>2. /\ temps' \subseteq temps /\ leaked' \subseteq temps' /\ unseen' \subseteq temps'
      /\ faults' \in Nat
      /\ HasDocker => temps' \subseteq leaked' \cup unseen'
  BY FaultCounts DEF Up, CleanupOrphanDisposables, Swept, IInv, Containers, Others, tempVars
<1>3. Rows' /\ CacheFresh' /\ RowsKept
  BY <1>1 DEF IInv, Rows, CacheFresh, RowsKept, registryVars
<1>4. Cmds' /\ Others'
  BY <1>1, <1>2 DEF IInv, Cmds, Others, dockerVars, reconcileVars, jobVars
<1>5. Dispatches' /\ Containers'
  BY <1>1, <1>2 DEF IInv, Dispatches, Containers, Owns, jobVars, dockerVars
<1>6. Orphans' /\ Exclusion'
  BY <1>1, <1>2 DEF Orphans, Exclusion, BusyExcludes, Holds
<1>7. QED  BY <1>3, <1>4, <1>5, <1>6 DEF IInv

LEMMA BootNextPreserves == ASSUME IInv, BootNext PROVE IInv' /\ RowsKept
<1>1. /\ UNCHANGED <<kind, cmd, launched, reconcileVars, jobVars, tainted>>
      /\ stale' = IF serve = "down" THEN {} ELSE stale
  BY DEF BootNext
<1>2. CASE Boot
  BY <1>1, <1>2, BootPreserves DEF Boot
<1>3. CASE Up
  BY <1>1, <1>3, UpPreserves DEF Up
<1>4. CASE \E w \in Worker : AdapterStart(w)
  BY <1>1, <1>4, AdapterStartPreserves DEF AdapterStart
<1>5. QED  BY <1>2, <1>3, <1>4 DEF BootNext

LEMMA ExitPreserves == ASSUME IInv, Exit PROVE IInv' /\ RowsKept
<1>1. Rows' /\ CacheFresh' /\ RowsKept /\ Cmds'
  BY DEF Exit, IInv, Rows, CacheFresh, RowsKept, registryVars, Cmds
<1>2. Others'
  BY Constants DEF Exit, IInv, Others, dockerVars
<1>3. Dispatches'
  BY Constants DEF Exit, IInv, Dispatches
<1>4. Containers'
  BY DEF Exit, IInv, Containers, Owns, tempVars, dockerVars
<1>5. serve' # "up"
  BY DEF Exit
<1>6. QED  BY <1>1, <1>2, <1>3, <1>4, <1>5, NobodyHolds DEF IInv

LEMMA ReloadPreserves == ASSUME IInv, Reload PROVE IInv' /\ RowsKept
<1>1. Rows' /\ row' = row /\ cache'[Serve] = row
  BY LoadReads, Constants DEF Reload, IInv
<1>2. CacheFresh' /\ RowsKept
  BY <1>1 DEF CacheFresh, RowsKept
<1>3. Cmds' /\ Others'
  BY DEF Reload, IInv, Cmds, Others, dockerVars, bootVars, reconcileVars, jobVars
<1>4. Dispatches' /\ Containers' /\ Orphans'
  BY DEF Reload, IInv, Dispatches, Containers, Orphans, Owns, jobVars, tempVars, bootVars,
         dockerVars
<1>5. Exclusion'
  BY <1>1 DEF Reload, IInv, Exclusion, BusyExcludes, Holds, jobVars
<1>6. QED  BY <1>1, <1>2, <1>3, <1>4, <1>5 DEF IInv

-----------------------------------------------------------------------------
LEMMA ListType ==
    ASSUME IInv, List PROVE snap' \subseteq [w : Worker, state : WorkerState, ep : Id]
<1> SUFFICES ASSUME NEW v \in Worker, cache[Serve][v].cid # 0
             PROVE  [w |-> v, state |-> cache[Serve][v].state, ep |-> cache[Serve][v].ep]
                        \in [w : Worker, state : WorkerState, ep : Id]
  BY DEF List
<1>1. cache[Serve][v] \in Row
  BY Constants DEF IInv, Rows
<1>2. cache[Serve][v].state \in WorkerState /\ cache[Serve][v].ep \in Id
  BY <1>1 DEF Row, Absent
<1>3. QED  BY <1>2

LEMMA JudgeEffect ==
    ASSUME IInv, NEW p \in probe, Judge(p), serve' = serve, stale' = stale
    PROVE  /\ Rows' /\ CacheFresh' /\ RowsKept /\ faults' \in Nat
           /\ tainted \subseteq tainted' /\ tainted' \subseteq Worker
           /\ \A w \in Worker : \/ row'[w] = row[w] /\ cache'[Serve][w] = cache[Serve][w]
                                \/ Held(w) => w \in tainted'
<1>1. p.w \in Worker /\ p.m \in {"Recover", "SetError"} /\ p.m \in DOMAIN From
  BY DEF IInv, Others, From
<1>2. CASE /\ Call(Serve, p.w, p.m, 0, 0)
           /\ tainted' = IF Held(p.w) THEN tainted \cup {p.w} ELSE tainted
           /\ UNCHANGED faults
  <2>1. Written(Serve, p.w, p.m)
    BY <1>1, <1>2, CallWrites, Constants DEF IInv
  <2>2. serve # "down"
    BY DEF IInv, Others
  <2>3. Rows' /\ CacheFresh' /\ RowsKept
    BY <1>1, <2>1, <2>2, ServerWrites
  <2>4. QED  BY <1>1, <1>2, <2>1, <2>3 DEF Written, IInv, Others
<1>3. CASE UNCHANGED <<registryVars, tainted>> /\ (Fault \/ UNCHANGED faults)
  BY <1>3, TableUntouched, FaultCounts DEF IInv, Others, registryVars
<1>4. QED  BY <1>2, <1>3 DEF Judge

LEMMA ReconcilePreserves == ASSUME IInv, ReconcileNext PROVE IInv' /\ RowsKept
<1>1. UNCHANGED <<kind, cmd, launched, dockerVars, tempVars, bootVars, jobVars, stale>>
  BY DEF ReconcileNext
<1>2. Dispatches' /\ Containers' /\ Orphans' /\ Cmds'
  BY <1>1 DEF IInv, Dispatches, Containers, Orphans, Cmds, Owns, jobVars, tempVars, bootVars,
              dockerVars
<1>3. CASE List \/ \E e \in snap : Check(e)
  <2>1. UNCHANGED <<registryVars, tainted>>
    BY <1>3 DEF List, Check
  <2>2. /\ snap' \subseteq [w : Worker, state : WorkerState, ep : Id]
        /\ probe' \subseteq [w : Worker, m : {"Recover", "SetError"}]
        /\ serve = "up" /\ faults' \in Nat
    <3>1. CASE List
      BY <3>1, ListType DEF List, IInv, Others
    <3>2. CASE \E e \in snap : Check(e)
      BY <3>2, FaultCounts DEF Check, IInv, Others
    <3>3. QED  BY <1>3, <3>1, <3>2
  <2>3. Others'
    BY <1>1, <2>1, <2>2 DEF IInv, Others, bootVars, dockerVars, jobVars
  <2>4. Exclusion'
    BY <1>1, <2>1 DEF IInv, Exclusion, BusyExcludes, Holds, jobVars, registryVars
  <2>5. QED  BY <1>1, <1>2, <2>1, <2>3, <2>4, TableUntouched DEF IInv, bootVars
<1>4. ASSUME NEW p \in probe, Judge(p) PROVE IInv' /\ RowsKept
  <2>1. /\ Rows' /\ CacheFresh' /\ RowsKept /\ faults' \in Nat
        /\ tainted \subseteq tainted' /\ tainted' \subseteq Worker
        /\ \A w \in Worker : \/ row'[w] = row[w] /\ cache'[Serve][w] = cache[Serve][w]
                             \/ Held(w) => w \in tainted'
    BY <1>1, <1>4, JudgeEffect DEF bootVars
  <2>2. Others'
    BY <1>1, <1>4, <2>1 DEF Judge, IInv, Others, bootVars, dockerVars, jobVars
  <2>3. Exclusion'
    BY <1>1, <2>1 DEF IInv, Exclusion, BusyExcludes, Held, Holds, jobVars
  <2>4. QED  BY <1>2, <2>1, <2>2, <2>3 DEF IInv
<1>5. QED  BY <1>3, <1>4 DEF ReconcileNext

-----------------------------------------------------------------------------
(* Steps of a dispatch.                                                    *)
JobFrame == /\ serve = "up"
            /\ UNCHANGED <<kind, cmd, launched, box, bootVars, reconcileVars, stale>>

(* One dispatch moves, and is well-formed where it goes.                   *)
Moves(j) ==
    /\ pc' = [pc EXCEPT ![j] = pc'[j]] /\ on' = [on EXCEPT ![j] = on'[j]]
    /\ at' = [at EXCEPT ![j] = at'[j]]
    /\ pc'[j] \in {"idle", "make", "claim", "send", "work", "ok", "lost", "clean"}
    /\ on'[j] \in Worker \cup {NoWorker} /\ at'[j] \in Id
    /\ pc'[j] = "idle" <=> on'[j] = NoWorker
    /\ pc'[j] \in {"make", "clean"} => kind[on'[j]] = "disposable"
    /\ pc'[j] = "claim" => kind[on'[j]] # "disposable"

LEMMA MovesTyped == ASSUME IInv, JobFrame, NEW j \in Job, Moves(j) PROVE Dispatches'
<1>1. serve' = "up" /\ kind' = kind
  BY DEF JobFrame, bootVars
<1>2. pc' \in [Job -> {"idle", "make", "claim", "send", "work", "ok", "lost", "clean"}]
  BY DEF IInv, Dispatches, Moves
<1>3. on' \in [Job -> Worker \cup {NoWorker}] /\ at' \in [Job -> Id]
  BY DEF IInv, Dispatches, Moves
<1>4. \A i \in Job : i # j => pc'[i] = pc[i] /\ on'[i] = on[i]
  BY DEF IInv, Dispatches, Moves
<1>5. QED  BY <1>1, <1>2, <1>3, <1>4 DEF IInv, Dispatches, Moves

LEMMA OthersOfJobs ==
    ASSUME IInv, JobFrame, busyAt' \subseteq Id, faults' \in Nat, gen' \in Id,
           tainted' \subseteq Worker
    PROVE  Others' /\ Cmds'
BY DEF IInv, JobFrame, Others, Cmds, bootVars, reconcileVars

(* A step that neither takes nor gives anything. *)
LEMMA LocalStep ==
    ASSUME IInv, JobFrame, UNCHANGED <<registryVars, tempVars, gen, tainted>>,
           busyAt' \subseteq Id, faults' \in Nat, NEW j \in Job, Moves(j),
           \A w \in Worker : Holds(j, w)' <=> Holds(j, w),
           Owns(j)' <=> Owns(j), Owns(j) => at'[j] = at[j]
    PROVE  IInv' /\ RowsKept
<1>1. serve' = serve /\ kind' = kind /\ stale' = stale
  BY DEF JobFrame, bootVars
<1>2. \A i \in Job : i # j => pc'[i] = pc[i] /\ on'[i] = on[i] /\ at'[i] = at[i]
  BY DEF IInv, Dispatches, Moves
<1>3. \A i \in Job : /\ \A w \in Worker : Holds(i, w)' <=> Holds(i, w)
                     /\ Owns(i)' <=> Owns(i)
                     /\ Owns(i) => at'[i] = at[i]
  BY <1>1, <1>2 DEF Holds, Owns
<1>4. Others' /\ Cmds'
  BY OthersOfJobs DEF IInv, Others
<1>5. Containers' /\ Orphans'
  BY <1>1, <1>3 DEF IInv, Containers, Orphans, tempVars
<1>6. Exclusion'
  BY <1>3 DEF IInv, Exclusion, BusyExcludes, registryVars
<1>7. QED  BY <1>1, <1>4, <1>5, <1>6, MovesTyped, TableUntouched DEF IInv

LEMMA EndpointType == ASSUME IInv, NEW w \in Worker PROVE cache[Serve][w].ep \in Id
BY Constants DEF IInv, Rows, Row

LEMMA PickPreserves ==
    ASSUME IInv, JobFrame, NEW j \in Job, NEW w \in Worker, Pick(j, w)
    PROVE  IInv' /\ RowsKept
<1>1. /\ pc[j] = "idle" /\ on' = [on EXCEPT ![j] = w]
      /\ \/ kind[w] = "disposable" /\ pc' = [pc EXCEPT ![j] = "make"] /\ UNCHANGED at
         \/ /\ kind[w] # "disposable" /\ pc' = [pc EXCEPT ![j] = "claim"]
            /\ at' = [at EXCEPT ![j] = cache[Serve][w].ep]
      /\ UNCHANGED <<registryVars, tempVars, gen, busyAt, tainted, faults>>
  BY DEF Pick
<1>2. Moves(j)
  BY <1>1, EndpointType, Constants DEF IInv, Dispatches, Moves
<1>3. pc'[j] \in {"make", "claim"}
  BY <1>1 DEF IInv, Dispatches
<1>4. QED  BY <1>1, <1>2, <1>3, LocalStep DEF Holds, Owns, IInv, Others

LEMMA ArrivePreserves ==
    ASSUME IInv, JobFrame, NEW j \in Job, Arrive(j) \/ Yield(j)
    PROVE  IInv' /\ RowsKept
<1>1. /\ pc[j] = "send"
      /\ \E l \in {"work", "ok", "lost"} : pc' = [pc EXCEPT ![j] = l]
      /\ busyAt' \subseteq Id
      /\ UNCHANGED <<registryVars, tempVars, gen, on, at, tainted, faults>>
  BY DEF Arrive, Yield, IInv, Others, Dispatches
<1>2. pc'[j] \in {"work", "ok", "lost"} /\ Moves(j)
  BY <1>1 DEF IInv, Dispatches, Moves
<1>3. kind' = kind
  BY DEF JobFrame
<1>4. QED  BY <1>1, <1>2, <1>3, LocalStep DEF Holds, Owns, IInv, Others

LEMMA AnswerPreserves ==
    ASSUME IInv, JobFrame, NEW j \in Job, Answer(j) \/ GiveUp(j)
    PROVE  IInv' /\ RowsKept
<1>1. /\ pc[j] = "work"
      /\ \E l \in {"ok", "lost"} : pc' = [pc EXCEPT ![j] = l]
      /\ busyAt' \subseteq Id /\ faults' \in Nat
      /\ UNCHANGED <<registryVars, tempVars, gen, on, at, tainted>>
  BY FaultCounts DEF Answer, GiveUp, IInv, Others
<1>2. pc'[j] \in {"ok", "lost"} /\ Moves(j)
  BY <1>1 DEF IInv, Dispatches, Moves
<1>3. kind' = kind
  BY DEF JobFrame
<1>4. QED  BY <1>1, <1>2, <1>3, LocalStep DEF Holds, Owns, IInv, Others

LEMMA LeaveMoves == ASSUME IInv, NEW j \in Job, Leave(j)
                    PROVE  Moves(j) /\ pc'[j] = "idle" /\ ~Owns(j)' /\ \A w : ~Holds(j, w)'
<1>1. pc'[j] = "idle" /\ on'[j] = NoWorker /\ at'[j] = 0
  BY DEF Leave, IInv, Dispatches
<1>2. QED  BY <1>1, Constants DEF Leave, Moves, Owns, Holds, IInv, Dispatches

LEMMA ClaimPreserves ==
    ASSUME IInv, JobFrame, NEW j \in Job, Claim(j) PROVE IInv' /\ RowsKept
<1>1. /\ pc[j] = "claim" /\ UNCHANGED <<tempVars, gen, busyAt, tainted>>
      /\ faults' \in Nat
  BY FaultCounts DEF Claim, IInv, Others
<1>2. /\ ~Owns(j) /\ \A w \in Worker : ~Holds(j, w)
      /\ on[j] \in Worker /\ kind[on[j]] # "disposable"
  BY <1>1 DEF Owns, Holds, IInv, Dispatches
<1>3. CASE Leave(j) /\ UNCHANGED registryVars
  BY <1>1, <1>2, <1>3, LeaveMoves, LocalStep DEF IInv, Others
<1>4. CASE /\ Call(Serve, on[j], "SetBusy", 0, 0)
           /\ pc' = [pc EXCEPT ![j] = "send"] /\ UNCHANGED <<on, at>>
  <2> DEFINE w == on[j]
  <2>1. "SetBusy" \in DOMAIN From /\ From["SetBusy"] = {"online"} /\ To["SetBusy"] = "busy"
    BY DEF From, To
  <2>2. Written(Serve, w, "SetBusy")
    BY <1>2, <1>4, <2>1, CallWrites, Constants DEF IInv
  <2>3. Rows' /\ CacheFresh' /\ RowsKept
    BY <1>2, <2>2, ServerWrites DEF JobFrame, bootVars
  <2>4. Moves(j) /\ pc'[j] = "send"
    BY <1>1, <1>2, <1>4 DEF Moves, IInv, Dispatches
  <2>5. Dispatches' /\ Others' /\ Cmds'
    BY <1>1, <2>4, MovesTyped, OthersOfJobs DEF IInv, Others
  <2>6. \A i \in Job : Holds(i, w) => w \in tainted
    BY <1>2, <2>1, <2>2 DEF Written, IInv, Exclusion, Claimed
  <2>7. Claimed(cache'[Serve][w]) /\ Claimed(row'[w])
    BY <2>1, <2>2 DEF Written, Claimed, Absent
  <2>8. kind' = kind /\ \A i \in Job \ {j} : pc'[i] = pc[i] /\ on'[i] = on[i] /\ at'[i] = at[i]
    BY <1>4 DEF JobFrame, IInv, Dispatches
  <2>9. Exclusion'
    <3>1. \A i \in Job, v \in Worker : Holds(i, v)' => Holds(i, v) \/ (i = j /\ v = w)
      BY <1>4, <2>8 DEF Holds
    <3>2. \A v \in Worker \ {w} : row'[v] = row[v] /\ cache'[Serve][v] = cache[Serve][v]
      BY <2>2 DEF Written
    <3>3. ASSUME NEW v \in Worker, NEW i \in Job, Holds(i, v)'
          PROVE  v \in tainted' \/ (Claimed(cache'[Serve][v]) /\ Claimed(row'[v]))
      <4>1. CASE v = w
        BY <4>1, <2>7
      <4>2. CASE v # w
        BY <1>1, <3>1, <3>2, <3>3, <4>2 DEF IInv, Exclusion
      <4>3. QED  BY <4>1, <4>2
    <3>4. BusyExcludes'
      BY <1>1, <1>2, <2>6, <3>1 DEF IInv, Exclusion, BusyExcludes
    <3>5. QED  BY <3>3, <3>4 DEF Exclusion
  <2>10. Containers' /\ Orphans'
    <3>1. ~Owns(j)'
      BY <1>2, <1>4, <2>8 DEF Owns
    <3>2. \A i \in Job : (Owns(i)' <=> Owns(i)) /\ at'[i] = at[i]
      BY <1>2, <1>4, <2>8, <3>1 DEF Owns
    <3>3. QED
      BY <1>1, <3>2 DEF IInv, Containers, Orphans, tempVars, JobFrame, bootVars
  <2>11. QED  BY <2>3, <2>5, <2>9, <2>10 DEF IInv
<1>5. QED  BY <1>3, <1>4 DEF Claim

LEMMA MakePreserves ==
    ASSUME IInv, JobFrame, NEW j \in Job, MakeContainer(j) PROVE IInv' /\ RowsKept
<1>1. /\ pc[j] = "make" /\ UNCHANGED <<registryVars, busyAt, tainted>>
      /\ faults' \in Nat /\ on[j] \in Worker /\ kind[on[j]] = "disposable"
  BY FaultCounts DEF MakeContainer, IInv, Others, Dispatches
<1>2. ~Owns(j) /\ \A w \in Worker : ~Holds(j, w)
  BY <1>1 DEF Owns, Holds
<1>3. CASE Leave(j) /\ UNCHANGED <<tempVars, gen>>
  BY <1>1, <1>2, <1>3, LeaveMoves, LocalStep DEF IInv, Others
<1>4. CASE /\ Made /\ at' = [at EXCEPT ![j] = gen'] /\ leaked' = leaked
           /\ \E l \in {"send", "clean"} : pc' = [pc EXCEPT ![j] = l]
           /\ UNCHANGED on
  <2>1. gen' \in Id /\ gen' = gen + 1 /\ gen \in Nat
    BY <1>4, Listener, GenType DEF Made
  <2>2. Moves(j) /\ pc'[j] \in {"send", "clean"}
    BY <1>1, <1>4, <2>1 DEF Moves, IInv, Dispatches
  <2>3. Dispatches' /\ Others' /\ Cmds'
    BY <1>1, <2>1, <2>2, MovesTyped, OthersOfJobs DEF IInv, Others
  <2>4. kind' = kind /\ \A i \in Job \ {j} : pc'[i] = pc[i] /\ on'[i] = on[i] /\ at'[i] = at[i]
    BY <1>4 DEF JobFrame, IInv, Dispatches
  <2>5. \A i \in Job, w \in Worker : Holds(i, w)' <=> Holds(i, w)
    BY <1>1, <1>2, <1>4, <2>4 DEF Holds
  <2>6. Exclusion'
    BY <1>1, <2>5 DEF IInv, Exclusion, BusyExcludes, registryVars
  <2>7. /\ gen' \notin temps /\ temps' \subseteq 1..gen' /\ temps' = temps \cup {gen'}
        /\ unseen' \subseteq temps' /\ unseen \subseteq unseen'
    BY <1>4, <2>1 DEF Made, IInv, Containers
  <2>8. Owns(j)' /\ at'[j] = gen' /\ \A i \in Job \ {j} : Owns(i)' <=> Owns(i)
    BY <1>1, <1>4, <2>2, <2>4 DEF Owns, IInv, Dispatches
  <2>9. Containers'
    BY <1>1, <1>4, <2>4, <2>7, <2>8 DEF IInv, Containers
  <2>10. Orphans'
    BY <1>1, <1>2, <1>4, <2>4, <2>7, <2>8 DEF IInv, Orphans, JobFrame, bootVars
  <2>11. Rows' /\ CacheFresh' /\ RowsKept
    BY <1>1, TableUntouched DEF JobFrame, bootVars
  <2>12. QED  BY <2>3, <2>6, <2>9, <2>10, <2>11 DEF IInv
<1>5. CASE Made /\ Leave(j) /\ leaked' = leaked \cup {gen'}
  <2>1. gen' \in Id /\ gen' = gen + 1 /\ gen \in Nat
    BY <1>5, Listener, GenType DEF Made
  <2>2. Moves(j) /\ ~Owns(j)' /\ \A w : ~Holds(j, w)'
    BY <1>5, LeaveMoves
  <2>3. Dispatches' /\ Others' /\ Cmds'
    BY <1>1, <2>1, <2>2, MovesTyped, OthersOfJobs DEF IInv, Others
  <2>4. kind' = kind /\ \A i \in Job \ {j} : pc'[i] = pc[i] /\ on'[i] = on[i] /\ at'[i] = at[i]
    BY <2>2 DEF JobFrame, Moves, IInv, Dispatches
  <2>5. \A i \in Job, w \in Worker : Holds(i, w)' <=> Holds(i, w)
    BY <1>2, <2>2, <2>4 DEF Holds
  <2>6. Exclusion'
    BY <1>1, <2>5 DEF IInv, Exclusion, BusyExcludes, registryVars
  <2>7. /\ gen' \notin temps /\ temps' \subseteq 1..gen' /\ temps' = temps \cup {gen'}
        /\ unseen' \subseteq temps' /\ unseen \subseteq unseen'
    BY <1>5, <2>1 DEF Made, IInv, Containers
  <2>8. \A i \in Job : (Owns(i)' <=> Owns(i)) /\ (Owns(i) => at'[i] = at[i])
    BY <1>2, <2>2, <2>4 DEF Owns
  <2>9. Containers'
    BY <1>5, <2>7, <2>8 DEF IInv, Containers
  <2>10. Orphans'
    BY <1>5, <2>7, <2>8 DEF IInv, Orphans, JobFrame, bootVars
  <2>11. Rows' /\ CacheFresh' /\ RowsKept
    BY <1>1, TableUntouched DEF JobFrame, bootVars
  <2>12. QED  BY <2>3, <2>6, <2>9, <2>10, <2>11 DEF IInv
<1>6. QED  BY <1>3, <1>4, <1>5 DEF MakeContainer

(* The server's side of a hand-back: accepted, refused or failed.          *)
LEMMA HandBackWrites ==
    ASSUME IInv, JobFrame, NEW j \in Job, HandBack(j)
    PROVE  /\ Rows' /\ CacheFresh' /\ RowsKept
           /\ \A v \in Worker \ {on[j]} :
                 row'[v] = row[v] /\ cache'[Serve][v] = cache[Serve][v]
           /\ pc'[j] # "idle" => UNCHANGED registryVars
<1> DEFINE m == IF pc[j] = "ok" THEN "SetOnline" ELSE "SetError"
<1>1. on[j] \in Worker /\ m \in DOMAIN From
  BY DEF HandBack, IInv, Dispatches, From
<1>2. CASE Call(Serve, on[j], m, 0, 0) /\ Leave(j)
  <2>1. Written(Serve, on[j], m)
    BY <1>1, <1>2, CallWrites, Constants DEF IInv
  <2>2. Rows' /\ CacheFresh' /\ RowsKept
    BY <1>1, <2>1, ServerWrites DEF JobFrame, bootVars
  <2>3. QED  BY <1>2, <2>1, <2>2, LeaveMoves DEF Written
<1>3. CASE UNCHANGED registryVars
  BY <1>3, TableUntouched DEF JobFrame, bootVars, registryVars
<1>4. QED  BY <1>2, <1>3 DEF HandBack

LEMMA HandBackPreserves ==
    ASSUME IInv, JobFrame, NEW j \in Job, HandBack(j) PROVE IInv' /\ RowsKept
<1>1. /\ pc[j] \in {"ok", "lost"} /\ on[j] \in Worker /\ kind[on[j]] # "disposable"
      /\ UNCHANGED <<tempVars, gen, busyAt>> /\ faults' \in Nat
      /\ tainted' = {w \in tainted : \/ w = on[j] /\ pc'[j] # "idle"
                                     \/ \E i \in Job \ {j} : Holds(i, w)}
  BY FaultCounts DEF HandBack, IInv, Others, Dispatches
<1>2. Leave(j) \/ (pc' = [pc EXCEPT ![j] = "ok"] /\ UNCHANGED <<on, at>>)
  BY DEF HandBack
<1>3. kind' = kind /\ serve' = "up"
  BY DEF JobFrame, bootVars
<1>4. /\ Moves(j)
      /\ \/ pc'[j] = "idle" /\ ~Owns(j)' /\ \A w \in Worker : ~Holds(j, w)'
         \/ /\ pc'[j] # "idle" /\ ~Owns(j)'
            /\ \A w \in Worker : Holds(j, w)' => w = on[j]
  <2>1. CASE Leave(j)
    BY <2>1, LeaveMoves
  <2>2. CASE pc' = [pc EXCEPT ![j] = "ok"] /\ UNCHANGED <<on, at>>
    BY <1>1, <1>3, <2>2 DEF Moves, Owns, Holds, IInv, Dispatches
  <2>3. QED  BY <1>2, <2>1, <2>2
<1>5. \A i \in Job \ {j} : pc'[i] = pc[i] /\ on'[i] = on[i] /\ at'[i] = at[i]
  BY <1>4 DEF Moves, IInv, Dispatches
<1>6. Dispatches' /\ Others' /\ Cmds'
  BY <1>1, <1>4, MovesTyped, OthersOfJobs DEF IInv, Others
<1>7. ~Owns(j) /\ \A i \in Job : Owns(i)' <=> Owns(i)
  BY <1>1, <1>3, <1>4, <1>5 DEF Owns
<1>8. Containers' /\ Orphans'
  BY <1>1, <1>3, <1>5, <1>7 DEF IInv, Containers, Orphans, tempVars, JobFrame
<1>9. Holds(j, on[j]) /\ \A i \in Job \ {j}, w \in Worker : Holds(i, w)' <=> Holds(i, w)
  BY <1>1, <1>3, <1>5 DEF Holds
<1>10. Exclusion'
  <2>1. ASSUME NEW w \in Worker, NEW i \in Job, Holds(i, w)'
        PROVE  w \in tainted' \/ (Claimed(cache'[Serve][w]) /\ Claimed(row'[w]))
    <3>1. Holds(i, w)
      BY <1>4, <1>9, <2>1
    <3>2. CASE w \in tainted
      BY <1>1, <1>4, <1>9, <2>1, <3>1, <3>2
    <3>3. CASE w \notin tainted
      <4>1. w # on[j] \/ i = j
        BY <1>9, <3>1, <3>3 DEF IInv, Exclusion, BusyExcludes
      <4>2. row'[w] = row[w] /\ cache'[Serve][w] = cache[Serve][w]
        BY <1>4, <2>1, <4>1, HandBackWrites DEF registryVars
      <4>3. QED  BY <3>1, <3>3, <4>2 DEF IInv, Exclusion
    <3>4. QED  BY <3>2, <3>3
  <2>2. BusyExcludes'
    <3> SUFFICES ASSUME NEW w \in Worker, NEW i \in Job, NEW k \in Job, i # k,
                        Holds(i, w)', Holds(k, w)'
                 PROVE  w \in tainted'
      BY DEF BusyExcludes
    <3>1. Holds(i, w) /\ Holds(k, w)
      BY <1>4, <1>9
    <3>2. w \in tainted
      BY <3>1 DEF IInv, Exclusion, BusyExcludes
    <3>3. \E l \in Job \ {j} : Holds(l, w)
      BY <3>1
    <3>4. QED  BY <1>1, <3>2, <3>3
  <2>3. QED  BY <2>1, <2>2 DEF Exclusion
<1>11. QED  BY <1>6, <1>8, <1>10, HandBackWrites DEF IInv

LEMMA CleanupPreserves ==
    ASSUME IInv, JobFrame, NEW j \in Job, Cleanup(j) PROVE IInv' /\ RowsKept
<1>1. /\ Owns(j) /\ Leave(j) /\ UNCHANGED <<registryVars, gen, busyAt, tainted>>
      /\ faults' \in Nat
      /\ \/ temps' = temps \ {at[j]} /\ unseen' = unseen \ {at[j]} /\ leaked' = leaked
         \/ leaked' = leaked \cup {at[j]} /\ temps' = temps /\ unseen' = unseen
  BY FaultCounts DEF Cleanup, Owns, IInv, Others, Dispatches
<1>2. Moves(j) /\ ~Owns(j)' /\ \A w \in Worker : ~Holds(j, w)'
  BY <1>1, LeaveMoves
<1>3. kind' = kind /\ serve' = serve
  BY DEF JobFrame, bootVars
<1>4. \A i \in Job \ {j} : pc'[i] = pc[i] /\ on'[i] = on[i] /\ at'[i] = at[i]
  BY <1>2 DEF Moves, IInv, Dispatches
<1>5. Dispatches' /\ Others' /\ Cmds'
  BY <1>1, <1>2, MovesTyped, OthersOfJobs DEF IInv, Others
<1>6. \A i \in Job \ {j} : Owns(i)' <=> Owns(i)
  BY <1>3, <1>4 DEF Owns
<1>7. /\ at[j] \in temps \ leaked /\ temps' \ leaked' = (temps \ leaked) \ {at[j]}
      /\ unseen' \subseteq temps' /\ unseen \ {at[j]} \subseteq unseen'
  BY <1>1 DEF IInv, Containers
<1>8. Containers'
  BY <1>1, <1>2, <1>4, <1>6, <1>7 DEF IInv, Containers
<1>9. Orphans'
  BY <1>3, <1>4, <1>6, <1>7 DEF IInv, Orphans
<1>10. Exclusion'
  <2>1. \A i \in Job, w \in Worker : Holds(i, w)' => Holds(i, w)
    BY <1>2, <1>3, <1>4 DEF Holds
  <2>2. QED  BY <1>1, <2>1 DEF IInv, Exclusion, BusyExcludes, registryVars
<1>11. QED
  BY <1>1, <1>5, <1>8, <1>9, <1>10, TableUntouched DEF IInv, JobFrame, bootVars

LEMMA JobNextPreserves == ASSUME IInv, JobNext PROVE IInv' /\ RowsKept
<1>1. JobFrame
  BY DEF JobNext, JobFrame
<1>2. PICK j \in Job : \/ \E w \in Worker : Pick(j, w)
                       \/ Claim(j)  \/ MakeContainer(j) \/ Yield(j)    \/ Arrive(j)
                       \/ Answer(j) \/ GiveUp(j)        \/ HandBack(j) \/ Cleanup(j)
  BY DEF JobNext
<1>3. QED
  BY <1>1, <1>2, PickPreserves, ClaimPreserves, MakePreserves, ArrivePreserves,
     AnswerPreserves, HandBackPreserves, CleanupPreserves

LEMMA OutsidePreserves == ASSUME IInv, Outside PROVE IInv' /\ RowsKept
<1>1. /\ UNCHANGED <<registryVars, kind, cmd, launched, gen, tempVars, bootVars, reconcileVars>>
      /\ UNCHANGED <<pc, on, at, stale, tainted, faults>>
  BY DEF Outside
<1>2. box' \in [Worker -> Box] /\ busyAt' \subseteq Id
  BY Boxes, ZenonT(40) DEF Outside, BoxExits, Finished, IInv, Others
<1>3. Others' /\ Cmds'
  BY <1>1, <1>2 DEF IInv, Others, Cmds, bootVars, reconcileVars
<1>4. Dispatches' /\ Containers' /\ Orphans' /\ Exclusion'
  BY <1>1 DEF IInv, Dispatches, Containers, Orphans, Exclusion, BusyExcludes, Owns, Holds,
              bootVars, tempVars, registryVars
<1>5. QED  BY <1>1, <1>3, <1>4, TableUntouched DEF IInv, bootVars

-----------------------------------------------------------------------------
(* Numbers given out, one for each worker, are listeners. *)
LEMMA InitialRows == ASSUME Init PROVE Rows /\ box \in [Worker -> Box]
<1>1. PICK nr \in [Worker -> 1..Cardinality(Worker)] :
          /\ row \in {r \in [Worker -> {Absent, Fresh} \cup {Left(w, nr[w]) : w \in Worker}] :
                         \A w \in Worker : r[w] \in {Absent, Fresh, Left(w, nr[w])}}
          /\ box = [w \in Worker |-> IF IsManaged(w) /\ row[w] = Left(w, nr[w])
                                     THEN [id |-> nr[w], st |-> "running"] ELSE NoBox]
  BY DEF Init
<1>2. \A w \in Worker : nr[w] \in Id
  BY Constants DEF Id
<1>3. \A w \in Worker : Left(w, nr[w]) \in Row
  BY <1>2, Constants DEF Left, Row, WorkerState
<1>4. row \in [Worker -> Row]
  <2>1. \A w \in Worker : row[w] \in {Absent, Fresh, Left(w, nr[w])}
    BY <1>1
  <2>2. row = [w \in Worker |-> row[w]]
    BY <1>1
  <2>3. QED  BY <1>3, <2>1, <2>2, Entries
<1>5. cache \in [Process -> [Worker -> Row]]
  BY Entries DEF Init
<1>6. box \in [Worker -> Box]
  BY <1>1, <1>2, NoBoxType DEF Box
<1>7. QED  BY <1>4, <1>5, <1>6 DEF Rows

LEMMA Initially == Init => IInv
<1> SUFFICES ASSUME Init PROVE IInv
  OBVIOUS
<1>1. Cmds
  BY Constants DEF Init, Cmds, Off, CommandState
<1>2. Others
  <2>1. gen \in Id
    BY Constants DEF Init, Id
  <2>2. QED  BY <2>1, InitialRows, Constants DEF Init, Others
<1>3. Dispatches
  BY Constants DEF Init, Dispatches
<1>4. Containers /\ Orphans /\ CacheFresh /\ Exclusion
  BY DEF Init, Containers, Orphans, CacheFresh, Exclusion, BusyExcludes, Owns, Holds
<1>5. QED  BY InitialRows, <1>1, <1>2, <1>3, <1>4 DEF IInv

LEMMA Inductive == IInv /\ [Next]_vars => IInv'
<1> SUFFICES ASSUME IInv, [Next]_vars PROVE IInv'
  OBVIOUS
<1>1. CASE UNCHANGED vars
  BY <1>1 DEF vars, registryVars, dockerVars, tempVars, bootVars, reconcileVars, jobVars,
              IInv, Rows, Cmds, Others, Dispatches, Containers, Orphans, CacheFresh,
              Exclusion, BusyExcludes, Owns, Holds
<1>2. CASE Next
  BY <1>2, CommandPreserves, BootNextPreserves, ExitPreserves, ReloadPreserves,
     ReconcilePreserves, JobNextPreserves, OutsidePreserves DEF Next
<1>3. QED  BY <1>1, <1>2

(* The table, the commands, the containers and the dispatches stay          *)
(* well-formed; in particular a container is counted as leaked only while   *)
(* it exists.                                                               *)
THEOREM TypeCorrect == Spec => []TypeOK
<1>1. IInv => TypeOK
  <2> SUFFICES ASSUME IInv PROVE TypeOK
    OBVIOUS
  <2>1. Row \subseteq Entry
    BY Constants DEF Row, Entry
  <2>2. RegistryTypeOK
    BY <2>1 DEF IInv, Rows, RegistryTypeOK
  <2>3. temps \subseteq Id
    BY Constants DEF IInv, Containers, Others, Id
  <2>4. QED  BY <2>2, <2>3 DEF IInv, Cmds, Others, Dispatches, Containers, TypeOK
<1>2. QED  BY <1>1, Initially, Inductive, PTL DEF Spec

(* The server's copy of an entry is the row, unless a command has written   *)
(* the row since the server last read the table (mutateEntry).              *)
THEOREM CopyIsFresh == Spec => []CacheFresh
<1>1. IInv => CacheFresh
  BY DEF IInv
<1>2. QED  BY <1>1, Initially, Inductive, PTL DEF Spec

(* Two dispatches hold a worker only if its row was written by a command,   *)
(* or its state changed by reconcile, while one of them held it (SetBusy).  *)
THEOREM BusyIsExclusive == Spec => []BusyExcludes
<1>1. IInv => BusyExcludes
  BY DEF IInv, Exclusion
<1>2. QED  BY <1>1, Initially, Inductive, PTL DEF Spec

(* With Docker configured, a disposable container whose dispatch is over,   *)
(* or whose server has crashed, is one that the sweep does not ask for, or  *)
(* of which Docker, since the server started, has refused the removal or    *)
(* has not answered the creation (disposable.go, server.go).                *)
THEOREM NoOrphans == Spec => []OrphansCleaned
<1>1. IInv => OrphansCleaned
  BY DEF IInv, Orphans, OrphansCleaned
<1>2. QED  BY <1>1, Initially, Inductive, PTL DEF Spec

(* Only a step of a command makes or deletes a row: the server does not     *)
(* bring back what `worker remove' has deleted.                             *)
THEOREM RowsAreKept == Spec => ServerKeepsRows
<1>1. IInv /\ [Next]_vars =>
          [\A w \in Worker : (row[w] = Absent) # (row'[w] = Absent) => cmd' # cmd]_vars
  <2> SUFFICES ASSUME IInv, Next
               PROVE  \A w \in Worker : (row[w] = Absent) # (row'[w] = Absent) => cmd' # cmd
    OBVIOUS
  <2>1. CASE CommandNext
    BY <2>1, CommandSteps DEF CommandEffect
  <2>2. CASE BootNext \/ Exit \/ Reload \/ ReconcileNext \/ JobNext \/ Outside
    <3>1. RowsKept
      BY <2>2, BootNextPreserves, ExitPreserves, ReloadPreserves, ReconcilePreserves,
         JobNextPreserves, OutsidePreserves
    <3>2. QED  BY <3>1 DEF RowsKept
  <2>3. QED  BY <2>1, <2>2 DEF Next
<1>2. QED  BY <1>1, Initially, Inductive, PTL DEF Spec, ServerKeepsRows

-----------------------------------------------------------------------------
(* Fleet implements Lease: how each step looks from there.                 *)

(* A lease that somebody has broken into is still held. *)
TaintHeld == \A w \in tainted : w \in Worker /\ Holders[w] # {}

LEMMA LeaseDomains ==
    /\ Holders = [w \in Worker |-> Holders[w]] /\ Holders' = [w \in Worker |-> Holders'[w]]
    /\ Rented = [j \in Job |-> Rented[j]] /\ Rented' = [j \in Job |-> Rented'[j]]
<1>1. Holders = [w \in Worker |-> Holders[w]] /\ Holders' = [w \in Worker |-> Holders'[w]]
  BY Zenon DEF Holders
<1>2. Rented = [j \in Job |-> Rented[j]] /\ Rented' = [j \in Job |-> Rented'[j]]
  BY Zenon DEF Rented
<1>3. QED  BY <1>1, <1>2

LEMMA LeaseRow ==
    /\ \A w \in Worker : Holders[w] = {j \in Job : Holds(j, w)}
    /\ \A w \in Worker : Holders'[w] = {j \in Job : Holds(j, w)'}
    /\ \A j \in Job : Rented[j] = IF Owns(j) THEN at[j] ELSE 0
    /\ \A j \in Job : Rented'[j] = IF Owns(j)' THEN at'[j] ELSE 0
BY DEF Holders, Rented

LEMMA SameFunction ==
    ASSUME NEW D, NEW f, NEW g, f = [d \in D |-> f[d]], g = [d \in D |-> g[d]],
           \A d \in D : g[d] = f[d]
    PROVE  g = f
OBVIOUS

LEMMA OneDiffers ==
    ASSUME NEW D, NEW f, NEW g, f = [d \in D |-> f[d]], g = [d \in D |-> g[d]],
           NEW e \in D, \A d \in D \ {e} : g[d] = f[d]
    PROVE  g = [f EXCEPT ![e] = g[e]]
OBVIOUS

(* Leases and containers that no dispatch takes or gives back. *)
LEMMA HeldStays ==
    ASSUME \A j \in Job, w \in Worker : Holds(j, w)' <=> Holds(j, w)
    PROVE  Holders' = Holders
BY LeaseDomains, LeaseRow, SameFunction

LEMMA RentedStays ==
    ASSUME \A j \in Job : (Owns(j)' <=> Owns(j)) /\ (Owns(j) => at'[j] = at[j])
    PROVE  Rented' = Rented
BY LeaseDomains, LeaseRow, SameFunction

LEMMA JobsStay ==
    ASSUME UNCHANGED <<kind, pc, on, at>> PROVE Holders' = Holders /\ Rented' = Rented
<1>1. \A j \in Job : /\ \A w \in Worker : Holds(j, w)' <=> Holds(j, w)
                     /\ Owns(j)' <=> Owns(j)
                     /\ at'[j] = at[j]
  BY DEF Holds, Owns
<1>2. QED  BY <1>1, HeldStays, RentedStays

LEMMA LeaseStays ==
    ASSUME (serve' = "up") <=> (serve = "up"), Holders' = Holders, Rented' = Rented,
           UNCHANGED <<tainted, tempVars>>
    PROVE  UNCHANGED Ledger!leaseVars
BY DEF Ledger!leaseVars, Ledger!sharedVars, Ledger!ownVars, tempVars

LEMMA CommandBreaks ==
    ASSUME CommandNext PROVE \E S \in SUBSET Worker : Ledger!Break(S)
<1> DEFINE S == {w \in Overwritten : Held(w)}
<1>1. Holders' = Holders /\ Rented' = Rented
  BY JobsStay DEF CommandNext, jobVars
<1>2. \A w \in S : Holders[w] # {}
  BY LeaseRow DEF Held, Overwritten
<1>3. UNCHANGED <<serve, tempVars>> /\ tainted' = tainted \cup S
  BY DEF CommandNext, bootVars, tempVars
<1>4. S \in SUBSET Worker
  BY DEF Overwritten
<1>5. Ledger!Break(S)
  BY <1>1, <1>2, <1>3 DEF Ledger!Break, Ledger!ownVars, tempVars
<1>6. QED  BY <1>4, <1>5

LEMMA BootOpens ==
    ASSUME BootNext PROVE Ledger!Open \/ UNCHANGED Ledger!leaseVars
<1>1. UNCHANGED <<kind, jobVars, tainted>> /\ Holders' = Holders /\ Rented' = Rented
  BY JobsStay DEF BootNext, jobVars
<1>2. CASE Boot \/ \E w \in Worker : AdapterStart(w)
  <2>1. serve # "up" /\ serve' # "up" /\ UNCHANGED tempVars
    BY <1>2 DEF Boot, AdapterStart
  <2>2. QED  BY <1>1, <2>1, LeaseStays DEF tempVars
<1>3. CASE Up
  <2>1. serve = "boot" /\ serve' = "up"
    BY <1>3 DEF Up
  <2>2. IF HasDocker THEN \E S \in SUBSET (temps \ unseen) : Swept(S) ELSE UNCHANGED tempVars
    BY <1>3 DEF Up, CleanupOrphanDisposables
  <2>3. QED
    BY <1>1, <2>1, <2>2 DEF Ledger!Open, Ledger!Sweep, Ledger!sharedVars, Swept, tempVars
<1>4. QED  BY <1>2, <1>3 DEF BootNext

LEMMA ExitCrashes == ASSUME IInv, Exit PROVE Ledger!Crash
<1>1. /\ serve' # "up" /\ tainted' = {} /\ UNCHANGED tempVars
      /\ \A j \in Job : pc'[j] = "idle"
  BY DEF Exit, tempVars
<1>2. \A j \in Job : ~Owns(j)' /\ \A w \in Worker : ~Holds(j, w)'
  BY <1>1 DEF Owns, Holds
<1>3. (\A w \in Worker : Holders'[w] = {}) /\ (\A j \in Job : Rented'[j] = 0)
  BY <1>2, LeaseRow
<1>4. Holders' = [w \in Worker |-> {}] /\ Rented' = [j \in Job |-> 0]
  BY <1>3, LeaseDomains
<1>5. QED  BY <1>1, <1>4 DEF Ledger!Crash, tempVars

LEMMA JudgeBreaks ==
    ASSUME IInv, ReconcileNext
    PROVE  UNCHANGED Ledger!leaseVars \/ \E S \in SUBSET Worker : Ledger!Break(S)
<1>1. /\ UNCHANGED <<serve, tempVars>> /\ Holders' = Holders /\ Rented' = Rented
  BY JobsStay DEF ReconcileNext, jobVars, tempVars, bootVars
<1>2. CASE tainted' = tainted
  BY <1>1, <1>2, LeaseStays
<1>3. ASSUME NEW p \in probe, Held(p.w), tainted' = tainted \cup {p.w}
      PROVE  \E S \in SUBSET Worker : Ledger!Break(S)
  <2>1. p.w \in Worker /\ Holders[p.w] # {}
    BY <1>3, LeaseRow DEF Held, IInv, Others
  <2>2. Ledger!Break({p.w})
    BY <1>1, <1>3, <2>1 DEF Ledger!Break, Ledger!ownVars, tempVars
  <2>3. QED  BY <2>1, <2>2
<1>4. QED  BY <1>2, <1>3 DEF ReconcileNext, List, Check, Judge

-----------------------------------------------------------------------------
(* Steps of a dispatch.                                                    *)
LEMMA Apart ==
    ASSUME IInv, JobFrame, NEW j \in Job, Moves(j)
    PROVE  /\ serve' = serve /\ kind' = kind
           /\ \A i \in Job \ {j} : /\ at'[i] = at[i] /\ (Owns(i)' <=> Owns(i))
                                   /\ \A w \in Worker : Holds(i, w)' <=> Holds(i, w)
<1>1. serve' = serve /\ kind' = kind
  BY DEF JobFrame, bootVars
<1>2. \A i \in Job \ {j} : pc'[i] = pc[i] /\ on'[i] = on[i] /\ at'[i] = at[i]
  BY DEF Moves, IInv, Dispatches
<1>3. QED  BY <1>1, <1>2 DEF Owns, Holds

LEMMA NothingTaken ==
    ASSUME IInv, JobFrame, NEW j \in Job, Moves(j), UNCHANGED <<tempVars, tainted>>,
           \A w \in Worker : Holds(j, w)' <=> Holds(j, w),
           Owns(j)' <=> Owns(j), Owns(j) => at'[j] = at[j]
    PROVE  UNCHANGED Ledger!leaseVars
BY Apart, HeldStays, RentedStays, LeaseStays DEF tempVars

LEMMA PickStutters ==
    ASSUME IInv, JobFrame, NEW j \in Job, NEW w \in Worker, Pick(j, w)
    PROVE  UNCHANGED Ledger!leaseVars
<1>1. /\ pc[j] = "idle" /\ on' = [on EXCEPT ![j] = w]
      /\ \/ kind[w] = "disposable" /\ pc' = [pc EXCEPT ![j] = "make"] /\ UNCHANGED at
         \/ /\ kind[w] # "disposable" /\ pc' = [pc EXCEPT ![j] = "claim"]
            /\ at' = [at EXCEPT ![j] = cache[Serve][w].ep]
      /\ UNCHANGED <<tempVars, tainted>>
  BY DEF Pick
<1>2. Moves(j)
  BY <1>1, EndpointType, Constants DEF IInv, Dispatches, Moves
<1>3. pc'[j] \in {"make", "claim"}
  BY <1>1 DEF IInv, Dispatches
<1>4. QED  BY <1>1, <1>2, <1>3, NothingTaken DEF Holds, Owns

LEMMA WorkStutters ==
    ASSUME IInv, JobFrame, NEW j \in Job, Yield(j) \/ Arrive(j) \/ Answer(j) \/ GiveUp(j)
    PROVE  UNCHANGED Ledger!leaseVars
<1>1. /\ pc[j] \in {"send", "work"}
      /\ \E l \in {"work", "ok", "lost"} : pc' = [pc EXCEPT ![j] = l]
      /\ UNCHANGED <<tempVars, on, at, tainted>>
  BY DEF Yield, Arrive, Answer, GiveUp
<1>2. pc'[j] \in {"work", "ok", "lost"} /\ Moves(j)
  BY <1>1 DEF IInv, Dispatches, Moves
<1>3. kind' = kind
  BY DEF JobFrame
<1>4. QED  BY <1>1, <1>2, <1>3, NothingTaken DEF Holds, Owns

(* SetBusy is accepted for a worker that is online; one that is held is     *)
(* busy, unless somebody has written its entry.                             *)
LEMMA ClaimAcquires ==
    ASSUME IInv, JobFrame, NEW j \in Job, Claim(j)
    PROVE  Ledger!Acquire(j, on[j]) \/ UNCHANGED Ledger!leaseVars
<1> DEFINE w == on[j]
<1>1. /\ pc[j] = "claim" /\ UNCHANGED <<tempVars, tainted>>
      /\ ~Owns(j) /\ \A v \in Worker : ~Holds(j, v)
      /\ w \in Worker /\ kind[w] # "disposable"
  BY DEF Claim, Owns, Holds, IInv, Dispatches
<1>2. CASE Leave(j)
  BY <1>1, <1>2, LeaveMoves, NothingTaken
<1>3. CASE /\ Call(Serve, w, "SetBusy", 0, 0)
           /\ pc' = [pc EXCEPT ![j] = "send"] /\ UNCHANGED <<on, at>>
  <2>1. "SetBusy" \in DOMAIN From /\ From["SetBusy"] = {"online"}
    BY DEF From
  <2>2. Written(Serve, w, "SetBusy")
    BY <1>1, <1>3, <2>1, CallWrites, Constants DEF IInv
  <2>3. \A i \in Job : Holds(i, w) => w \in tainted
    BY <1>1, <2>1, <2>2 DEF Written, IInv, Exclusion, Claimed
  <2>4. Moves(j) /\ pc'[j] = "send" /\ on'[j] = w
    BY <1>1, <1>3 DEF Moves, IInv, Dispatches
  <2>5. /\ serve' = serve /\ kind' = kind
        /\ \A i \in Job \ {j} : /\ at'[i] = at[i] /\ (Owns(i)' <=> Owns(i))
                                /\ \A v \in Worker : Holds(i, v)' <=> Holds(i, v)
    BY <2>4, Apart
  <2>6. ~Owns(j)' /\ \A v \in Worker : Holds(j, v)' <=> v = w
    BY <1>1, <2>4, <2>5 DEF Owns, Holds
  <2>7. Holders' = [Holders EXCEPT ![w] = Holders[w] \cup {j}]
    <3>1. ASSUME NEW v \in Worker \ {w} PROVE Holders'[v] = Holders[v]
      <4>1. \A i \in Job : Holds(i, v)' <=> Holds(i, v)
        BY <1>1, <2>5, <2>6
      <4>2. QED  BY <4>1, LeaseRow
    <3>2. Holders'[w] = Holders[w] \cup {j}
      BY <1>1, <2>5, <2>6, LeaseRow
    <3>3. QED  BY <1>1, <3>1, <3>2, LeaseDomains, OneDiffers
  <2>8. Rented' = Rented
    BY <1>1, <2>5, <2>6, RentedStays
  <2>9. Ledger!Free(j)
    BY <1>1, LeaseRow DEF Ledger!Free
  <2>10. Holders[w] = {} \/ w \in tainted
    BY <1>1, <2>3, LeaseRow
  <2>11. QED
    BY <1>1, <2>5, <2>7, <2>8, <2>9, <2>10
       DEF Ledger!Acquire, Ledger!ownVars, tempVars, JobFrame
<1>4. QED  BY <1>2, <1>3 DEF Claim

(* A container that is made is new, and its dispatch has it from then on,   *)
(* healthy or not, or knows nothing of it.                                  *)
LEMMA MakeRents ==
    ASSUME IInv, JobFrame, NEW j \in Job, MakeContainer(j)
    PROVE  \/ UNCHANGED Ledger!leaseVars
           \/ \E c \in 1..MaxListeners : Ledger!Rent(j, c) \/ Ledger!Lose(c)
<1>1. /\ pc[j] = "make" /\ UNCHANGED tainted
      /\ on[j] \in Worker /\ kind[on[j]] = "disposable"
      /\ ~Owns(j) /\ \A v \in Worker : ~Holds(j, v)
  BY DEF MakeContainer, Owns, Holds, IInv, Dispatches
<1>2. CASE Leave(j) /\ UNCHANGED tempVars
  BY <1>1, <1>2, LeaveMoves, NothingTaken
<1>3. ASSUME Made
      PROVE  /\ gen' \in Id /\ gen' \in 1..MaxListeners /\ gen' \notin temps
             /\ serve' = "up" => Ledger!Make(gen')
  <2>1. gen' \in Id /\ gen' = gen + 1 /\ gen \in Nat
    BY <1>3, Listener, GenType DEF Made
  <2>2. gen' \in 1..MaxListeners /\ gen' \notin temps
    BY <2>1, Constants DEF Id, IInv, Containers
  <2>3. serve = "up"
    BY DEF JobFrame
  <2>4. QED  BY <1>3, <2>1, <2>2, <2>3 DEF Made, Ledger!Make
<1>4. CASE /\ Made /\ at' = [at EXCEPT ![j] = gen'] /\ leaked' = leaked
           /\ \E l \in {"send", "clean"} : pc' = [pc EXCEPT ![j] = l]
           /\ UNCHANGED on
  <2>3. Moves(j) /\ pc'[j] \in {"send", "clean"} /\ on'[j] = on[j] /\ at'[j] = gen'
    BY <1>1, <1>3, <1>4 DEF Moves, IInv, Dispatches
  <2>4. /\ serve' = serve /\ kind' = kind
        /\ \A i \in Job \ {j} : /\ at'[i] = at[i] /\ (Owns(i)' <=> Owns(i))
                                /\ \A v \in Worker : Holds(i, v)' <=> Holds(i, v)
    BY <2>3, Apart
  <2>5. Owns(j)' /\ \A v \in Worker : ~Holds(j, v)'
    BY <1>1, <2>3, <2>4 DEF Owns, Holds
  <2>6. Holders' = Holders
    BY <1>1, <2>4, <2>5, HeldStays
  <2>7. Rented' = [Rented EXCEPT ![j] = gen']
    <3>1. \A i \in Job \ {j} : Rented'[i] = Rented[i]
      BY <2>4, LeaseRow
    <3>2. Rented'[j] = gen'
      BY <2>3, <2>5, LeaseRow
    <3>3. QED  BY <3>1, <3>2, LeaseDomains, OneDiffers
  <2>8. Ledger!Free(j)
    BY <1>1, LeaseRow DEF Ledger!Free
  <2>9. Ledger!Rent(j, gen')
    BY <1>1, <1>3, <1>4, <2>4, <2>6, <2>7, <2>8 DEF Ledger!Rent, Ledger!sharedVars, JobFrame
  <2>10. QED  BY <1>3, <1>4, <2>9
<1>5. CASE Made /\ Leave(j) /\ leaked' = leaked \cup {gen'}
  <2>1. Moves(j) /\ ~Owns(j)' /\ \A v \in Worker : ~Holds(j, v)'
    BY <1>5, LeaveMoves
  <2>2. /\ serve' = serve /\ kind' = kind
        /\ \A i \in Job \ {j} : /\ at'[i] = at[i] /\ (Owns(i)' <=> Owns(i))
                                /\ \A v \in Worker : Holds(i, v)' <=> Holds(i, v)
    BY <2>1, Apart
  <2>3. Holders' = Holders /\ Rented' = Rented
    BY <1>1, <2>1, <2>2, HeldStays, RentedStays
  <2>4. Ledger!Lose(gen')
    BY <1>1, <1>3, <1>5, <2>2, <2>3 DEF Ledger!Lose, Ledger!sharedVars, JobFrame
  <2>5. QED  BY <1>3, <1>5, <2>4
<1>6. QED  BY <1>2, <1>4, <1>5 DEF MakeContainer

(* The worker is handed back whether or not the registry takes it; a broken *)
(* lease is whole again when the last holder leaves.                        *)
LEMMA HandBackReleases ==
    ASSUME IInv, TaintHeld, JobFrame, NEW j \in Job, HandBack(j)
    PROVE  Ledger!Release(j, on[j]) \/ UNCHANGED Ledger!leaseVars
<1> DEFINE w == on[j]
<1>1. /\ pc[j] \in {"ok", "lost"} /\ w \in Worker /\ kind[w] # "disposable"
      /\ UNCHANGED tempVars
      /\ tainted' = {v \in tainted : \/ v = w /\ pc'[j] # "idle"
                                     \/ \E i \in Job \ {j} : Holds(i, v)}
  BY DEF HandBack, IInv, Dispatches
<1>2. ~Owns(j) /\ \A v \in Worker : Holds(j, v) <=> v = w
  BY <1>1 DEF Owns, Holds
<1>3. \A v \in tainted : v \in Worker /\ \E i \in Job : Holds(i, v)
  BY LeaseRow DEF TaintHeld
<1>4. CASE Leave(j)
  <2>1. Moves(j) /\ pc'[j] = "idle" /\ ~Owns(j)' /\ \A v : ~Holds(j, v)'
    BY <1>4, LeaveMoves
  <2>2. /\ serve' = serve /\ kind' = kind
        /\ \A i \in Job \ {j} : /\ at'[i] = at[i] /\ (Owns(i)' <=> Owns(i))
                                /\ \A v \in Worker : Holds(i, v)' <=> Holds(i, v)
    BY <2>1, Apart
  <2>3. Holders' = [Holders EXCEPT ![w] = Holders[w] \ {j}]
    <3>1. ASSUME NEW v \in Worker \ {w} PROVE Holders'[v] = Holders[v]
      <4>1. \A i \in Job : Holds(i, v)' <=> Holds(i, v)
        BY <1>1, <1>2, <2>1, <2>2
      <4>2. QED  BY <4>1, LeaseRow
    <3>2. ASSUME NEW v \in Worker, v = w PROVE Holders'[v] = Holders[v] \ {j}
      <4>1. \A i \in Job : Holds(i, v)' <=> (Holds(i, v) /\ i # j)
        BY <2>1, <2>2
      <4>2. QED  BY <4>1, LeaseRow
    <3>3. QED  BY <1>1, <3>1, <3>2, LeaseDomains, OneDiffers
  <2>4. Rented' = Rented
    BY <1>2, <2>1, <2>2, RentedStays
  <2>5. tainted' = {v \in tainted : \E i \in Job \ {j} : Holds(i, v)}
    BY <1>1, <2>1
  <2>6. tainted' = IF Holders[w] = {j} THEN tainted \ {w} ELSE tainted
    <3>1. \A v \in tainted : v # w => \E i \in Job \ {j} : Holds(i, v)
      BY <1>2, <1>3
    <3>2. Holders[w] = {j} <=> ~\E i \in Job \ {j} : Holds(i, w)
      BY <1>1, <1>2, LeaseRow
    <3>3. QED  BY <2>5, <3>1, <3>2
  <2>7. j \in Holders[w]
    BY <1>1, <1>2, LeaseRow
  <2>8. QED
    BY <1>1, <2>2, <2>3, <2>4, <2>6, <2>7 DEF Ledger!Release, Ledger!ownVars, tempVars
<1>5. CASE pc[j] = "lost" /\ pc' = [pc EXCEPT ![j] = "ok"] /\ UNCHANGED <<on, at>>
  <2>1. pc'[j] = "ok" /\ Moves(j) /\ on'[j] = w
    BY <1>1, <1>5 DEF Moves, IInv, Dispatches
  <2>2. kind' = kind
    BY DEF JobFrame
  <2>3. ~Owns(j)' /\ \A v \in Worker : Holds(j, v)' <=> Holds(j, v)
    BY <1>1, <1>2, <2>1, <2>2 DEF Owns, Holds
  <2>4. tainted' = tainted
    BY <1>1, <1>2, <1>3, <2>1
  <2>5. QED  BY <1>1, <1>2, <2>1, <2>3, <2>4, NothingTaken
<1>6. pc[j] # "lost" => Leave(j)
  BY <1>1 DEF HandBack
<1>7. Leave(j) \/ (pc' = [pc EXCEPT ![j] = "ok"] /\ UNCHANGED <<on, at>>)
  BY DEF HandBack
<1>8. QED  BY <1>4, <1>5, <1>6, <1>7

LEMMA CleanupReturns ==
    ASSUME IInv, JobFrame, NEW j \in Job, Cleanup(j) PROVE Ledger!Return(j)
<1>1. /\ Owns(j) /\ Leave(j) /\ UNCHANGED tainted
      /\ \/ temps' = temps \ {at[j]} /\ unseen' = unseen \ {at[j]} /\ leaked' = leaked
         \/ leaked' = leaked \cup {at[j]} /\ temps' = temps /\ unseen' = unseen
  BY DEF Cleanup, Owns, IInv, Dispatches
<1>2. at[j] \in 1..gen /\ gen \in Nat
  BY <1>1, GenType DEF IInv, Containers
<1>3. Rented[j] = at[j] /\ at[j] # 0
  BY <1>1, <1>2, LeaseRow
<1>4. Moves(j) /\ ~Owns(j)' /\ \A v \in Worker : ~Holds(j, v)'
  BY <1>1, LeaveMoves
<1>5. /\ serve' = serve /\ kind' = kind
      /\ \A i \in Job \ {j} : /\ at'[i] = at[i] /\ (Owns(i)' <=> Owns(i))
                              /\ \A v \in Worker : Holds(i, v)' <=> Holds(i, v)
  BY <1>4, Apart
<1>6. \A v \in Worker : ~Holds(j, v)
  BY <1>1 DEF Owns, Holds
<1>7. Holders' = Holders
  BY <1>4, <1>5, <1>6, HeldStays
<1>8. Rented' = [Rented EXCEPT ![j] = 0]
  <2>1. \A i \in Job \ {j} : Rented'[i] = Rented[i]
    BY <1>5, LeaseRow
  <2>2. Rented'[j] = 0
    BY <1>4, LeaseRow
  <2>3. QED  BY <2>1, <2>2, LeaseDomains, OneDiffers
<1>9. QED  BY <1>1, <1>3, <1>5, <1>7, <1>8 DEF Ledger!Return, Ledger!sharedVars

LEMMA JobLeases ==
    ASSUME IInv, TaintHeld, JobNext
    PROVE  \/ UNCHANGED Ledger!leaseVars
           \/ \E j \in Job : \/ \E w \in Worker : Ledger!Acquire(j, w) \/ Ledger!Release(j, w)
                             \/ \E c \in 1..MaxListeners : Ledger!Rent(j, c)
                             \/ Ledger!Return(j)
           \/ \E c \in 1..MaxListeners : Ledger!Lose(c)
<1>1. JobFrame
  BY DEF JobNext, JobFrame
<1>2. PICK j \in Job : \/ \E w \in Worker : Pick(j, w)
                       \/ Claim(j)  \/ MakeContainer(j) \/ Yield(j)    \/ Arrive(j)
                       \/ Answer(j) \/ GiveUp(j)        \/ HandBack(j) \/ Cleanup(j)
  BY DEF JobNext
<1>3. CASE Claim(j) \/ HandBack(j)
  <2>1. on[j] \in Worker
    BY <1>3 DEF Claim, HandBack, IInv, Dispatches
  <2>2. QED  BY <1>1, <1>3, <2>1, ClaimAcquires, HandBackReleases
<1>4. CASE ~(Claim(j) \/ HandBack(j))
  BY <1>1, <1>2, <1>4, PickStutters, WorkStutters, MakeRents, CleanupReturns
<1>5. QED  BY <1>3, <1>4

LEMMA LeaseStep ==
    ASSUME IInv, TaintHeld, [Next]_vars
    PROVE  Ledger!Next \/ UNCHANGED Ledger!leaseVars
<1>1. CASE Reload \/ Outside \/ UNCHANGED vars
  <2>1. UNCHANGED <<serve, tempVars, tainted, kind, pc, on, at>>
    BY <1>1 DEF Reload, Outside, vars, bootVars, tempVars, jobVars
  <2>2. QED  BY <2>1, JobsStay, LeaseStays
<1>2. CASE CommandNext
  BY <1>2, CommandBreaks DEF Ledger!Next
<1>3. CASE BootNext
  BY <1>3, BootOpens DEF Ledger!Next
<1>4. CASE Exit
  BY <1>4, ExitCrashes DEF Ledger!Next
<1>5. CASE ReconcileNext
  BY <1>5, JudgeBreaks DEF Ledger!Next
<1>6. CASE JobNext
  BY <1>6, JobLeases DEF Ledger!Next
<1>7. QED  BY <1>1, <1>2, <1>3, <1>4, <1>5, <1>6 DEF Next

(* What a step of Lease does to a lease that somebody has broken into. *)
LEMMA BrokenIsHeld ==
    ASSUME TaintHeld, Ledger!Next \/ UNCHANGED Ledger!leaseVars PROVE TaintHeld'
<1>1. Holders = [w \in Worker |-> Holders[w]]
  BY LeaseDomains
<1>2. CASE \E S \in SUBSET Worker : Ledger!Break(S)
  BY <1>2 DEF Ledger!Break, TaintHeld
<1>3. ASSUME NEW j \in Job, NEW w \in Worker, Ledger!Acquire(j, w) PROVE TaintHeld'
  BY <1>1, <1>3 DEF Ledger!Acquire, TaintHeld
<1>4. ASSUME NEW j \in Job, NEW w \in Worker, Ledger!Release(j, w) PROVE TaintHeld'
  <2>1. \A v \in Worker : Holders'[v] = IF v = w THEN Holders[w] \ {j} ELSE Holders[v]
    BY <1>1, <1>4 DEF Ledger!Release
  <2>2. /\ j \in Holders[w]
        /\ tainted' = IF Holders[w] = {j} THEN tainted \ {w} ELSE tainted
    BY <1>4 DEF Ledger!Release
  <2>3. Holders[w] \ {j} = {} => w \notin tainted'
    BY <2>2
  <2>4. QED  BY <2>1, <2>2, <2>3 DEF TaintHeld
<1>5. CASE \/ Ledger!Crash \/ Ledger!Open \/ UNCHANGED Ledger!leaseVars
           \/ \E c \in 1..MaxListeners : Ledger!Lose(c)
           \/ \E j \in Job : \/ \E c \in 1..MaxListeners : Ledger!Rent(j, c)
                             \/ Ledger!Return(j)
  BY <1>5 DEF Ledger!Crash, Ledger!Open, Ledger!Lose, Ledger!Rent, Ledger!Return, Ledger!leaseVars,
              Ledger!sharedVars, TaintHeld
<1>6. QED  BY <1>2, <1>3, <1>4, <1>5 DEF Ledger!Next

(* Fleet implements Lease: a worker is leased to one dispatch until a       *)
(* command or reconcile writes its row, a container is rented by the one    *)
(* dispatch that made it, and both are given back, lost with the server, or *)
(* refused by Docker (dispatch.go, reconcile.go, disposable.go).            *)
THEOREM FleetIsLease == Spec => ImplementsLease
<1>1. Init => Ledger!Init /\ TaintHeld
  <2> SUFFICES ASSUME Init PROVE Ledger!Init /\ TaintHeld
    OBVIOUS
  <2>1. \A j \in Job : ~Owns(j) /\ \A w \in Worker : ~Holds(j, w)
    BY DEF Init, Owns, Holds
  <2>2. (\A w \in Worker : Holders[w] = {}) /\ (\A j \in Job : Rented[j] = 0)
    BY <2>1, LeaseRow
  <2>3. Holders = [w \in Worker |-> {}] /\ Rented = [j \in Job |-> 0]
    BY <2>2, LeaseDomains
  <2>4. QED  BY <2>3 DEF Init, Ledger!Init, TaintHeld
<1>2. IInv /\ TaintHeld /\ [Next]_vars => [Ledger!Next]_(Ledger!leaseVars)
  BY LeaseStep
<1>3. TaintHeld /\ [Ledger!Next]_(Ledger!leaseVars) => TaintHeld'
  BY BrokenIsHeld
<1>4. QED
  BY <1>1, <1>2, <1>3, Initially, Inductive, PTL DEF Spec, ImplementsLease, Ledger!Spec
=============================================================================
