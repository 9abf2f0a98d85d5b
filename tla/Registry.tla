------------------------------ MODULE Registry ------------------------------
(***************************************************************************)
(* The workers table and the copies of it that processes work on           *)
(* (internal/workers: registry.go, registry_helpers.go, persist.go).       *)
(*                                                                         *)
(* Every process that opens the database, the server and each `mecha       *)
(* worker' command, loads the table into a Registry of its own.  A method  *)
(* checks the process's copy, never the table, and writes back the whole   *)
(* entry (or the whole table) it has computed from that copy.              *)
(***************************************************************************)
EXTENDS Naturals

CONSTANTS Worker,   \* names
          Process   \* holders of a Registry

VARIABLES row,      \* the table: row[w]
          cache     \* Registry.entries of each process: cache[p][w]

registryVars == <<row, cache>>

-----------------------------------------------------------------------------
WorkerState == {"offline", "online", "busy", "error"}

(* cid: ContainerID, ep: RuntimeEndpoint.  Both name the listener they lead *)
(* to by a number, 0 for the empty string.                                  *)
Entry == [state : WorkerState \cup {"absent"}, cid : Nat, ep : Nat]
Absent == [state |-> "absent", cid |-> 0, ep |-> 0]
Fresh == [Absent EXCEPT !.state = "offline"]

(* NewRegistry, Reload: one SELECT, then the copy is replaced. *)
Load(p) == cache' = [cache EXCEPT ![p] = row] /\ UNCHANGED row

(* persist: all rows of the copy are written, all others deleted. *)
Persist(p, entries) == /\ row' = entries
                       /\ cache' = [cache EXCEPT ![p] = entries]

Add(p, w) == /\ cache[p][w] = Absent
             /\ Persist(p, [cache[p] EXCEPT ![w] = Fresh])

Remove(p, w) == /\ cache[p][w].state = "offline"
                /\ Persist(p, [cache[p] EXCEPT ![w] = Absent])

(* A variant: an upsert, as in persist. *)
Upsert(p, w, e) == /\ row' = [row EXCEPT ![w] = e]
                   /\ cache' = [cache EXCEPT ![p][w] = e]

(* A variant: the copy is changed even if the statement fails. *)
MutateCopyFirst(p, w, e) ==
    /\ row' \in {row, IF row[w] = Absent THEN row ELSE [row EXCEPT ![w] = e]}
    /\ cache' = [cache EXCEPT ![p][w] = e]

(* mutateEntry, persistEntry: an UPDATE by name, which does not look at how *)
(* many rows it has changed.                                                *)
Mutate(p, w, e) ==
    /\ row' = IF row[w] = Absent THEN row ELSE [row EXCEPT ![w] = e]
    /\ cache' = [cache EXCEPT ![p][w] = e]

-----------------------------------------------------------------------------
(* The methods that change one entry, by name: the states each accepts ... *)
From == [Start        |-> {"offline"},
         Stop         |-> {"online", "error"},
         SetError     |-> WorkerState,
         SetRuntime   |-> WorkerState,
         StopRuntime  |-> WorkerState \ {"busy"},
         ClearRuntime |-> WorkerState \ {"busy"},
         Recover      |-> {"error"},
         SetBusy      |-> {"online"},
         SetOnline    |-> {"busy"}]

(* ... the state it leads to ... *)
To == [Start      |-> "online",  Stop        |-> "offline", SetError     |-> "error",
       SetRuntime |-> "online",  StopRuntime |-> "offline", ClearRuntime |-> "offline",
       Recover    |-> "online",  SetBusy     |-> "busy",    SetOnline    |-> "online"]

(* ... and what it makes of the runtime fields (id, at: the arguments of    *)
(* SetRuntime).                                                             *)
After(m, e, id, at) ==
    [state |-> To[m],
     cid   |-> IF m = "SetRuntime" THEN id
               ELSE IF m = "ClearRuntime" THEN 0 ELSE e.cid,
     ep    |-> IF m = "SetRuntime" THEN at
               ELSE IF m \in {"StopRuntime", "ClearRuntime"} THEN 0 ELSE e.ep]

Accepts(p, w, m) == cache[p][w].state \in From[m]

Call(p, w, m, id, at) == /\ Accepts(p, w, m)
                         /\ Mutate(p, w, After(m, cache[p][w], id, at))

-----------------------------------------------------------------------------
RegistryTypeOK == /\ row \in [Worker -> Entry]
                  /\ cache \in [Process -> [Worker -> Entry]]
=============================================================================
