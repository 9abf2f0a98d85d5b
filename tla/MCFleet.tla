------------------------------ MODULE MCFleet ------------------------------
(* Values for TLC. *)
EXTENDS Fleet, TLC

CONSTANTS s, c1, j1, j2

MCProcess == {s, c1}
MCCommand == {c1}
MCJob == {j1, j2}

Symmetry == Permutations(MCJob)

(* What no action reads any more is not told apart: the copy of the table   *)
(* of a process that has ended, which is overwritten when the next starts,  *)
(* and the busy flags of listeners that are gone, whose numbers are not     *)
(* used again.  The properties do not speak of either.                      *)
Running(p) == IF p = Serve THEN serve # "down" ELSE cmd[p] # Off
NoCopy == [w \in Worker |-> Absent]
View == <<[p \in Process |-> IF Running(p) THEN cache[p] ELSE NoCopy],
          row, kind, cmd, launched, dockerVars, tempVars, bootVars, reconcileVars,
          pc, on, at, busyAt \cap Live, stale, tainted, faults>>

(* A database that has only seen `worker add'. *)
AddedSpec == Init /\ row = [w \in Worker |-> Fresh] /\ [][Next]_vars
=============================================================================
