------------------------------- MODULE MCServe -------------------------------
(* Instances of Serve for TLC.  All tasks of an instance have one worker. *)
EXTENDS ServeClaims, TLC

CONSTANTS w1,  \* a persistent worker
          d1   \* a disposable worker

OnPersistent == [t \in Task |-> w1]
OnDisposable == [t \in Task |-> d1]

JobSymmetry  == Permutations(Job)
FullSymmetry == Permutations(Job) \cup Permutations(Task)
=============================================================================
