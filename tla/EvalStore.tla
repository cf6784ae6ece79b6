----------------------------- MODULE EvalStore -----------------------------
(***************************************************************************)
(* What an evaluation promises of its predictions: every instance is run   *)
(* by at most one thread at a time, a run replaces the entry of its own    *)
(* instance in one step and touches no other, or raises and leaves it as  *)
(* it is, the entries taken out by clean_failed_runs go together while     *)
(* nothing runs, and a crash loses entries only by breaking the whole      *)
(* store, which then stays broken and starts no run.  EvalRun implements   *)
(* it with a file that threads read, change and rewrite.                   *)
(***************************************************************************)
CONSTANTS Instances, Patches

VARIABLES
  store,   \* instance -> patch, for the instances that have a prediction
  running, \* instances being run
  broken

vars == <<store, running, broken>>

Init == /\ store = [i \in {} |-> ""]
        /\ running = {}
        /\ broken = FALSE

\* A run begins ...
Begin(i) == /\ ~broken /\ i \notin running
            /\ running' = running \union {i}
            /\ UNCHANGED <<store, broken>>

\* ... takes the old prediction away ...
Clear(i) == /\ i \in running
            /\ store' = [j \in DOMAIN store \ {i} |-> store[j]]
            /\ UNCHANGED <<running, broken>>

\* ... and leaves a new one.
Record(i, patch) ==
  /\ i \in running
  /\ store' = [j \in DOMAIN store \union {i} |->
                 IF j = i THEN patch ELSE store[j]]
  /\ running' = running \ {i}
  /\ UNCHANGED broken

\* A run that raises ends without one.
Abandon(i) == /\ i \in running
              /\ running' = running \ {i}
              /\ UNCHANGED <<store, broken>>

\* Entries are taken out together, while nothing runs.
Drop(gone) == /\ running = {}
              /\ store' = [j \in DOMAIN store \ gone |-> store[j]]
              /\ UNCHANGED <<running, broken>>

Crash == /\ running' = {}
         /\ broken' \in {broken, TRUE}
         /\ UNCHANGED store

Next == \/ \E i \in Instances : Begin(i) \/ Clear(i) \/ Abandon(i)
        \/ \E i \in Instances, patch \in Patches : Record(i, patch)
        \/ \E gone \in SUBSET Instances : Drop(gone)
        \/ Crash

Spec == Init /\ [][Next]_vars
=============================================================================
