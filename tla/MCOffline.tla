----------------------------- MODULE MCOffline -----------------------------
(***************************************************************************)
(* The offline jobs that write one file after another and are started      *)
(* again: every behaviour is one of the collection of trajectories         *)
(* (Collect) or one of the sharded sweep (Sweep), and "what" says which.   *)
(***************************************************************************)
EXTENDS Collect, Sweep, TLC

\* A trajectory that never reaches the window, a curve of two turns, one of one.
MCTurns == (1 :> {}) @@ (2 :> {4, 5}) @@ (3 :> {5})

VARIABLE what \* rigid: "collect" or "sweep"

OfflineInit == what \in {"collect", "sweep"} /\ Init /\ SweepInit

OfflineNext ==
  /\ UNCHANGED what
  /\ \/ what = "collect" /\ Next /\ UNCHANGED sweepVars
     \/ what = "sweep" /\ SweepNext /\ UNCHANGED vars

\* The fairness is that of the sweep, and so is the liveness that is checked:
\* of the other part no behaviour is fair, and only its safety is checked.
OfflineSpec ==
  /\ OfflineInit
  /\ [][OfflineNext]_<<what, vars, sweepVars>>
  /\ Fairness
=============================================================================
