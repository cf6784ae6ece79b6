----------------------------- MODULE MCTraining -----------------------------
(***************************************************************************)
(* Training in one run: every behaviour is one of the loop over batches    *)
(* and launches (TrainLoop) or of one batch of rollouts (RolloutBatch),    *)
(* and "what" says which.                                                  *)
(***************************************************************************)
EXTENDS TrainLoop, RolloutBatch

\* Reinforcement learning, and supervised training with and without prefixes.
MCModes == {[sft |-> FALSE, augment |-> FALSE],
            [sft |-> TRUE,  augment |-> FALSE],
            [sft |-> TRUE,  augment |-> TRUE]}

\* Two trajectories with a pair of samples each, one with a group of three.
SmallBatches == {[trajs |-> 2, group |-> 2], [trajs |-> 1, group |-> 3]}

\* Rewards are negative fidelities, 0 would be perfect.
ThreeRewards == {-3, -2, 0}

VARIABLE what \* rigid: "loop" or "batch"

TrainingInit == what \in {"loop", "batch"} /\ TrainInit /\ Init

TrainingNext ==
  /\ UNCHANGED what
  /\ \/ what = "loop" /\ TrainNext /\ UNCHANGED vars
     \/ what = "batch" /\ Next /\ UNCHANGED trainVars

\* The fairness is that of the batch, and so is the liveness that is checked:
\* of the other part no behaviour is fair, and only its safety is checked.
TrainingSpec ==
  /\ TrainingInit
  /\ [][TrainingNext]_<<what, trainVars, vars>>
  /\ Fairness
=============================================================================
