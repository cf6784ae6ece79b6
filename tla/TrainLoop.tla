----------------------------- MODULE TrainLoop -----------------------------
(***************************************************************************)
(* The training loop of src/tts/train_rl.py and src/tts/train_sft.py: the  *)
(* global batch counter, the checkpoints, and a job that is killed and     *)
(* launched again on the same log_path.                                    *)
(*                                                                         *)
(* The weights are the sequence of batches they have been trained on, each *)
(* with the learning rate it was trained at, as a multiple of the smallest *)
(* positive one.  A batch without datums (RL) goes through the loop like   *)
(* any other.  The shuffle of an epoch depends on its number only, so      *)
(* <<epoch, batch>> names the same examples in every launch.               *)
(***************************************************************************)
EXTENDS Integers, Sequences, SequencesExt

CONSTANTS
  Modes,       \* the jobs considered: sft (train_sft.py, else train_rl.py)
               \* and augment (augment_with_prefixes)
  NumEpochs, BatchSize, SaveEvery, EvalEvery,
  BaseSize,    \* trajectories in the dataset
  Splittable,  \* those of at least two steps
  MaxLaunches, \* bound: times the job is launched
  Nothing      \* no value

ASSUME TrainAssumption ==
  /\ Modes \subseteq [sft : BOOLEAN, augment : BOOLEAN]
  /\ NumEpochs \in Nat /\ BatchSize \in Nat \ {0}
  /\ SaveEvery \in Nat /\ EvalEvery \in Nat \ {0}
  /\ BaseSize \in Nat /\ BatchSize <= BaseSize
  /\ Splittable \in 0..BaseSize
  /\ MaxLaunches \in Nat \ {0}
  /\ Nothing \notin Nat

VARIABLES
  mode,     \* what this job is, in all its launches
  launches, \* times the job was launched
  pos,      \* position in the body of the loop, or "down", "done"
  start,    \* start_batch
  idx,      \* global_batch_idx
  epoch, batch, \* loop variables, batch = batch_in_epoch
  weights,  \* the training client's weights
  sampling, \* number of batches behind the sampling client's weights, or Nothing
  ckpts,    \* checkpoints.jsonl
  logged    \* metrics.jsonl

loop == <<start, idx, epoch, batch>>
trainVars == <<mode, launches, pos, loop, weights, sampling, ckpts, logged>>

\* _sample_training_trajectories adds one prefix of every trajectory that has
\* one; the remainder of the division is dropped.
EpochSize == BaseSize + (IF mode.sft /\ mode.augment THEN Splittable ELSE 0)

BatchesPerEpoch == EpochSize \div BatchSize

TotalEstimate == NumEpochs * (BaseSize \div BatchSize)

\* lr_mult, in units of 1 / TotalEstimate; constant in RL.
Rate == IF ~mode.sft THEN 1
        ELSE IF idx < TotalEstimate THEN TotalEstimate - idx ELSE 0

TrainInit ==
  /\ mode \in Modes
  /\ launches = 0 /\ pos = "down"
  /\ start = 0 /\ idx = 0 /\ epoch = 0 /\ batch = 0
  /\ weights = << >> /\ sampling = Nothing
  /\ ckpts = << >> /\ logged = << >>

Latest == Last(ckpts)

ResumeBatch_NextBatch == IF ckpts = << >> THEN 0 ELSE Latest.batch + 1

\* get_last_checkpoint
ResumeBatch == IF ckpts = << >> THEN 0 ELSE Latest.batch

\* create_training_client_from_state_with_optimizer on the last checkpoint, or a
\* new adapter
Restored == IF ckpts = << >> THEN << >> ELSE Latest.weights

\* main() up to the loop: weights and optimizer from the last checkpoint, and
\* global_batch_idx = start_batch; the epochs begin again.
Launch ==
  /\ pos \in {"down", "done"}
  /\ launches < MaxLaunches
  /\ launches' = launches + 1
  /\ weights' = Restored
  /\ start' = ResumeBatch
  /\ idx' = ResumeBatch
  /\ epoch' = 0 /\ batch' = 0
  /\ sampling' = Nothing
  /\ pos' = "top"
  /\ UNCHANGED <<mode, ckpts, logged>>

InLoop_OneShort == epoch + 1 < NumEpochs

InLoop == epoch < NumEpochs

\* The two for loops.
NextBatch ==
  IF batch + 1 < BatchesPerEpoch THEN batch' = batch + 1 /\ UNCHANGED epoch
  ELSE batch' = 0 /\ epoch' = epoch + 1

DueSave_Never == FALSE

DueSave == SaveEvery > 0 /\ idx > 0 /\ idx % SaveEvery = 0

Checkpoint == [batch |-> idx, weights |-> weights]

\* The top of the body: a batch before start_batch is passed over, otherwise
\* the checkpoint, which is due before the batch's own step.
BeginBatch ==
  /\ pos = "top" /\ InLoop
  /\ IF idx < start
     THEN /\ idx' = idx + 1 /\ NextBatch
          /\ UNCHANGED <<pos, ckpts>>
     ELSE /\ pos' = IF mode.sft THEN "step" ELSE "snapshot"
          /\ ckpts' = IF DueSave THEN Append(ckpts, Checkpoint) ELSE ckpts
          /\ UNCHANGED <<idx, epoch, batch>>
  /\ UNCHANGED <<mode, launches, start, weights, sampling, logged>>

\* save_weights_and_get_sampling_client: evaluation, rollout and scoring of
\* this batch all use this snapshot.
Snapshot ==
  /\ pos = "snapshot"
  /\ sampling' = Len(weights)
  /\ pos' = "step"
  /\ UNCHANGED <<mode, launches, loop, weights, ckpts, logged>>

\* forward_backward and optim_step, or no datums.
GradientStep ==
  /\ pos = "step"
  /\ weights' = Append(weights, [at |-> <<epoch, batch>>, rate |-> Rate])
  /\ pos' = "log"
  /\ UNCHANGED <<mode, launches, loop, sampling, ckpts, logged>>

EvalDue == ~mode.sft /\ idx % EvalEvery = 0

Evaluated_Updated == IF EvalDue THEN Len(weights) ELSE Nothing

\* The weights eval/reward_mean of this batch was measured with.
Evaluated == IF EvalDue THEN sampling ELSE Nothing

\* log_metrics and global_batch_idx += 1
FinishBatch ==
  /\ pos = "log"
  /\ logged' = Append(logged, [step |-> idx, eval |-> Evaluated])
  /\ idx' = idx + 1
  /\ NextBatch
  /\ pos' = "top"
  /\ UNCHANGED <<mode, launches, start, weights, sampling, ckpts>>

\* The checkpoint "final" after the loops.
SaveFinal ==
  /\ pos = "top" /\ ~InLoop
  /\ ckpts' = Append(ckpts, Checkpoint)
  /\ pos' = "done"
  /\ UNCHANGED <<mode, launches, loop, weights, sampling, logged>>

\* The job hits its time limit, a node fails, or an exception of the server
\* or of the scoring pool ends it.
Crash ==
  /\ pos \notin {"down", "done"}
  /\ launches < MaxLaunches
  /\ pos' = "down"
  /\ UNCHANGED <<mode, launches, loop, weights, sampling, ckpts, logged>>

Body == BeginBatch \/ Snapshot \/ GradientStep \/ FinishBatch \/ SaveFinal

TrainNext == Launch \/ Body \/ Crash

TrainSpec == TrainInit /\ [][TrainNext]_trainVars

-----------------------------------------------------------------------------
(* Properties *)

Positions == {"down", "top", "snapshot", "step", "log", "done"}

Steps == [at : Nat \X Nat, rate : Nat]

TypeOK ==
  /\ mode \in Modes /\ launches \in 0..MaxLaunches
  /\ pos \in Positions
  /\ start \in Nat /\ idx \in Nat /\ epoch \in Nat /\ batch \in Nat
  /\ weights \in Seq(Steps)
  /\ sampling \in Nat \union {Nothing}
  /\ ckpts \in Seq([batch : Nat, weights : Seq(Steps)])
  /\ logged \in Seq([step : Nat, eval : Nat \union {Nothing}])

\* loop_state["batch"] of every checkpoint is the number of batches in its
\* weights, through any crashes and resumes.
CheckpointCounts == \A c \in ToSet(ckpts) : Len(c.weights) = c.batch

\* Wherever a launch stops, however many have gone down before it, the weights
\* that the next one restores are those of this one less its last gradient
\* steps, save_every of them at most.  (What the next launch then trains on is
\* another matter: it begins with the first batch again.)
FewUpdatesUndone ==
  pos \notin {"down", "done"} /\ SaveEvery > 0 =>
    /\ IsPrefix(Restored, weights)
    /\ Len(weights) - Len(Restored) <= SaveEvery

\* The eval curve: the value logged at step n is that of "weights after
\* global_batch_idx updates", also after a resume.
EvalMatchesStep == \A l \in ToSet(logged) : l.eval \in {Nothing, l.step}

\* A launch that finishes leaves weights trained on every batch of every epoch,
\* and, as far as the estimate of their number goes that the learning rate
\* falls with, none of them at rate zero.  (Past the estimate, with
\* augmentation or after a resume, every step is.)
Covered ==
  pos = "done" =>
    \A e \in 0..(NumEpochs - 1), b \in 0..(BatchesPerEpoch - 1) :
      \E i \in DOMAIN weights : /\ weights[i].at = <<e, b>>
                                /\ i <= TotalEstimate => weights[i].rate > 0
=============================================================================
