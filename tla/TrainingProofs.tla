--------------------------- MODULE TrainingProofs ---------------------------
(***************************************************************************)
(* Proofs about training.                                                  *)
(*                                                                         *)
(* TrainLoop: whatever the sizes and however often the job goes down,      *)
(* checkpoints and the eval curve agree with the batch counter, a relaunch *)
(* restores the weights less a few updates, and a launch that finishes has *)
(* seen everything.                                                        *)
(*                                                                         *)
(* RolloutBatch: for any prompts, groups, failures and orders in which the *)
(* scoring pool answers, a batch trains only on samples that were scored,  *)
(* none of them twice, and an advantage is the snapped reward less the     *)
(* mean over the scored samples of its own trajectory.                     *)
(***************************************************************************)
EXTENDS TrainLoop, RolloutBatch, FiniteFacts, SequenceTheorems

(* The loops *)

\* The batches in the live weights, by position in the loop body.
CounterInStep ==
  /\ pos \in {"top", "snapshot", "step"} => Len(weights) = idx
  /\ pos = "log" => Len(weights) = idx + 1

\* The snapshot of the batch under way was taken before its gradient step.
SnapshotInStep ==
  pos \in {"step", "log"} /\ ~mode.sft => sampling = idx

\* The guard that should pass over the batches before start_batch never does.
StartReached == start <= idx

IInv == TypeOK /\ StartReached /\ CounterInStep /\ SnapshotInStep /\ CheckpointCounts
               /\ EvalMatchesStep

-----------------------------------------------------------------------------

\* The learning rate is a natural number of units.
LEMMA RateNat == ASSUME idx \in Nat PROVE Rate \in Nat
<1>1. TotalEstimate \in Nat
  <2>1. BaseSize \div BatchSize \in Nat
    BY TrainAssumption
  <2>2. \A m, n \in Nat : m * n \in Nat
    OBVIOUS
  <2> QED BY <2>1, <2>2, TrainAssumption DEF TotalEstimate
<1> QED BY <1>1 DEF Rate

\* What a launch starts from is what some checkpoint holds, or nothing.
LEMMA ResumeInStep ==
  ASSUME TypeOK, CheckpointCounts
  PROVE  /\ ResumeBatch \in Nat
         /\ Restored \in Seq(Steps)
         /\ Len(Restored) = ResumeBatch
<1>1. CASE ckpts = << >>
  BY <1>1 DEF ResumeBatch, Restored
<1>2. CASE ckpts # << >>
  <2> DEFINE n == Len(ckpts)
  <2>1. n \in DOMAIN ckpts /\ n \in 1..Len(ckpts)
    BY <1>2 DEF TypeOK
  <2>2. Latest = ckpts[n] /\ Latest \in ToSet(ckpts)
    BY <2>1 DEF Latest, Last, ToSet
  <2>3. Latest \in [batch : Nat, weights : Seq(Steps)]
    <3>1. ckpts \in Seq([batch : Nat, weights : Seq(Steps)])
      BY DEF TypeOK
    <3>2. ckpts[n] \in [batch : Nat, weights : Seq(Steps)]
      BY <3>1, <2>1, ElementOfSeq
    <3> QED BY <3>2, <2>2
  <2> QED BY <1>2, <2>2, <2>3 DEF ResumeBatch, Restored, CheckpointCounts
<1> QED BY <1>1, <1>2

\* What a sequence holds after Append.
LEMMA AppendToSet ==
  ASSUME NEW S, NEW s \in Seq(S), NEW x
  PROVE  \A y \in ToSet(Append(s, x)) : y = x \/ y \in ToSet(s)
<1> SUFFICES ASSUME NEW i \in DOMAIN Append(s, x)
             PROVE  Append(s, x)[i] = x \/ Append(s, x)[i] \in ToSet(s)
  BY DEF ToSet
<1>1. i \in 1..(Len(s) + 1)
  OBVIOUS
<1>2. CASE i = Len(s) + 1
  BY <1>2
<1>3. CASE i \in 1..Len(s)
  BY <1>3 DEF ToSet
<1> QED BY <1>1, <1>2, <1>3

\* A checkpoint taken while the counter is in step counts its batches.
LEMMA SaveInStep ==
  ASSUME IInv, pos = "top", ckpts' = Append(ckpts, Checkpoint)
  PROVE  /\ ckpts' \in Seq([batch : Nat, weights : Seq(Steps)])
         /\ CheckpointCounts'
<1>1. Len(weights) = idx
  BY DEF IInv, CounterInStep
<1>2. Checkpoint \in [batch : Nat, weights : Seq(Steps)]
  BY DEF IInv, TypeOK, Checkpoint
<1>3. ckpts' \in Seq([batch : Nat, weights : Seq(Steps)])
  BY <1>2 DEF IInv, TypeOK
<1>4. \A c \in ToSet(ckpts') : c = Checkpoint \/ c \in ToSet(ckpts)
  BY AppendToSet DEF IInv, TypeOK
<1>5. Len(Checkpoint.weights) = Checkpoint.batch
  BY <1>1 DEF Checkpoint
<1>6. CheckpointCounts'
  BY <1>4, <1>5 DEF IInv, CheckpointCounts
<1> QED BY <1>3, <1>6

-----------------------------------------------------------------------------

LEMMA InitIInv == TrainInit => IInv
<1> SUFFICES ASSUME TrainInit PROVE IInv
  OBVIOUS
<1>1. TypeOK
  BY TrainAssumption DEF TrainInit, TypeOK, Positions
<1>2. StartReached /\ CounterInStep /\ SnapshotInStep
  BY DEF TrainInit, StartReached, CounterInStep, SnapshotInStep
<1>3. CheckpointCounts /\ EvalMatchesStep
  BY DEF TrainInit, CheckpointCounts, EvalMatchesStep, ToSet
<1> QED BY <1>1, <1>2, <1>3 DEF IInv

LEMMA NextIInv == IInv /\ [TrainNext]_trainVars => IInv'
<1> SUFFICES ASSUME IInv, [TrainNext]_trainVars PROVE IInv'
  OBVIOUS
<1>1. CASE Launch
  <2>1. /\ ResumeBatch \in Nat
        /\ weights' \in Seq(Steps)
        /\ Len(weights') = ResumeBatch
    BY <1>1, ResumeInStep DEF Launch, IInv
  <2>2. TypeOK'
    BY <1>1, <2>1, TrainAssumption DEF Launch, TypeOK, Positions, IInv
  <2>3. StartReached' /\ CounterInStep' /\ SnapshotInStep'
    BY <1>1, <2>1 DEF Launch, StartReached, CounterInStep, SnapshotInStep
  <2>4. CheckpointCounts' /\ EvalMatchesStep'
    BY <1>1 DEF Launch, CheckpointCounts, EvalMatchesStep, IInv
  <2> QED BY <2>2, <2>3, <2>4 DEF IInv
<1>2. CASE BeginBatch
  <2>1. ~(idx < start)
    BY DEF IInv, StartReached, TypeOK
  <2>2. /\ pos = "top"
        /\ pos' = IF mode.sft THEN "step" ELSE "snapshot"
        /\ ckpts' = IF DueSave THEN Append(ckpts, Checkpoint) ELSE ckpts
        /\ UNCHANGED <<mode, idx, epoch, batch, launches, start, weights,
                       sampling, logged>>
    BY <1>2, <2>1 DEF BeginBatch
  <2>3. /\ ckpts' \in Seq([batch : Nat, weights : Seq(Steps)])
        /\ CheckpointCounts'
    BY <2>2, SaveInStep DEF IInv, TypeOK, CheckpointCounts
  <2>4. TypeOK'
    BY <2>2, <2>3 DEF TypeOK, Positions, IInv
  <2>5. StartReached' /\ CounterInStep' /\ SnapshotInStep'
    BY <2>2 DEF StartReached, CounterInStep, SnapshotInStep, IInv
  <2>6. EvalMatchesStep'
    BY <2>2 DEF EvalMatchesStep, IInv
  <2> QED BY <2>3, <2>4, <2>5, <2>6 DEF IInv
<1>3. CASE Snapshot
  <2>1. TypeOK'
    BY <1>3 DEF Snapshot, loop, TypeOK, Positions, IInv
  <2>2. StartReached' /\ CounterInStep' /\ SnapshotInStep'
    BY <1>3 DEF Snapshot, loop, StartReached, CounterInStep, SnapshotInStep, IInv
  <2>3. CheckpointCounts' /\ EvalMatchesStep'
    BY <1>3 DEF Snapshot, CheckpointCounts, EvalMatchesStep, IInv
  <2> QED BY <2>1, <2>2, <2>3 DEF IInv
<1>4. CASE GradientStep
  <2>1. [at |-> <<epoch, batch>>, rate |-> Rate] \in Steps
    BY RateNat DEF Steps, TypeOK, IInv
  <2>2. weights' \in Seq(Steps) /\ Len(weights') = Len(weights) + 1
    BY <1>4, <2>1 DEF GradientStep, TypeOK, IInv
  <2>3. TypeOK'
    BY <1>4, <2>2 DEF GradientStep, loop, TypeOK, Positions, IInv
  <2>4. StartReached' /\ CounterInStep' /\ SnapshotInStep'
    BY <1>4, <2>2 DEF GradientStep, loop, StartReached, CounterInStep,
                      SnapshotInStep, IInv
  <2>5. CheckpointCounts' /\ EvalMatchesStep'
    BY <1>4 DEF GradientStep, CheckpointCounts, EvalMatchesStep, IInv
  <2> QED BY <2>3, <2>4, <2>5 DEF IInv
<1>5. CASE FinishBatch
  <2> DEFINE entry == [step |-> idx, eval |-> Evaluated]
  <2>1. Evaluated \in {Nothing, idx}
    BY <1>5 DEF FinishBatch, Evaluated, EvalDue, SnapshotInStep, IInv
  <2>2. entry \in [step : Nat, eval : Nat \union {Nothing}]
    BY <2>1 DEF TypeOK, IInv
  <2>3. logged' \in Seq([step : Nat, eval : Nat \union {Nothing}])
    BY <1>5, <2>2 DEF FinishBatch, TypeOK, IInv
  <2>4. epoch' \in Nat /\ batch' \in Nat
    BY <1>5 DEF FinishBatch, NextBatch, TypeOK, IInv
  <2>5. TypeOK'
    BY <1>5, <2>3, <2>4 DEF FinishBatch, TypeOK, Positions, IInv
  <2>6. StartReached' /\ CounterInStep' /\ SnapshotInStep'
    BY <1>5 DEF FinishBatch, StartReached, CounterInStep, SnapshotInStep,
                TypeOK, IInv
  <2>7. CheckpointCounts'
    BY <1>5 DEF FinishBatch, CheckpointCounts, IInv
  <2>8. \A l \in ToSet(logged') : l = entry \/ l \in ToSet(logged)
    BY <1>5, AppendToSet DEF FinishBatch, TypeOK, IInv
  <2>9. EvalMatchesStep'
    BY <2>1, <2>8 DEF EvalMatchesStep, IInv
  <2> QED BY <2>5, <2>6, <2>7, <2>9 DEF IInv
<1>6. CASE SaveFinal
  <2>1. /\ ckpts' \in Seq([batch : Nat, weights : Seq(Steps)])
        /\ CheckpointCounts'
    BY <1>6, SaveInStep DEF SaveFinal
  <2>2. TypeOK'
    BY <1>6, <2>1 DEF SaveFinal, loop, TypeOK, Positions, IInv
  <2>3. StartReached' /\ CounterInStep' /\ SnapshotInStep' /\ EvalMatchesStep'
    BY <1>6 DEF SaveFinal, loop, StartReached, CounterInStep, SnapshotInStep,
                EvalMatchesStep, IInv
  <2> QED BY <2>1, <2>2, <2>3 DEF IInv
<1>7. CASE Crash
  <2>1. TypeOK'
    BY <1>7 DEF Crash, loop, TypeOK, Positions, IInv
  <2>2. StartReached' /\ CounterInStep' /\ SnapshotInStep'
    BY <1>7 DEF Crash, loop, StartReached, CounterInStep, SnapshotInStep, IInv
  <2>3. CheckpointCounts' /\ EvalMatchesStep'
    BY <1>7 DEF Crash, CheckpointCounts, EvalMatchesStep, IInv
  <2> QED BY <2>1, <2>2, <2>3 DEF IInv
<1>8. CASE UNCHANGED trainVars
  BY <1>8 DEF trainVars, loop, IInv, TypeOK, StartReached, CounterInStep,
              SnapshotInStep, CheckpointCounts, EvalMatchesStep
<1> QED BY <1>1, <1>2, <1>3, <1>4, <1>5, <1>6, <1>7, <1>8 DEF TrainNext, Body

\* The inductive invariant holds in every reachable state.
THEOREM LoopInvariant == TrainSpec => []IInv
BY InitIInv, NextIInv, PTL DEF TrainSpec

\* loop_state["batch"] of every checkpoint that save_checkpoint writes is the
\* number of batches its weights have been trained on.
THEOREM CheckpointsCount == TrainSpec => []CheckpointCounts
<1>1. IInv => CheckpointCounts
  BY DEF IInv
<1> QED BY <1>1, LoopInvariant, PTL

\* The eval metrics logged at a step are those of the weights before that
\* batch's gradient step, after as many batches as the step's number.
THEOREM EvalCurve == TrainSpec => []EvalMatchesStep
<1>1. IInv => EvalMatchesStep
  BY DEF IInv
<1> QED BY <1>1, LoopInvariant, PTL

\* The skip of the batches before start_batch is never taken: a resumed job
\* begins at the first batch of the first epoch.
THEOREM NeverSkips == TrainSpec => [](start <= idx)
<1>1. IInv => start <= idx
  BY DEF IInv, StartReached
<1> QED BY <1>1, LoopInvariant, PTL

-----------------------------------------------------------------------------
(* What a crash undoes *)

\* Two divisions by the same number that give the same sum.
LEMMA SameRest ==
  ASSUME NEW s \in Nat \ {0}, NEW a \in Int, NEW b \in 0..(s - 1),
         NEW c \in Int, NEW d \in 0..(s - 1), s * a + b = s * c + d
  PROVE  b = d
<1>1. s * (a - c) = d - b
  OBVIOUS
<1>2. CASE a - c >= 1
  <2>1. s * (a - c) >= s
    BY <1>2
  <2> QED BY <2>1, <1>1
<1>3. CASE a - c <= -1
  <2>1. s * (a - c) <= -s
    BY <1>3
  <2> QED BY <2>1, <1>1
<1>4. CASE a = c
  BY <1>4
<1> QED BY <1>2, <1>3, <1>4

\* Between two multiples of s the rest of a division by s grows with the
\* number.
LEMMA RestGrows ==
  ASSUME NEW s \in Nat \ {0}, NEW x \in Nat \ {0}, x % s # 0
  PROVE  x % s = ((x - 1) % s) + 1
<1> DEFINE q == (x - 1) \div s
           r == (x - 1) % s
           p == x \div s
           t == x % s
<1>1. q \in Int /\ r \in 0..(s - 1) /\ x - 1 = s * q + r
  OBVIOUS
<1>2. p \in Int /\ t \in 0..(s - 1) /\ x = s * p + t
  OBVIOUS
<1> HIDE DEF q, r, p, t
<1>3. CASE r + 1 = s
  <2>1. x = s * (q + 1) + 0
    BY <1>1, <1>3
  <2>2. q + 1 \in Int /\ 0 \in 0..(s - 1) /\ s * p + t = s * (q + 1) + 0
    BY <1>1, <1>2, <2>1
  <2>3. t = 0
    BY <2>2, <1>2, SameRest
  <2> QED BY <2>3 DEF t
<1>4. CASE r + 1 < s
  <2>1. s * p + t = s * q + (r + 1) /\ r + 1 \in 0..(s - 1)
    BY <1>1, <1>2, <1>4
  <2>2. t = r + 1
    BY <2>1, <1>1, <1>2, SameRest
  <2> QED BY <2>2 DEF t, r
<1> QED BY <1>1, <1>3, <1>4

\* The last batch at which a checkpoint was due, at or before batch n.
LastDue(n) == n - (n % SaveEvery)

\* A resume goes back no further than to the last checkpoint that was due: at
\* the top of the body the one of the batch before, later the one of this.
WorkKept ==
  pos \notin {"down", "done"} /\ SaveEvery > 0 =>
    IF pos = "top"
    THEN idx > ResumeBatch => ResumeBatch >= LastDue(idx - 1)
    ELSE ResumeBatch >= LastDue(idx)

\* A relaunch restores what was saved last.
LEMMA SavedLast ==
  ASSUME IInv, ckpts' = Append(ckpts, Checkpoint)
  PROVE  ResumeBatch' = idx /\ Restored' = weights
<1>1. /\ Checkpoint \in [batch : Nat, weights : Seq(Steps)]
      /\ Checkpoint.batch = idx /\ Checkpoint.weights = weights
  BY DEF IInv, TypeOK, Checkpoint
<1>2. ckpts' # << >> /\ ckpts'[Len(ckpts')] = Checkpoint
  <2>1. ckpts \in Seq([batch : Nat, weights : Seq(Steps)])
    BY DEF IInv, TypeOK
  <2>2. Len(Append(ckpts, Checkpoint)) = Len(ckpts) + 1
    BY <2>1, <1>1
  <2>3. Append(ckpts, Checkpoint)[Len(ckpts) + 1] = Checkpoint
    BY <2>1, <1>1
  <2>4. Len(ckpts) \in Nat
    BY <2>1
  <2>5. Append(ckpts, Checkpoint) # << >>
    BY <2>2, <2>4
  <2> QED BY <2>2, <2>3, <2>5
<1> QED BY <1>1, <1>2 DEF ResumeBatch, Restored, Latest, Last

LEMMA NextWorkKept ==
  ASSUME IInv, WorkKept, [TrainNext]_trainVars
  PROVE  WorkKept'
<1>1. CASE Launch
  <2>1. ResumeBatch \in Nat /\ ResumeBatch' = ResumeBatch /\ idx' = ResumeBatch
    BY <1>1, ResumeInStep DEF Launch, ResumeBatch, Latest, IInv
  <2> QED BY <1>1, <2>1 DEF Launch, WorkKept
<1>2. CASE BeginBatch
  <2>1. ~(idx < start)
    BY DEF IInv, StartReached, TypeOK
  <2>2. /\ pos = "top" /\ pos' \in {"step", "snapshot"}
        /\ ckpts' = IF DueSave THEN Append(ckpts, Checkpoint) ELSE ckpts
        /\ idx' = idx
    BY <1>2, <2>1 DEF BeginBatch
  <2> SUFFICES ASSUME SaveEvery > 0
               PROVE  ResumeBatch' >= LastDue(idx)
    BY <2>2 DEF WorkKept, LastDue
  <2>3. idx \in Nat /\ SaveEvery \in Nat \ {0} /\ ResumeBatch \in Nat
    BY TrainAssumption, ResumeInStep DEF IInv, TypeOK
  <2>4. idx % SaveEvery \in 0..(SaveEvery - 1) /\ LastDue(idx) <= idx
    BY <2>3 DEF LastDue
  <2>5. CASE DueSave
    <3>1. ResumeBatch' = idx
      BY <2>2, <2>5, SavedLast
    <3> QED BY <3>1, <2>3, <2>4 DEF LastDue
  <2>6. CASE ~DueSave /\ idx <= ResumeBatch
    <3>1. ResumeBatch' = ResumeBatch
      BY <2>2, <2>6 DEF ResumeBatch, Latest
    <3> QED BY <3>1, <2>3, <2>4, <2>6 DEF LastDue
  <2>7. CASE ~DueSave /\ idx > ResumeBatch
    <3>1. ResumeBatch' = ResumeBatch
      BY <2>2, <2>7 DEF ResumeBatch, Latest
    <3>2. idx \in Nat \ {0} /\ idx % SaveEvery # 0
      BY <2>3, <2>7 DEF DueSave
    <3>3. idx % SaveEvery = ((idx - 1) % SaveEvery) + 1
      BY <2>3, <3>2, RestGrows
    <3>4. (idx - 1) % SaveEvery \in Nat
      BY <2>3, <3>2
    <3>5. LastDue(idx) = LastDue(idx - 1)
      BY <2>3, <3>3, <3>4 DEF LastDue
    <3> QED BY <3>1, <3>5, <2>2, <2>7 DEF WorkKept
  <2> QED BY <2>3, <2>5, <2>6, <2>7
<1>3. CASE Snapshot \/ GradientStep
  BY <1>3 DEF Snapshot, GradientStep, loop, WorkKept, ResumeBatch, Latest, LastDue
<1>4. CASE FinishBatch
  <2>1. idx \in Nat /\ idx' - 1 = idx
    BY <1>4 DEF FinishBatch, IInv, TypeOK
  <2>2. SaveEvery > 0 => ResumeBatch' >= LastDue(idx)
    BY <1>4 DEF FinishBatch, WorkKept, ResumeBatch, Latest
  <2> QED BY <1>4, <2>1, <2>2 DEF FinishBatch, WorkKept, LastDue
<1>5. CASE SaveFinal \/ Crash
  BY <1>5 DEF SaveFinal, Crash, WorkKept
<1>6. CASE UNCHANGED trainVars
  BY <1>6 DEF trainVars, loop, WorkKept, ResumeBatch, Latest, LastDue
<1> QED BY <1>1, <1>2, <1>3, <1>4, <1>5, <1>6 DEF TrainNext, Body

\* The live weights begin with those that a relaunch restores.
BeginsRestored ==
  /\ Len(Restored) <= Len(weights)
  /\ \A i \in DOMAIN Restored : weights[i] = Restored[i]

\* The same, as the community modules say it.
LEMMA StepsPrefix ==
  ASSUME NEW s \in Seq(Steps), NEW w \in Seq(Steps), Len(s) <= Len(w),
         \A i \in DOMAIN s : w[i] = s[i]
  PROVE  IsPrefix(s, w)
<1>1. SubSeq(s, 1, Len(s)) = SubSeq(w, 1, Len(s))
  OBVIOUS
<1> QED BY <1>1 DEF IsPrefix

LEMMA NextBeginsRestored ==
  ASSUME IInv, BeginsRestored, [TrainNext]_trainVars
  PROVE  BeginsRestored'
<1>0. Restored \in Seq(Steps) /\ weights \in Seq(Steps)
  BY ResumeInStep DEF IInv, TypeOK
<1>1. CASE Launch
  <2>1. weights' = Restored /\ Restored' = Restored
    BY <1>1 DEF Launch, Restored, Latest
  <2> QED BY <1>0, <2>1 DEF BeginsRestored
<1>2. CASE BeginBatch \/ SaveFinal
  <2>1. weights' = weights /\ ckpts' \in {ckpts, Append(ckpts, Checkpoint)}
    BY <1>2 DEF BeginBatch, SaveFinal
  <2>2. CASE ckpts' = Append(ckpts, Checkpoint)
    BY <1>0, <2>1, <2>2, SavedLast DEF BeginsRestored
  <2>3. CASE ckpts' = ckpts
    BY <2>1, <2>3 DEF BeginsRestored, Restored, Latest
  <2> QED BY <2>1, <2>2, <2>3
<1>3. CASE GradientStep
  <2> DEFINE new == [at |-> <<epoch, batch>>, rate |-> Rate]
  <2>1. new \in Steps
    BY RateNat DEF Steps, TypeOK, IInv
  <2>2. weights' = Append(weights, new) /\ Restored' = Restored
    BY <1>3 DEF GradientStep, Restored, Latest
  <2>3. /\ Len(weights') = Len(weights) + 1
        /\ \A i \in 1..Len(weights) : weights'[i] = weights[i]
    BY <1>0, <2>1, <2>2
  <2>4. DOMAIN Restored = 1..Len(Restored) /\ Len(Restored) \in Nat /\ Len(weights) \in Nat
    BY <1>0
  <2> QED BY <2>2, <2>3, <2>4 DEF BeginsRestored
<1>4. CASE Snapshot \/ FinishBatch \/ Crash \/ UNCHANGED trainVars
  BY <1>4 DEF Snapshot, FinishBatch, Crash, trainVars, BeginsRestored, Restored, Latest
<1> QED BY <1>1, <1>2, <1>3, <1>4 DEF TrainNext, Body

\* FewUpdatesUndone: wherever a launch stops, the weights that the next one
\* restores are its own less the last save_every gradient steps at most, for all
\* sizes and however many launches have gone down before.
THEOREM LittleUndone == TrainSpec => []FewUpdatesUndone
<1>1. TrainInit => WorkKept /\ BeginsRestored
  BY DEF TrainInit, WorkKept, BeginsRestored, Restored
<1>2. ASSUME IInv, BeginsRestored
      PROVE  IsPrefix(Restored, weights)
  BY <1>2, ResumeInStep, StepsPrefix DEF IInv, TypeOK, BeginsRestored
<1>3. ASSUME IInv, WorkKept, pos \notin {"down", "done"}, SaveEvery > 0
      PROVE  Len(weights) - Len(Restored) <= SaveEvery
  <2>1. /\ idx \in Nat /\ SaveEvery \in Nat \ {0}
        /\ ResumeBatch \in Nat /\ Len(Restored) = ResumeBatch
    BY <1>3, TrainAssumption, ResumeInStep DEF IInv, TypeOK
  <2>2. CASE pos = "top"
    <3>1. Len(weights) = idx
      BY <1>3, <2>2 DEF IInv, CounterInStep
    <3>2. CASE idx <= ResumeBatch
      BY <2>1, <3>1, <3>2
    <3>3. CASE idx > ResumeBatch
      <4>1. (idx - 1) % SaveEvery \in 0..(SaveEvery - 1)
        BY <2>1, <3>3
      <4>2. ResumeBatch >= (idx - 1) - ((idx - 1) % SaveEvery)
        BY <1>3, <2>2, <3>3 DEF WorkKept, LastDue
      <4> QED BY <2>1, <3>1, <4>1, <4>2
    <3> QED BY <2>1, <3>2, <3>3
  <2>3. CASE pos # "top"
    <3>1. Len(weights) \in {idx, idx + 1}
      BY <1>3, <2>3 DEF IInv, CounterInStep, TypeOK, Positions
    <3>2. idx % SaveEvery \in 0..(SaveEvery - 1)
      BY <2>1
    <3>3. ResumeBatch >= idx - (idx % SaveEvery)
      BY <1>3, <2>3 DEF WorkKept, LastDue
    <3> QED BY <2>1, <3>1, <3>2, <3>3
  <2> QED BY <2>2, <2>3
<1>4. IInv /\ WorkKept /\ BeginsRestored => FewUpdatesUndone
  BY <1>2, <1>3 DEF FewUpdatesUndone
<1> QED BY <1>1, <1>4, NextWorkKept, NextBeginsRestored, LoopInvariant, PTL DEF TrainSpec

-----------------------------------------------------------------------------
(* What a finished launch has seen *)

\* A dataset of at least one batch has one in every epoch.
LEMMA SomeBatch == BatchesPerEpoch \in Nat \ {0}
<1>1. EpochSize \in Nat /\ EpochSize >= BatchSize /\ BatchSize \in Nat \ {0}
  BY TrainAssumption DEF EpochSize
<1> DEFINE q == EpochSize \div BatchSize
           r == EpochSize % BatchSize
<1>2. q \in Int /\ r \in 0..(BatchSize - 1) /\ EpochSize = BatchSize * q + r
  BY <1>1
<1> HIDE DEF q, r
<1>3. CASE q <= 0
  <2>1. BatchSize * q <= 0
    BY <1>1, <1>2, <1>3
  <2> QED BY <2>1, <1>1, <1>2
<1>4. CASE q >= 1
  BY <1>2, <1>4 DEF q, BatchesPerEpoch
<1> QED BY <1>2, <1>3, <1>4

\* As far as the estimate goes, no batch was trained on at rate zero.
Positive(w) == \A i \in DOMAIN w : i <= TotalEstimate => w[i].rate > 0

RateInv == Positive(weights) /\ \A c \in ToSet(ckpts) : Positive(c.weights)

Trained(e, b) == \E i \in DOMAIN weights : weights[i].at = <<e, b>>

\* Before the place of the loops in this launch, every batch was trained on.
TakenInv ==
  /\ batch \in 0..(BatchesPerEpoch - 1)
  /\ pos = "done" => ~InLoop
  /\ pos # "down" =>
       \A e \in Nat, b \in 0..(BatchesPerEpoch - 1) :
         \/ e < epoch
         \/ e = epoch /\ b < batch
         \/ e = epoch /\ b = batch /\ pos = "log"
         => Trained(e, b)

LEMMA NextRate ==
  ASSUME IInv, RateInv, [TrainNext]_trainVars
  PROVE  RateInv'
<1>1. CASE Launch
  <2>1. CASE ckpts = << >>
    BY <1>1, <2>1 DEF Launch, Restored, RateInv, Positive
  <2>2. CASE ckpts # << >>
    <3>1. Len(ckpts) \in DOMAIN ckpts
      BY <2>2 DEF IInv, TypeOK
    <3>2. Latest \in ToSet(ckpts)
      BY <3>1 DEF Latest, Last, ToSet
    <3> QED BY <1>1, <2>2, <3>2 DEF Launch, Restored, RateInv, Positive
  <2> QED BY <2>1, <2>2
<1>2. CASE BeginBatch \/ SaveFinal
  <2>1. UNCHANGED weights /\ ckpts' \in {ckpts, Append(ckpts, Checkpoint)}
    BY <1>2 DEF BeginBatch, SaveFinal
  <2>2. \A c \in ToSet(Append(ckpts, Checkpoint)) : c = Checkpoint \/ c \in ToSet(ckpts)
    BY AppendToSet DEF IInv, TypeOK
  <2>3. Checkpoint.weights = weights
    BY DEF Checkpoint
  <2> QED BY <2>1, <2>2, <2>3 DEF RateInv, Positive
<1>3. CASE GradientStep
  <2> DEFINE new == [at |-> <<epoch, batch>>, rate |-> Rate]
  <2>1. new \in Steps /\ weights \in Seq(Steps) /\ idx \in Nat
    BY RateNat DEF Steps, TypeOK, IInv
  <2>2. weights' = Append(weights, new) /\ ckpts' = ckpts
    BY <1>3 DEF GradientStep
  <2>3. Len(weights) = idx
    BY <1>3 DEF GradientStep, IInv, CounterInStep
  <2>4. TotalEstimate \in Int
    BY TrainAssumption DEF TotalEstimate
  <2>5. idx + 1 <= TotalEstimate => new.rate > 0
    BY <2>1, <2>4 DEF Rate
  <2>6. ASSUME NEW i \in DOMAIN weights', i <= TotalEstimate
        PROVE  weights'[i].rate > 0
    <3> HIDE DEF new
    <3>1. i \in 1..(idx + 1)
      BY <2>1, <2>2, <2>3
    <3>2. CASE i = idx + 1
      BY <2>1, <2>2, <2>3, <2>5, <2>6, <3>2
    <3>3. CASE i \in 1..idx
      <4>1. weights'[i] = weights[i] /\ i \in DOMAIN weights
        BY <2>1, <2>2, <2>3, <3>3
      <4> QED BY <2>6, <4>1 DEF RateInv, Positive
    <3> QED BY <2>1, <3>1, <3>2, <3>3
  <2>7. Positive(weights)'
    BY <2>6 DEF Positive, TotalEstimate
  <2> QED BY <2>2, <2>7 DEF RateInv, Positive
<1>4. CASE Snapshot \/ FinishBatch \/ Crash
  BY <1>4 DEF Snapshot, FinishBatch, Crash, RateInv, Positive
<1>5. CASE UNCHANGED trainVars
  BY <1>5 DEF trainVars, RateInv, Positive
<1> QED BY <1>1, <1>2, <1>3, <1>4, <1>5 DEF TrainNext, Body

\* A batch that was trained on stays so while the job runs.
LEMMA TrainedStays ==
  ASSUME NEW e, NEW b, Trained(e, b),
         \A i \in DOMAIN weights : i \in DOMAIN weights' /\ weights'[i] = weights[i]
  PROVE  Trained(e, b)'
BY DEF Trained

LEMMA NextTaken ==
  ASSUME IInv, TakenInv, [TrainNext]_trainVars
  PROVE  TakenInv'
<1> DEFINE n == BatchesPerEpoch
<1>1. n \in Nat \ {0} /\ epoch \in Nat /\ batch \in 0..(n - 1)
  BY SomeBatch DEF IInv, TypeOK, TakenInv
<1>2. BatchesPerEpoch' = n
  <2>1. mode' = mode
    BY DEF TrainNext, Body, trainVars, Launch, BeginBatch, Snapshot, GradientStep,
           FinishBatch, SaveFinal, Crash
  <2> QED BY <2>1 DEF BatchesPerEpoch, EpochSize
<1> HIDE DEF n
<1>3. CASE Launch
  BY <1>1, <1>2, <1>3 DEF Launch, TakenInv
<1>4. CASE BeginBatch
  <2>1. ~(idx < start)
    BY DEF IInv, StartReached, TypeOK
  <2>2. /\ pos = "top" /\ pos' \in {"step", "snapshot"}
        /\ UNCHANGED <<epoch, batch, weights>>
    BY <1>4, <2>1 DEF BeginBatch
  <2> QED BY <1>1, <1>2, <2>2 DEF TakenInv, Trained, n
<1>5. CASE Snapshot
  BY <1>1, <1>2, <1>5 DEF Snapshot, loop, TakenInv, Trained, n
<1>6. CASE GradientStep
  <2> DEFINE new == [at |-> <<epoch, batch>>, rate |-> Rate]
  <2>1. new \in Steps /\ weights \in Seq(Steps) /\ new.at = <<epoch, batch>>
    BY RateNat DEF Steps, TypeOK, IInv
  <2>2. /\ weights' = Append(weights, new) /\ pos = "step" /\ pos' = "log"
        /\ UNCHANGED <<epoch, batch>>
    BY <1>6 DEF GradientStep, loop
  <2> HIDE DEF new
  <2>3. \A i \in DOMAIN weights : i \in DOMAIN weights' /\ weights'[i] = weights[i]
    BY <2>1, <2>2
  <2>4. /\ Len(weights) + 1 \in DOMAIN weights'
        /\ weights'[Len(weights) + 1] = new
    BY <2>1, <2>2
  <2>5. Trained(epoch, batch)'
    BY <2>1, <2>2, <2>4 DEF Trained
  <2>6. ASSUME NEW e \in Nat, NEW b \in 0..(n - 1),
               e < epoch \/ (e = epoch /\ b < batch) \/ (e = epoch /\ b = batch)
        PROVE  Trained(e, b)'
    <3>1. CASE e = epoch /\ b = batch
      BY <2>2, <2>5, <3>1 DEF Trained
    <3>2. CASE e < epoch \/ (e = epoch /\ b < batch)
      <4>1. Trained(e, b)
        BY <2>2, <2>6, <3>2 DEF TakenInv, n
      <4> QED BY <2>3, <4>1, TrainedStays
    <3> QED BY <2>6, <3>1, <3>2
  <2> QED BY <1>1, <1>2, <2>2, <2>6 DEF TakenInv
<1>7. CASE FinishBatch
  <2>1. pos = "log" /\ pos' = "top" /\ weights' = weights /\ NextBatch
    BY <1>7 DEF FinishBatch
  <2>2. \A e, b : Trained(e, b)' <=> Trained(e, b)
    BY <2>1 DEF Trained
  <2>3. \A e \in Nat, b \in 0..(n - 1) :
          e < epoch \/ (e = epoch /\ b <= batch) => Trained(e, b)
    <3> SUFFICES ASSUME NEW e \in Nat, NEW b \in 0..(n - 1),
                        e < epoch \/ (e = epoch /\ b <= batch)
                 PROVE  Trained(e, b)
      OBVIOUS
    <3>1. e < epoch \/ (e = epoch /\ b < batch) \/ (e = epoch /\ b = batch)
      BY <1>1
    <3> QED BY <2>1, <3>1 DEF TakenInv, n
  <2>4. CASE batch + 1 < n
    <3>1. batch' = batch + 1 /\ epoch' = epoch
      BY <2>1, <2>4 DEF NextBatch, n
    <3>2. \A b \in 0..(n - 1) : b < batch + 1 => b <= batch
      BY <1>1
    <3>3. batch' \in 0..(n - 1)
      BY <1>1, <2>4, <3>1
    <3> QED BY <1>2, <2>1, <2>2, <2>3, <3>1, <3>2, <3>3 DEF TakenInv
  <2>5. CASE ~(batch + 1 < n)
    <3>1. batch' = 0 /\ epoch' = epoch + 1
      BY <2>1, <2>5 DEF NextBatch, n
    <3>2. \A b \in 0..(n - 1) : b <= batch /\ ~(b < 0)
      BY <1>1, <2>5
    <3>3. \A e \in Nat : e < epoch + 1 => e < epoch \/ e = epoch
      BY <1>1
    <3>4. 0 \in 0..(n - 1)
      BY <1>1
    <3> QED BY <1>2, <2>1, <2>2, <2>3, <3>1, <3>2, <3>3, <3>4 DEF TakenInv
  <2> QED BY <2>4, <2>5
<1>8. CASE SaveFinal
  <2>1. /\ pos = "top" /\ ~InLoop /\ pos' = "done"
        /\ UNCHANGED <<epoch, batch, weights>>
    BY <1>8 DEF SaveFinal, loop
  <2> QED BY <1>1, <1>2, <2>1 DEF TakenInv, Trained, InLoop, n
<1>9. CASE Crash
  BY <1>1, <1>2, <1>9 DEF Crash, loop, TakenInv, n
<1>10. CASE UNCHANGED trainVars
  BY <1>1, <1>2, <1>10 DEF trainVars, loop, TakenInv, Trained, InLoop, n
<1> QED BY <1>3, <1>4, <1>5, <1>6, <1>7, <1>8, <1>9, <1>10 DEF TrainNext, Body

\* A launch that finishes has trained on every batch of every epoch, and none
\* of the first TotalEstimate of them, by number, at rate zero.
THEOREM EverythingSeen == TrainSpec => []Covered
<1>1. TrainInit => RateInv /\ TakenInv
  <2> SUFFICES ASSUME TrainInit PROVE RateInv /\ TakenInv
    OBVIOUS
  <2>1. batch \in 0..(BatchesPerEpoch - 1)
    BY SomeBatch DEF TrainInit
  <2> QED BY <2>1 DEF TrainInit, RateInv, Positive, TakenInv, ToSet
<1>2. IInv /\ RateInv /\ TakenInv => Covered
  <2> SUFFICES ASSUME IInv, RateInv, TakenInv, pos = "done",
                      NEW e \in 0..(NumEpochs - 1), NEW b \in 0..(BatchesPerEpoch - 1)
               PROVE  \E i \in DOMAIN weights :
                        /\ weights[i].at = <<e, b>>
                        /\ i <= TotalEstimate => weights[i].rate > 0
    BY DEF Covered
  <2>1. e \in Nat /\ e < epoch
    BY TrainAssumption DEF IInv, TypeOK, TakenInv, InLoop
  <2>2. Trained(e, b)
    BY <2>1 DEF TakenInv
  <2> QED BY <2>2 DEF Trained, RateInv, Positive
<1> QED BY <1>1, <1>2, NextRate, NextTaken, LoopInvariant, PTL DEF TrainSpec

-----------------------------------------------------------------------------
(* One batch *)

-----------------------------------------------------------------------------
(* What the operators of the batch compute *)

Entries == Seq(Samples \X (Rewards \union {None}))

\* The entries of one trajectory: typed, no sample twice.
EntriesOf(t) ==
  /\ scored[t] \in Entries
  /\ \A i, j \in DOMAIN scored[t] : scored[t][i][1] = scored[t][j][1] => i = j

LEMMA SnappedInt == \A r \in Int : Snapped(r) \in Int
BY RolloutAssumption DEF Snapped, Rounded

LEMMA GroupFacts ==
  ASSUME NEW e \in Entries
  PROVE  /\ IsFiniteSet(Group(e)) /\ Cardinality(Group(e)) \in Nat
         /\ Group(e) \subseteq Nat
         /\ \A i \in Group(e) : /\ e[i][1] \in Samples
                                /\ e[i][2] \in Rewards
                                /\ Reward(e, i) \in Int
<1>1. DOMAIN e = 1..Len(e) /\ Len(e) \in Nat
  BY DEF Entries
<1>2. IsFiniteSet(1..Len(e))
  BY <1>1, FS_Interval
<1>3. IsFiniteSet(Group(e)) /\ Cardinality(Group(e)) \in Nat
  BY <1>1, <1>2, FS_Subset, FS_CardinalityType DEF Group
<1>4. ASSUME NEW i \in Group(e)
      PROVE  e[i][1] \in Samples /\ e[i][2] \in Rewards
  BY DEF Entries, Group
<1>5. \A i \in Group(e) : Reward(e, i) \in Int
  BY <1>4, SnappedInt, RolloutAssumption DEF Reward
<1> QED BY <1>1, <1>3, <1>4, <1>5 DEF Group

\* Every position has a place in the order of the samples.
LEMMA NthFacts ==
  ASSUME NEW e \in Entries, NEW P \in SUBSET Group(e)
  PROVE  /\ IsFiniteSet(P) /\ Cardinality(P) \in Nat
         /\ \A k \in 1..Cardinality(P) : Nth(e, P, k) \in P
         /\ \A k, l \in 1..Cardinality(P) : Nth(e, P, k) = Nth(e, P, l) => k = l
<1> DEFINE n == Cardinality(P)
           Below(i) == { j \in P : Before(e, j, i) }
           rank == [i \in P |-> Cardinality(Below(i)) + 1]
<1>1. IsFiniteSet(P) /\ n \in Nat
  BY GroupFacts, FS_Subset, FS_CardinalityType
<1>2. \A i \in P : i \in Nat /\ e[i][1] \in Nat
  BY GroupFacts DEF Samples
<1>3. \A i \in P : IsFiniteSet(Below(i)) /\ Cardinality(Below(i)) \in Nat
  BY <1>1, FS_Subset, FS_CardinalityType
<1>4. ASSUME NEW i \in P, NEW j \in P, Before(e, i, j) PROVE rank[i] < rank[j]
  <2>1. Below(i) \union {i} \in SUBSET Below(j) /\ i \notin Below(i)
    BY <1>2, <1>4 DEF Before
  <2> HIDE DEF Below
  <2>2. Cardinality(Below(i) \union {i}) = Cardinality(Below(i)) + 1
    BY <1>3, <2>1, FS_AddElement
  <2>3. Cardinality(Below(i) \union {i}) <= Cardinality(Below(j))
    BY <1>3, <2>1, FS_Subset
  <2> QED BY <1>3, <2>2, <2>3
<1>5. \A i, j \in P : i # j => Before(e, i, j) \/ Before(e, j, i)
  BY <1>2 DEF Before
<1>6. \A i \in P : rank[i] \in 1..n
  <2> SUFFICES ASSUME NEW i \in P PROVE Cardinality(Below(i)) + 1 <= n
    BY <1>3
  <2>1. Below(i) \in SUBSET (P \ {i})
    BY <1>2 DEF Before
  <2> HIDE DEF Below
  <2>2. IsFiniteSet(P \ {i}) /\ Cardinality(P \ {i}) = n - 1
    BY <1>1, FS_RemoveElement
  <2>3. Cardinality(Below(i)) <= n - 1
    BY <2>1, <2>2, FS_Subset
  <2> QED BY <1>1, <1>3, <2>3
<1>7. \A i, j \in P : rank[i] = rank[j] => i = j
  <2> SUFFICES ASSUME NEW i \in P, NEW j \in P, rank[i] = rank[j], i # j PROVE FALSE
    OBVIOUS
  <2>1. rank[i] < rank[j] \/ rank[j] < rank[i]
    BY <1>4, <1>5
  <2>2. rank[i] \in Nat /\ rank[j] \in Nat
    BY <1>6
  <2> HIDE DEF rank
  <2> QED BY <2>1, <2>2
<1> HIDE DEF Below
<1>8. rank \in Injection(P, 1..n)
  BY <1>6, <1>7 DEF Injection, IsInjective
<1>9. IsFiniteSet(1..n) /\ Cardinality(1..n) = n
  BY <1>1, FS_Interval
<1>10. rank \in Surjection(P, 1..n)
  <2> HIDE DEF rank
  <2> QED BY <1>8, <1>9, FS_Injection
<1>11. \A k \in 1..n : \E i \in P : Cardinality(Below(i)) = k - 1
  <2> SUFFICES ASSUME NEW k \in 1..n PROVE \E i \in P : Cardinality(Below(i)) = k - 1
    OBVIOUS
  <2>1. PICK i \in P : rank[i] = k
    <3> HIDE DEF rank
    <3> QED BY <1>10 DEF Surjection
  <2>2. Cardinality(Below(i)) + 1 = k /\ Cardinality(Below(i)) \in Nat
    BY <1>3, <2>1
  <2> QED BY <2>2
<1>12. \A k \in 1..n : Nth(e, P, k) \in P /\ Cardinality(Below(Nth(e, P, k))) = k - 1
  BY <1>11 DEF Nth, Below
<1>13. \A k, l \in 1..n : Nth(e, P, k) = Nth(e, P, l) => k = l
  <2> SUFFICES ASSUME NEW k \in 1..n, NEW l \in 1..n, Nth(e, P, k) = Nth(e, P, l)
               PROVE  k = l
    OBVIOUS
  <2>1. k - 1 = l - 1
    BY <1>12
  <2> QED BY <1>1, <2>1
<1> QED BY <1>1, <1>12, <1>13

\* The recursion of MapThenSumSet on the rewards of a group.
LEMMA TotalSums ==
  ASSUME NEW e \in Entries
  PROVE  LET g == [i \in Group(e) |-> Reward(e, i)]
         IN  /\ g \in [Group(e) -> Int]
             /\ \E h : Sums(h, g, Group(e)) /\ Total(e) = h[Group(e)]
<1> DEFINE S == Group(e)
           g == [i \in S |-> Reward(e, i)]
           Summed(h) == [T \in SUBSET S |->
                        IF T = {} THEN 0
                        ELSE Reward(e, CHOOSE x \in T : TRUE)
                               + h[T \ {CHOOSE x \in T : TRUE}]]
           sums == CHOOSE h : h = Summed(h)
<1>1. IsFiniteSet(S) /\ g \in [S -> Int]
  BY GroupFacts
<1>2. \A h : Sums(h, g, S) <=> h = Summed(h)
  <2>1. \A T \in SUBSET S : T # {} => g[Pick(T)] = Reward(e, Pick(T))
    BY PickIn
  <2> QED BY <2>1 DEF Sums, Pick
<1>3. \E h : h = Summed(h)
  <2> HIDE DEF Summed, g, S
  <2> QED BY <1>1, <1>2, SumsExist
<1>4. sums = Summed(sums)
  <2> HIDE DEF Summed
  <2> QED BY <1>3
<1>5. Total(e) = sums[S]
  BY DEF Total, MapThenSumSet, MapThenFoldSet
<1> QED BY <1>1, <1>2, <1>4, <1>5

RewardTotal(t, R) == MapThenSumSet(LAMBDA s : Snapped(RewardOf(t, s)), R)

LEMMA RewardSums ==
  ASSUME NEW t, NEW R, IsFiniteSet(R), \A s \in R : Snapped(RewardOf(t, s)) \in Int
  PROVE  LET g == [s \in R |-> Snapped(RewardOf(t, s))]
         IN  \E h : Sums(h, g, R) /\ RewardTotal(t, R) = h[R]
<1> DEFINE g == [s \in R |-> Snapped(RewardOf(t, s))]
           Summed(h) == [T \in SUBSET R |->
                        IF T = {} THEN 0
                        ELSE Snapped(RewardOf(t, CHOOSE x \in T : TRUE))
                               + h[T \ {CHOOSE x \in T : TRUE}]]
           sums == CHOOSE h : h = Summed(h)
<1>1. g \in [R -> Int]
  OBVIOUS
<1>2. \A h : Sums(h, g, R) <=> h = Summed(h)
  <2>1. \A T \in SUBSET R : T # {} => g[Pick(T)] = Snapped(RewardOf(t, Pick(T)))
    BY PickIn
  <2> QED BY <2>1 DEF Sums, Pick
<1>3. \E h : h = Summed(h)
  <2> HIDE DEF Summed, g
  <2> QED BY <1>1, <1>2, SumsExist
<1>4. sums = Summed(sums)
  <2> HIDE DEF Summed
  <2> QED BY <1>3
<1>5. RewardTotal(t, R) = sums[R]
  BY DEF RewardTotal, MapThenSumSet, MapThenFoldSet
<1> QED BY <1>2, <1>4, <1>5

\* The samples of a trajectory that have a reward.
Rewarded(t) == { s \in Samples : RewardOf(t, s) # None }

LEMMA RewardOfEntry ==
  ASSUME NEW t, EntriesOf(t)
  PROVE  /\ \A i \in DOMAIN scored[t] : RewardOf(t, scored[t][i][1]) = scored[t][i][2]
         /\ \A s \in Rewarded(t) : \E i \in Group(scored[t]) : scored[t][i][1] = s
         /\ \A i \in Group(scored[t]) : scored[t][i][1] \in Rewarded(t)
<1>1. ASSUME NEW i \in DOMAIN scored[t] PROVE RewardOf(t, scored[t][i][1]) = scored[t][i][2]
  <2>1. { e \in ToSet(scored[t]) : e[1] = scored[t][i][1] } = { scored[t][i] }
    BY DEF EntriesOf, ToSet
  <2> QED BY <2>1 DEF RewardOf
<1>2. ASSUME NEW s \in Rewarded(t) PROVE \E i \in Group(scored[t]) : scored[t][i][1] = s
  <2>1. PICK e \in ToSet(scored[t]) : e[1] = s
    BY DEF Rewarded, RewardOf
  <2>2. PICK i \in DOMAIN scored[t] : scored[t][i] = e
    BY DEF ToSet
  <2>3. scored[t][i][2] # None
    BY <1>1, <2>1, <2>2 DEF Rewarded
  <2> QED BY <2>1, <2>2, <2>3 DEF Group
<1>3. \A i \in Group(scored[t]) : scored[t][i][1] \in Rewarded(t)
  <2> SUFFICES ASSUME NEW i \in Group(scored[t]) PROVE scored[t][i][1] \in Rewarded(t)
    OBVIOUS
  <2>1. scored[t][i][1] \in Samples
    BY GroupFacts DEF EntriesOf
  <2> QED BY <1>1, <2>1 DEF Rewarded, Group
<1> QED BY <1>1, <1>2, <1>3

\* The advantage of an entry, said of samples.
LEMMA Centred ==
  ASSUME NEW t, EntriesOf(t), NEW i \in Group(scored[t])
  PROVE  Advantage(scored[t], i) =
           Cardinality(Rewarded(t)) * Snapped(RewardOf(t, scored[t][i][1]))
             - RewardTotal(t, Rewarded(t))
<1> DEFINE S == Group(scored[t])
           R == Rewarded(t)
           b == [j \in S |-> scored[t][j][1]]
           g == [j \in S |-> Reward(scored[t], j)]
           k == [s \in R |-> Snapped(RewardOf(t, s))]
<1>1. scored[t] \in Entries
  BY DEF EntriesOf
<1>2. IsFiniteSet(S) /\ \A j \in S : Reward(scored[t], j) \in Int
  BY <1>1, GroupFacts
<1>3. b \in Bijection(S, R)
  <2>1. b \in [S -> R]
    BY RewardOfEntry
  <2>2. \A x, y \in S : b[x] = b[y] => x = y
    BY DEF EntriesOf, Group
  <2>3. \A s \in R : \E j \in S : b[j] = s
    BY RewardOfEntry
  <2> HIDE DEF b
  <2> QED BY <2>1, <2>2, <2>3 DEF Bijection, Injection, Surjection, IsInjective
<1>4. IsFiniteSet(R) /\ Cardinality(R) = Cardinality(S)
  <2> HIDE DEF b, S, R
  <2> QED BY <1>2, <1>3, FS_Bijection DEF ExistsBijection
<1>5. \A j \in S : Snapped(RewardOf(t, scored[t][j][1])) = Reward(scored[t], j)
  BY RewardOfEntry DEF Reward, Group
<1>6. \A s \in R : Snapped(RewardOf(t, s)) \in Int
  BY <1>2, <1>5, RewardOfEntry
<1>7. \A j \in S : k[b[j]] = g[j]
  BY <1>5, RewardOfEntry
<1>8. g \in [S -> Int] /\ k \in [R -> Int]
  BY <1>2, <1>6
<1>9. PICK h : Sums(h, g, S) /\ Total(scored[t]) = h[S]
  BY <1>1, TotalSums
<1>10. PICK l : Sums(l, k, R) /\ RewardTotal(t, R) = l[R]
  BY <1>4, <1>6, RewardSums
<1>11. h[S] = l[R]
  <2> HIDE DEF b, S, R, g, k
  <2> QED BY <1>2, <1>3, <1>4, <1>7, <1>8, <1>9, <1>10, SumsRenamed
<1> QED BY <1>4, <1>5, <1>9, <1>10, <1>11 DEF Advantage

-----------------------------------------------------------------------------
(* The invariant *)

Phases == {"precompute", "collect", "score", "assemble", "done", "down"}

BatchTyped ==
  /\ size \in [trajs : Nat \ {0}, group : Nat \ {0}]
  /\ phase \in Phases /\ turn \in Nat \ {0}
  /\ future \in [Trajs -> Answers]
  /\ finite \in [Trajs -> SUBSET Samples]
  /\ items \subseteq Trajs \X Samples
  /\ DOMAIN scored = Trajs
  /\ datums \in Seq([traj : Trajs, sample : Samples, advantage : Int])

\* A sample is scored once: its work item is gone.
ScoredOnce ==
  /\ \A t \in Trajs : EntriesOf(t)
  /\ \A x \in items : \A i \in DOMAIN scored[x[1]] : scored[x[1]][i][1] # x[2]

\* What is scored was sampled.
OnlySampled ==
  /\ \A x \in items : future[x[1]] = "ok"
  /\ \A t \in Trajs : scored[t] # << >> => future[t] = "ok"

InPhase ==
  /\ phase \in {"precompute", "collect", "down"} => \A t \in Trajs : scored[t] = << >>
  /\ datums # << >> => phase \in {"assemble", "done"}

\* A datum comes from an entry of a trajectory that has been assembled.
FromEntries ==
  \A k \in DOMAIN datums :
    /\ phase = "assemble" => datums[k].traj < turn
    /\ \E i \in Group(scored[datums[k].traj]) :
         Usable(datums[k].traj, i) /\ datums[k] = Datum(datums[k].traj, i)

DatumsOnce ==
  \A j, k \in DOMAIN datums :
    datums[j].traj = datums[k].traj /\ datums[j].sample = datums[k].sample => j = k

BatchInv == BatchTyped /\ ScoredOnce /\ OnlySampled /\ InPhase /\ FromEntries /\ DatumsOnce

\* The datums of one trajectory.
LEMMA DatumsFacts ==
  ASSUME NEW t \in Trajs, EntriesOf(t)
  PROVE  /\ Datums(t) \in Seq([traj : Trajs, sample : Samples, advantage : Int])
         /\ \A k \in DOMAIN Datums(t) :
              \E i \in Group(scored[t]) : Usable(t, i) /\ Datums(t)[k] = Datum(t, i)
         /\ \A j, k \in DOMAIN Datums(t) : Datums(t)[j].sample = Datums(t)[k].sample => j = k
<1> DEFINE kept == { i \in Group(scored[t]) : Usable(t, i) }
           n == Cardinality(kept)
           D == [k \in 1..n |-> Datum(t, Nth(scored[t], kept, k))]
           T == [traj : Trajs, sample : Samples, advantage : Int]
<1>1. scored[t] \in Entries
  BY DEF EntriesOf
<1>2. /\ n \in Nat /\ \A k \in 1..n : Nth(scored[t], kept, k) \in kept
      /\ \A k, l \in 1..n : Nth(scored[t], kept, k) = Nth(scored[t], kept, l) => k = l
  BY <1>1, NthFacts
<1>3. \A i \in Group(scored[t]) : Datum(t, i) \in T
  <2> SUFFICES ASSUME NEW i \in Group(scored[t]) PROVE Datum(t, i) \in T
    OBVIOUS
  <2>1. scored[t][i][1] \in Samples
    BY <1>1, GroupFacts
  <2>2. Advantage(scored[t], i) \in Int
    <3>1. Total(scored[t]) \in Int
      <4> DEFINE g == [j \in Group(scored[t]) |-> Reward(scored[t], j)]
      <4>1. PICK h : Sums(h, g, Group(scored[t])) /\ Total(scored[t]) = h[Group(scored[t])]
        BY <1>1, TotalSums
      <4>2. IsFiniteSet(Group(scored[t])) /\ g \in [Group(scored[t]) -> Int]
        BY <1>1, GroupFacts
      <4> HIDE DEF g
      <4> QED BY <4>1, <4>2, SumsInt
    <3> QED BY <1>1, <3>1, GroupFacts DEF Advantage
  <2> QED BY <2>1, <2>2 DEF Datum
<1>4. CASE Informative(scored[t])
  <2>1. Datums(t) = D
    BY <1>4 DEF Datums
  <2>2. D \in [1..n -> T]
    BY <1>2, <1>3
  <2>3. D \in Seq(T) /\ DOMAIN D = 1..n
    <3>1. n \in Nat
      BY <1>2
    <3> HIDE DEF D, n, T
    <3> QED BY <2>2, <3>1
  <2>4. \A k \in 1..n : \E i \in Group(scored[t]) : Usable(t, i) /\ D[k] = Datum(t, i)
    BY <1>2
  <2>5. \A j, k \in 1..n : D[j].sample = D[k].sample => j = k
    <3> SUFFICES ASSUME NEW j \in 1..n, NEW k \in 1..n, D[j].sample = D[k].sample
                 PROVE  j = k
      OBVIOUS
    <3>1. scored[t][Nth(scored[t], kept, j)][1] = scored[t][Nth(scored[t], kept, k)][1]
      BY DEF Datum
    <3>2. Nth(scored[t], kept, j) = Nth(scored[t], kept, k)
      BY <1>2, <3>1 DEF EntriesOf, Group
    <3> QED BY <1>2, <3>2
  <2> HIDE DEF D
  <2> QED BY <2>1, <2>3, <2>4, <2>5
<1>5. CASE ~Informative(scored[t])
  <2>1. Datums(t) = << >>
    BY <1>5 DEF Datums
  <2> QED BY <2>1
<1> QED BY <1>4, <1>5

LEMMA DatumTyped ==
  ASSUME BatchTyped, NEW k \in DOMAIN datums
  PROVE  datums[k].traj \in Trajs
<1> DEFINE T == [traj : Trajs, sample : Samples, advantage : Int]
<1>1. datums[k] \in T
  <2>1. datums \in Seq(T)
    BY DEF BatchTyped
  <2> HIDE DEF T
  <2> QED BY <2>1
<1> QED BY <1>1

LEMMA BatchStarts == Init => BatchInv
<1> SUFFICES ASSUME Init PROVE BatchInv
  OBVIOUS
<1> USE RolloutAssumption DEF Init
<1>1. BatchTyped
  BY DEF BatchTyped, Phases, Answers
<1>2. \A t \in Trajs : scored[t] = << >>
  OBVIOUS
<1>3. << >> \in Entries
  BY DEF Entries
<1>4. ScoredOnce
  BY <1>2, <1>3 DEF ScoredOnce, EntriesOf
<1>5. OnlySampled /\ InPhase
  BY <1>2 DEF OnlySampled, InPhase
<1>6. FromEntries /\ DatumsOnce
  BY DEF FromEntries, DatumsOnce
<1> QED BY <1>1, <1>4, <1>5, <1>6 DEF BatchInv

\* What the invariant says of a trajectory depends on its own entries.
LEMMA SameEntries ==
  ASSUME NEW t, size' = size, scored'[t] = scored[t]
  PROVE  /\ EntriesOf(t)' <=> EntriesOf(t)
         /\ \A i : Datum(t, i)' = Datum(t, i)
BY DEF EntriesOf, Entries, Samples, Datum

LEMMA SampledStep ==
  ASSUME BatchInv, NEW t \in Trajs, Sampled(t)
  PROVE  BatchInv'
<1> USE DEF BatchInv
<1>1. /\ UNCHANGED <<size, phase, context, turn, items, scored, datums>>
      /\ future[t] = "pending"
      /\ \A r \in Trajs \ {t} : future'[r] = future[r] /\ finite'[r] = finite[r]
  BY DEF Sampled, BatchTyped
<1>2. Trajs' = Trajs /\ Samples' = Samples
  BY <1>1 DEF Trajs, Samples
<1>3. BatchTyped'
  <2>1. future' \in [Trajs -> Answers]
    BY DEF Sampled, BatchTyped, Answers
  <2>2. finite' \in [Trajs -> SUBSET Samples]
    BY DEF Sampled, BatchTyped
  <2> QED BY <1>1, <1>2, <2>1, <2>2 DEF BatchTyped
<1>4. \A r : /\ EntriesOf(r)' <=> EntriesOf(r)
             /\ \A i : Datum(r, i)' = Datum(r, i)
  BY <1>1, SameEntries
<1>5. ScoredOnce'
  BY <1>1, <1>2, <1>4 DEF ScoredOnce
<1>6. OnlySampled' /\ InPhase'
  BY <1>1, <1>2 DEF OnlySampled, InPhase, BatchTyped
<1>7. FromEntries'
  <2> SUFFICES ASSUME NEW k \in DOMAIN datums
               PROVE  /\ phase = "assemble" => datums[k].traj < turn
                      /\ \E i \in Group(scored[datums[k].traj]) :
                           /\ Usable(datums[k].traj, i)'
                           /\ datums[k] = Datum(datums[k].traj, i)'
    BY <1>1 DEF FromEntries
  <2> DEFINE r == datums[k].traj
  <2>1. PICK i \in Group(scored[r]) : Usable(r, i) /\ datums[k] = Datum(r, i)
    BY DEF FromEntries
  <2>2. r \in Trajs
    BY DatumTyped
  <2>3. scored[r] # << >>
    BY <2>1 DEF Group
  <2>4. r # t
    BY <1>1, <2>2, <2>3 DEF OnlySampled
  <2>5. Usable(r, i)'
    BY <1>1, <2>1, <2>2, <2>4 DEF Usable
  <2>6. phase = "assemble" => r < turn
    BY DEF FromEntries
  <2> QED BY <1>1, <1>4, <2>1, <2>5, <2>6
<1>8. DatumsOnce'
  BY <1>1 DEF DatumsOnce
<1> QED BY <1>3, <1>5, <1>6, <1>7, <1>8

\* A step that leaves samples, entries and datums alone.
LEMMA MainStep ==
  ASSUME BatchInv, UNCHANGED <<size, future, finite, scored, datums>>,
         phase' \in Phases, turn' \in Nat \ {0},
         items' \subseteq items,
         phase' \in {"precompute", "collect", "down"}
           => phase \in {"precompute", "collect", "down"},
         phase \in {"assemble", "done"} => phase' \in {"assemble", "done"},
         phase' = "assemble" => \/ phase = "score"
                                \/ phase = "assemble" /\ turn' = turn
  PROVE  BatchInv'
<1> USE DEF BatchInv
<1>1. Trajs' = Trajs /\ Samples' = Samples
  BY DEF Trajs, Samples
<1>2. BatchTyped'
  BY <1>1 DEF BatchTyped
<1>3. \A r : /\ EntriesOf(r)' <=> EntriesOf(r)
             /\ \A i : Datum(r, i)' = Datum(r, i)
             /\ \A i : Usable(r, i)' <=> Usable(r, i)
  BY SameEntries DEF Usable
<1>4. ScoredOnce' /\ OnlySampled'
  BY <1>1, <1>3 DEF ScoredOnce, OnlySampled
<1>5. InPhase'
  BY <1>1 DEF InPhase
<1>6. FromEntries'
  <2>1. phase' = "assemble" => \A k \in DOMAIN datums : datums[k].traj < turn'
    BY DEF FromEntries, InPhase, BatchTyped
  <2> QED BY <1>3, <2>1 DEF FromEntries
<1>7. DatumsOnce'
  BY DEF DatumsOnce
<1> QED BY <1>2, <1>4, <1>5, <1>6, <1>7

LEMMA CollectedStep ==
  ASSUME BatchInv, Collect
  PROVE  BatchInv'
<1> USE DEF BatchInv
<1>1. /\ UNCHANGED <<size, future, finite, scored, datums>>
      /\ phase' \in {"collect", "down"}
      /\ phase = "collect" /\ turn' = turn + 1 /\ turn \in Trajs
      /\ items' = items \union IF future[turn] = "ok" THEN {turn} \X Samples ELSE {}
  BY DEF Collect, BatchTyped, Trajs
<1>2. Trajs' = Trajs /\ Samples' = Samples
  BY <1>1 DEF Trajs, Samples
<1>3. \A x \in items' : \/ x \in items
                        \/ x \in {turn} \X Samples /\ future[turn] = "ok"
  BY <1>1
<1>4. BatchTyped'
  <2>1. items' \subseteq Trajs \X Samples
    BY <1>1, <1>3 DEF BatchTyped
  <2>2. turn' \in Nat \ {0}
    BY <1>1 DEF BatchTyped
  <2>3. phase' \in Phases
    BY <1>1 DEF Phases
  <2>4. datums' \in Seq([traj : Trajs', sample : Samples', advantage : Int])
    BY <1>1, <1>2 DEF BatchTyped
  <2> QED BY <1>1, <1>2, <2>1, <2>2, <2>3, <2>4 DEF BatchTyped
<1>5. \A r : EntriesOf(r)' <=> EntriesOf(r)
  BY <1>1, SameEntries
<1>6. datums = << >> /\ \A t \in Trajs : scored[t] = << >>
  BY <1>1 DEF InPhase
<1>7. ScoredOnce'
  <2>1. \A x \in items' : scored[x[1]] = << >>
    BY <1>1, <1>3, <1>6 DEF BatchTyped
  <2> QED BY <1>1, <1>2, <1>5, <2>1 DEF ScoredOnce
<1>8. OnlySampled'
  BY <1>1, <1>2, <1>3, <1>6 DEF OnlySampled
<1>9. InPhase'
  BY <1>1, <1>2, <1>6 DEF InPhase
<1>10. FromEntries' /\ DatumsOnce'
  BY <1>1, <1>6 DEF FromEntries, DatumsOnce
<1> QED BY <1>4, <1>7, <1>8, <1>9, <1>10

LEMMA ScoreStep ==
  ASSUME BatchInv, NEW t \in Trajs, NEW s \in Samples, Score(t, s)
  PROVE  BatchInv'
<1> USE DEF BatchInv
<1>1. PICK r \in Rewards \union {None} : scored' = [scored EXCEPT ![t] = Append(@, <<s, r>>)]
  BY DEF Score, Scores
<1>2. /\ UNCHANGED <<size, phase, context, turn, future, finite, datums>>
      /\ phase = "score" /\ <<t, s>> \in items /\ items' = items \ {<<t, s>>}
  BY DEF Score
<1>3. Trajs' = Trajs /\ Samples' = Samples
  BY <1>2 DEF Trajs, Samples
<1>4. /\ scored'[t] = Append(scored[t], <<s, r>>) /\ DOMAIN scored' = Trajs
      /\ \A v \in Trajs \ {t} : scored'[v] = scored[v]
  BY <1>1 DEF BatchTyped
<1>5. BatchTyped'
  BY <1>2, <1>3, <1>4 DEF BatchTyped
<1>6. EntriesOf(t)' /\ \A x \in items' : x[1] = t =>
                         \A i \in DOMAIN scored'[t] : scored'[t][i][1] # x[2]
  <2>0. PICK e : e = scored[t]
    OBVIOUS
  <2>1. /\ e \in Entries /\ \A i, j \in DOMAIN e : e[i][1] = e[j][1] => i = j
        /\ \A i \in DOMAIN e : e[i][1] # s
    BY <1>2, <2>0 DEF ScoredOnce, EntriesOf
  <2>2. /\ Append(e, <<s, r>>) \in Entries
        /\ DOMAIN Append(e, <<s, r>>) = DOMAIN e \union {Len(e) + 1}
        /\ Len(e) + 1 \notin DOMAIN e
        /\ \A i \in DOMAIN e : Append(e, <<s, r>>)[i] = e[i]
        /\ Append(e, <<s, r>>)[Len(e) + 1] = <<s, r>>
    BY <2>1 DEF Entries
  <2>3. Entries' = Entries
    BY <1>3 DEF Entries
  <2>4. EntriesOf(t)'
    BY <1>4, <2>0, <2>1, <2>2, <2>3 DEF EntriesOf
  <2>5. ASSUME NEW x \in items', x[1] = t, NEW i \in DOMAIN scored'[t]
        PROVE  scored'[t][i][1] # x[2]
    <3>1. x \in items /\ x[2] # s
      BY <1>2, <2>5 DEF BatchTyped
    <3>2. \A j \in DOMAIN e : e[j][1] # x[2]
      BY <2>0, <2>5, <3>1 DEF ScoredOnce
    <3> QED BY <1>4, <2>0, <2>2, <3>1, <3>2
  <2> QED BY <2>4, <2>5
<1>7. ScoredOnce'
  <2>1. \A v \in Trajs \ {t} : EntriesOf(v)'
    BY <1>2, <1>4, SameEntries DEF ScoredOnce
  <2>2. ASSUME NEW x \in items', x[1] # t
        PROVE  \A i \in DOMAIN scored'[x[1]] : scored'[x[1]][i][1] # x[2]
    BY <1>2, <1>4, <2>2 DEF ScoredOnce, BatchTyped
  <2> QED BY <1>3, <1>6, <2>1, <2>2 DEF ScoredOnce
<1>8. OnlySampled'
  BY <1>2, <1>3, <1>4 DEF OnlySampled
<1>9. InPhase' /\ datums' = << >>
  BY <1>2 DEF InPhase
<1>10. FromEntries' /\ DatumsOnce'
  BY <1>9 DEF FromEntries, DatumsOnce
<1> QED BY <1>5, <1>7, <1>8, <1>9, <1>10

LEMMA AssembleStep ==
  ASSUME BatchInv, Assemble
  PROVE  BatchInv'
<1> USE DEF BatchInv
<1>1. /\ UNCHANGED <<size, phase, future, context, finite, items, scored>>
      /\ phase = "assemble" /\ turn' = turn + 1 /\ turn \in Trajs
      /\ datums' = datums \o Datums(turn)
  BY DEF Assemble, BatchTyped, Trajs
<1>2. Trajs' = Trajs /\ Samples' = Samples
  BY <1>1 DEF Trajs, Samples
<1> DEFINE T == [traj : Trajs, sample : Samples, advantage : Int]
<1>3. PICK old, new : old = datums /\ new = Datums(turn)
  OBVIOUS
<1>4. /\ old \in Seq(T) /\ new \in Seq(T)
      /\ \A k \in DOMAIN new :
           \E i \in Group(scored[turn]) : Usable(turn, i) /\ new[k] = Datum(turn, i)
      /\ \A j, k \in DOMAIN new : new[j].sample = new[k].sample => j = k
  <2>1. EntriesOf(turn)
    BY <1>1 DEF ScoredOnce
  <2> QED BY <1>1, <1>3, <2>1, DatumsFacts DEF BatchTyped
<1>5. /\ datums' \in Seq(T)
      /\ DOMAIN datums' = 1..(Len(old) + Len(new))
      /\ \A k \in DOMAIN datums' :
           IF k <= Len(old) THEN k \in DOMAIN old /\ datums'[k] = old[k]
           ELSE k - Len(old) \in DOMAIN new /\ datums'[k] = new[k - Len(old)]
  <2> HIDE DEF T
  <2> QED BY <1>1, <1>3, <1>4, ConcatProperties
<1>6. BatchTyped'
  <2>1. turn' \in Nat \ {0}
    BY <1>1 DEF BatchTyped
  <2> QED BY <1>1, <1>2, <1>5, <2>1 DEF BatchTyped
<1>7. \A r : /\ EntriesOf(r)' <=> EntriesOf(r)
             /\ \A i : Datum(r, i)' = Datum(r, i)
             /\ \A i : Usable(r, i)' <=> Usable(r, i)
  BY <1>1, SameEntries DEF Usable
<1>8. ScoredOnce' /\ OnlySampled' /\ InPhase'
  BY <1>1, <1>2, <1>7 DEF ScoredOnce, OnlySampled, InPhase
<1>9. \A k \in DOMAIN old : /\ old[k].traj < turn
                            /\ \E i \in Group(scored[old[k].traj]) :
                                 /\ Usable(old[k].traj, i)
                                 /\ old[k] = Datum(old[k].traj, i)
  BY <1>1, <1>3 DEF FromEntries
<1>10. \A k \in DOMAIN new : new[k].traj = turn
  BY <1>4 DEF Datum
<1>11. \A k \in DOMAIN old : old[k].traj \in Nat
  BY <1>3, DatumTyped DEF Trajs
<1>12. turn \in Nat
  BY DEF BatchTyped
<1>13. FromEntries'
  <2> SUFFICES ASSUME NEW k \in DOMAIN datums'
               PROVE  /\ datums'[k].traj < turn'
                      /\ \E i \in Group(scored[datums'[k].traj]) :
                           /\ Usable(datums'[k].traj, i)
                           /\ datums'[k] = Datum(datums'[k].traj, i)
    BY <1>1, <1>7 DEF FromEntries
  <2>1. CASE k <= Len(old)
    <3>1. k \in DOMAIN old /\ datums'[k] = old[k]
      BY <1>5, <2>1
    <3>2. old[k].traj < turn + 1
      BY <1>9, <1>11, <1>12, <3>1
    <3> QED BY <1>1, <1>9, <3>1, <3>2
  <2>2. CASE ~(k <= Len(old))
    <3>1. PICK j \in DOMAIN new : datums'[k] = new[j]
      BY <1>5, <2>2
    <3>2. turn < turn + 1
      BY <1>12
    <3> QED BY <1>1, <1>4, <1>10, <3>1, <3>2
  <2> QED BY <2>1, <2>2
<1>14. DatumsOnce'
  <2> SUFFICES ASSUME NEW j \in DOMAIN datums', NEW k \in DOMAIN datums',
                      datums'[j].traj = datums'[k].traj,
                      datums'[j].sample = datums'[k].sample
               PROVE  j = k
    BY DEF DatumsOnce
  <2>0. Len(old) \in Nat /\ j \in Nat /\ k \in Nat
    BY <1>4, <1>5
  <2>1. CASE j <= Len(old) /\ k <= Len(old)
    BY <1>3, <1>5, <2>1 DEF DatumsOnce
  <2>2. CASE ~(j <= Len(old)) /\ ~(k <= Len(old))
    <3>1. j - Len(old) = k - Len(old)
      BY <1>4, <1>5, <2>2
    <3> QED BY <2>0, <3>1
  <2>3. CASE j <= Len(old) /\ ~(k <= Len(old))
    BY <1>5, <1>9, <1>10, <1>11, <1>12, <2>3
  <2>4. CASE ~(j <= Len(old)) /\ k <= Len(old)
    BY <1>5, <1>9, <1>10, <1>11, <1>12, <2>4
  <2> QED BY <2>1, <2>2, <2>3, <2>4
<1> QED BY <1>6, <1>8, <1>13, <1>14

LEMMA BatchStep ==
  ASSUME BatchInv, [Next]_vars
  PROVE  BatchInv'
<1>0. turn \in Nat \ {0} /\ phase \in Phases
  BY DEF BatchInv, BatchTyped
<1>1. CASE UNCHANGED vars
  BY <1>0, <1>1, MainStep DEF vars
<1>2. ASSUME NEW t \in Trajs, Precomputed(t) PROVE BatchInv'
  BY <1>0, <1>2, MainStep DEF Precomputed
<1>3. CASE AllPrecomputed
  BY <1>0, <1>3, MainStep DEF AllPrecomputed, Phases
<1>4. CASE AllCollected
  BY <1>0, <1>4, MainStep DEF AllCollected, Phases
<1>5. CASE AllScored
  <2>1. turn' \in Nat \ {0} /\ phase' \in Phases /\ items' \subseteq items
    BY <1>5 DEF AllScored, Phases
  <2>2. UNCHANGED <<size, future, finite, scored, datums>>
        /\ phase = "score" /\ phase' = "assemble"
    BY <1>5 DEF AllScored
  <2> QED BY <2>1, <2>2, MainStep
<1>6. CASE AllAssembled
  BY <1>0, <1>6, MainStep DEF AllAssembled, Phases
<1> QED BY <1>1, <1>2, <1>3, <1>4, <1>5, <1>6, SampledStep, CollectedStep, ScoreStep,
           AssembleStep DEF Next, Pools, MainThread

LEMMA BatchInvariant == Spec => []BatchInv
BY BatchStarts, BatchStep, PTL DEF Spec

\* OnlySoundDatums: nothing trains on a sample whose reward or logprobs failed,
\* or on one sample twice.
THEOREM TrainsOnSoundSamples == Spec => []OnlySoundDatums
<1>1. BatchInv => OnlySoundDatums
  <2> SUFFICES ASSUME BatchInv, NEW k \in DOMAIN datums
               PROVE  /\ future[datums[k].traj] = "ok"
                      /\ RewardOf(datums[k].traj, datums[k].sample) # None
                      /\ datums[k].sample \in finite[datums[k].traj]
    BY DEF OnlySoundDatums, BatchInv, DatumsOnce, ToSet
  <2> DEFINE t == datums[k].traj
  <2>1. PICK i \in Group(scored[t]) : Usable(t, i) /\ datums[k] = Datum(t, i)
    BY DEF BatchInv, FromEntries
  <2>2. t \in Trajs
    BY DatumTyped DEF BatchInv
  <2>3. datums[k].sample = scored[t][i][1]
    BY <2>1 DEF Datum
  <2>4. EntriesOf(t) /\ (scored[t] # << >> => future[t] = "ok")
    BY <2>2 DEF BatchInv, ScoredOnce, OnlySampled
  <2>5. scored[t][i][2] # None /\ scored[t] # << >> /\ i \in DOMAIN scored[t]
    BY <2>1 DEF Group
  <2> HIDE DEF t
  <2>6. RewardOf(t, datums[k].sample) # None
    BY <2>3, <2>4, <2>5, RewardOfEntry
  <2> QED BY <2>1, <2>3, <2>4, <2>5, <2>6 DEF Usable, t
<1> QED BY <1>1, BatchInvariant, PTL

\* AdvantageIsCentred: an advantage is the sample's own reward less the mean of
\* the rewards of its trajectory, in whatever order scoring finished.
THEOREM AdvantagesCentred == Spec => []AdvantageIsCentred
<1>1. BatchInv => AdvantageIsCentred
  <2> SUFFICES ASSUME BatchInv, NEW k \in DOMAIN datums
               PROVE  datums[k].advantage =
                        Cardinality(Rewarded(datums[k].traj))
                          * Snapped(RewardOf(datums[k].traj, datums[k].sample))
                        - RewardTotal(datums[k].traj, Rewarded(datums[k].traj))
    <3> SUFFICES ASSUME BatchInv, NEW d \in ToSet(datums)
                 PROVE  d.advantage =
                          Cardinality(Rewarded(d.traj)) * Snapped(RewardOf(d.traj, d.sample))
                          - RewardTotal(d.traj, Rewarded(d.traj))
      BY DEF AdvantageIsCentred, Rewarded, RewardTotal
    <3>1. PICK j \in DOMAIN datums : d = datums[j]
      BY DEF ToSet
    <3> QED BY <3>1
  <2> DEFINE t == datums[k].traj
  <2>1. PICK i \in Group(scored[t]) : datums[k] = Datum(t, i)
    BY DEF BatchInv, FromEntries
  <2>2. EntriesOf(t)
    BY DatumTyped DEF BatchInv, ScoredOnce
  <2>3. datums[k].sample = scored[t][i][1] /\ datums[k].advantage = Advantage(scored[t], i)
    BY <2>1 DEF Datum
  <2> HIDE DEF t
  <2>4. datums[k].advantage = Cardinality(Rewarded(t)) * Snapped(RewardOf(t, datums[k].sample))
                                - RewardTotal(t, Rewarded(t))
    BY <2>2, <2>3, Centred
  <2> QED BY <2>4 DEF t
<1> QED BY <1>1, BatchInvariant, PTL
=============================================================================
