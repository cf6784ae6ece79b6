--------------------------- MODULE RolloutBatch ----------------------------
(***************************************************************************)
(* One batch of src/tts/train_rl.py between the snapshot of the weights    *)
(* and the gradient step: sampling futures, the pool that precomputes the  *)
(* x contexts, the pool that scores the samples, and the advantages.       *)
(*                                                                         *)
(* A reward is an integer on a fine grid, or None for any failure (None,   *)
(* NaN, infinite).  Advantages are scaled by the size of their group, so   *)
(* they are integers; --normalize_advantage divides a group by a positive  *)
(* number and is left out.                                                 *)
(***************************************************************************)
EXTENDS Integers, Sequences, SequencesExt, FiniteSets

CONSTANTS
  Sizes,            \* batches considered: [trajs, group], the trajectories and
                    \* group_size
  Rewards,          \* rewards the scorer can return
  MinSpread, Snap,  \* min_reward_spread, reward_snap (0: off)
  None

ASSUME RolloutAssumption ==
  /\ Sizes \subseteq [trajs : Nat \ {0}, group : Nat \ {0}]
  /\ Rewards \subseteq Int /\ None \notin Rewards
  /\ MinSpread \in Nat /\ Snap \in Nat

VARIABLES
  size,     \* of this batch
  phase,
  future,   \* trajectory -> one of Answers
  context,  \* trajectory -> x_ctx_map entry, or "pending"
  turn,     \* next trajectory of the loop under way
  finite,   \* trajectory -> samples whose logprobs are all finite
  items,    \* work items still in the scoring pool
  scored,   \* trajectory -> <<sample, reward>> in order of completion
  datums    \* datums_D

vars == <<size, phase, future, context, turn, finite, items, scored, datums>>

\* Of a sampling call: no answer yet, samples with logprobs, an answer with a
\* sample that has none, an exception.
Answers == {"pending", "ok", "unlogged", "failed"}

Trajs == 1..size.trajs

Samples == 1..size.group

Init ==
  /\ size \in Sizes
  /\ phase = "precompute"
  /\ future = [t \in Trajs |-> "pending"]
  /\ context = [t \in Trajs |-> "pending"]
  /\ turn = 1
  /\ finite = [t \in Trajs |-> {}]
  /\ items = {}
  /\ scored = [t \in Trajs |-> << >>]
  /\ datums = << >>

\* The sampling server answers or fails at any time.
Sampled(t) ==
  /\ future[t] = "pending"
  /\ \/ /\ \E a \in {"unlogged", "failed"} : future' = [future EXCEPT ![t] = a]
        /\ UNCHANGED finite
     \/ /\ future' = [future EXCEPT ![t] = "ok"]
        /\ \E ok \in SUBSET Samples : finite' = [finite EXCEPT ![t] = ok]
  /\ UNCHANGED <<size, phase, context, turn, items, scored, datums>>

\* precompute_x_contexts: the contexts of the first depths the server could
\* score, None without any, or an exception for a turn that does not follow
\* its prefix.
Contexts == {"some", "none", "raised"}

\* _precompute_x_for_traj
Precomputed(t) ==
  /\ phase = "precompute" /\ context[t] = "pending"
  /\ \E x \in Contexts : context' = [context EXCEPT ![t] = x]
  /\ UNCHANGED <<size, phase, future, turn, finite, items, scored, datums>>

Raised == \E t \in Trajs : context[t] = "raised"

\* The executor waits for the whole pool; then an exception ends the job.
AllPrecomputed ==
  /\ phase = "precompute" /\ \A t \in Trajs : context[t] # "pending"
  /\ phase' = IF Raised THEN "down" ELSE "collect"
  /\ UNCHANGED <<size, future, context, turn, finite, items, scored, datums>>

Resolved_OnlyOk(t) == future[t] = "ok"

Resolved(t) == future[t] # "pending"

Unlogged == \E t \in Trajs : future[t] = "unlogged"

\* The samples of one trajectory become work items; a failed one is passed
\* over, and one without logprobs fails the assertion, which ends the job.
Collect ==
  /\ phase = "collect" /\ turn <= size.trajs
  /\ Resolved(turn)
  /\ phase' = IF future[turn] = "unlogged" THEN "down" ELSE phase
  /\ items' = items \union IF future[turn] = "ok" THEN {turn} \X Samples ELSE {}
  /\ turn' = turn + 1
  /\ UNCHANGED <<size, future, context, finite, scored, datums>>

AllCollected ==
  /\ phase = "collect" /\ turn > size.trajs
  /\ phase' = "score"
  /\ UNCHANGED <<size, future, context, turn, finite, items, scored, datums>>

\* What _score_item can return: distortion_reward_z_multi averages over the
\* depths of the context, and one failed depth fails the sample.
Scores(t) == IF context[t] = "some" THEN Rewards \union {None} ELSE {None}

\* One future of the scoring pool completes, in any order.
Score(t, s) ==
  /\ phase = "score" /\ <<t, s>> \in items
  /\ \E r \in Scores(t) : scored' = [scored EXCEPT ![t] = Append(@, <<s, r>>)]
  /\ items' = items \ {<<t, s>>}
  /\ UNCHANGED <<size, phase, future, context, turn, finite, datums>>

AllScored ==
  /\ phase = "score" /\ items = {}
  /\ phase' = "assemble" /\ turn' = 1
  /\ UNCHANGED <<size, future, context, finite, items, scored, datums>>

\* Python's round() of a quotient: to even on ties.
Rounded(n, d) ==
  LET q == n \div d
      twice == 2 * (n % d)
  IN  IF twice > d \/ (twice = d /\ q % 2 = 1) THEN q + 1 ELSE q

Snapped(r) == IF Snap > 0 THEN Rounded(r, Snap) * Snap ELSE r

\* The entries of a trajectory's scores whose reward did not fail, by position.
Group(scores) == { i \in DOMAIN scores : scores[i][2] # None }

Reward(scores, i) == Snapped(scores[i][2])

Total(scores) == MapThenSumSet(LAMBDA i : Reward(scores, i), Group(scores))

Advantage_AllSamples(scores, i) == size.group * Reward(scores, i) - Total(scores)

Advantage(scores, i) == Cardinality(Group(scores)) * Reward(scores, i) - Total(scores)

Spread(scores) == LET rewards == { Reward(scores, i) : i \in Group(scores) }
                  IN  Max(rewards) - Min(rewards)

Informative(scores) == Cardinality(Group(scores)) >= 2 /\ Spread(scores) >= MinSpread

Usable_Any(t, i) == TRUE

\* The guard of the optimizer.
Usable(t, i) == scored[t][i][1] \in finite[t]

\* sorted() by the number of the sample, which is stable.
Before(scores, i, j) ==
  \/ scores[i][1] < scores[j][1]
  \/ scores[i][1] = scores[j][1] /\ i < j

Nth(scores, positions, k) ==
  CHOOSE i \in positions :
    Cardinality({ j \in positions : Before(scores, j, i) }) = k - 1

Datum(t, i) ==
  [traj |-> t, sample |-> scored[t][i][1], advantage |-> Advantage(scored[t], i)]

\* The datums a group contributes.
Datums(t) ==
  LET kept == { i \in Group(scored[t]) : Usable(t, i) }
  IN  IF Informative(scored[t])
      THEN [k \in 1..Cardinality(kept) |-> Datum(t, Nth(scored[t], kept, k))]
      ELSE << >>

Assemble ==
  /\ phase = "assemble" /\ turn <= size.trajs
  /\ datums' = datums \o Datums(turn)
  /\ turn' = turn + 1
  /\ UNCHANGED <<size, phase, future, context, finite, items, scored>>

AllAssembled ==
  /\ phase = "assemble" /\ turn > size.trajs
  /\ phase' = "done"
  /\ UNCHANGED <<size, future, context, turn, finite, items, scored, datums>>

Pools == \E t \in Trajs :
           Sampled(t) \/ Precomputed(t) \/ \E s \in Samples : Score(t, s)

MainThread == \/ AllPrecomputed \/ Collect \/ AllCollected
              \/ AllScored \/ Assemble \/ AllAssembled

Next == Pools \/ MainThread

\* Every call to a server returns or raises, and the main thread runs.
Fairness == WF_vars(Pools) /\ WF_vars(MainThread)

Spec == Init /\ [][Next]_vars /\ Fairness

-----------------------------------------------------------------------------
(* Properties *)

\* The reward of a sample, whenever it was scored; None if it was not.
RewardOf(t, s) ==
  LET mine == { e \in ToSet(scored[t]) : e[1] = s }
  IN  IF mine = {} THEN None ELSE (CHOOSE e \in mine : TRUE)[2]

\* "Drop such datums instead of poisoning the gradient step": nothing trains
\* on a sample whose reward or logprobs failed, or on one sample twice.
OnlySoundDatums ==
  /\ \A d \in ToSet(datums) : /\ future[d.traj] = "ok"
                              /\ RewardOf(d.traj, d.sample) # None
                              /\ d.sample \in finite[d.traj]
  /\ \A i, j \in DOMAIN datums :
       datums[i].traj = datums[j].traj /\ datums[i].sample = datums[j].sample
         => i = j

\* A sample's advantage is its own reward less the mean of the rewards of its
\* trajectory, in whatever order the scoring pool finished.
AdvantageIsCentred ==
  \A d \in ToSet(datums) :
    LET group == { s \in Samples : RewardOf(d.traj, s) # None }
        sum == MapThenSumSet(LAMBDA s : Snapped(RewardOf(d.traj, s)), group)
    IN  d.advantage = Cardinality(group) * Snapped(RewardOf(d.traj, d.sample)) - sum

\* Whatever else fails on the servers, for any prompt or sample, the batch
\* reaches its gradient step: only a prefix that cannot be rendered and an
\* answer without logprobs end the job.
BatchEnds == <>(phase = "done" \/ (phase = "down" /\ (Raised \/ Unlogged)))
=============================================================================
