# Tokens That Suffice: verification project

TLA+ models of the system in this repository, the TLC configurations that
check them on small instances, and TLAPS proofs of the properties that matter
most. Paths below are relative to the repository (the package is under
`src/tts/`).

- [The system](#the-system)
- [Modules](#modules)
- [Agent and compaction](#agent-and-compaction)
- [Router](#router) and [relay](#relay)
- [Evaluation](#evaluation), [grading and patches](#grading-and-patches),
  [collection](#collection)
- [Units of reward](#units-of-reward), [sweep](#sweep)
- [Training loop](#training-loop), [one RL batch](#one-rl-batch)
- [Inference servers](#inference-servers)
- [Batch jobs: database and Harbor](#batch-jobs-database-and-harbor)
- [What the code does otherwise than it
  says](#what-the-code-does-otherwise-than-it-says)
- [Proofs](#proofs)
- [Bounds and fairness](#bounds-and-fairness)
- [Not modelled](#not-modelled), [plan](#plan)

## The system

The program trains a summarizer that rewrites the history of a coding agent so
that the agent does as well with fewer tokens. Its parts:

| part | state | operations | what is hard |
|---|---|---|---|
| SummarizingAgent (`agent/summarization_agent.py`) | message history, compaction records in memory and on disk, last prompt count | query, act, compact, save record, count file | compactions of compactions; a record write that fails half way; a trigger measured before the last compaction |
| Compaction strategies (`summarization/`) | none | truncation, masking, model summary, rule-based digest, subtask themes | tool calls and results must stay paired; bounds chosen by a model; index arithmetic |
| Router (`scripts/serve/router.py`) | affinity map, in-flight counts | pick, pin, count, release, stream | interleaved requests, clients that hang up before the stream starts |
| Relay and bridge (`harbor/relay/`) | registered socket, pending futures, send lock | accept, proxy, answer, reconnect | three awaits between reading the socket and using it; connections that die unnoticed; timeouts against late answers |
| Evaluation (`eval_swebench.py`, `utils/mini_swe.py`) and the programs on its directory (`grade_preds.py`, `clean_failed_runs.py`) | predictions file, trajectories, shared config, reports | run, grade, record, retry, restart, grade later, clean | read-modify-write of one file by many threads; the image in a shared dictionary; kills; grades that outlive what they graded |
| Grading (`utils/mini_swe.py`) and patches (`utils/patch.py`) | none | cut the test output, parse, score; reverse a diff | missing markers, empty lists; lines without newline |
| Collection (`collect_trajectories.py`) | one file per run | run, grade, write, scan | what an interrupted collection does next |
| Trajectory data (`data/agent_trajectory.py`) | none | load, split at random or at a threshold, cap, render | turns against steps against tokens, off by one at every cut |
| Reward (`reward/`, `utils/logprob.py`) | contexts and scores of one unit | contexts per depth, echo, alignment, copy penalty | the same tokens under two contexts; one depth of several failing |
| Reward sweep (`sweep_reward.py`) | one rows file per shard | enumerate, score, append, resume, merge | kills inside a unit, shards running at once |
| Training loops (`train_rl.py`, `train_sft.py`) | batch counter, weights, checkpoints, metrics, learning rate | launch, checkpoint, snapshot, step, log | resume; what a checkpoint and an eval value belong to; the end of the schedule |
| One RL batch (`train_rl.py`) | futures, x contexts, scores, datums | sample, precompute, score, assemble | results in any order, partial failures, rounding to a grid |
| vLLM server actor (`server/patches/vllm_server_actor.py`) | port, server task, adapters, the lock of a name | reserve, bind, poll, shut down, load an adapter | a port that is free for a moment; failures that are swallowed; reloads of several jobs; one path overwritten |
| Training server database (`server/scripts/run.sh`, `db_snapshot.sh`) | live and durable database | seed, snapshot, stop, kill | two snapshots and a removal racing at the end |
| Harbor evaluation job (`scripts/eval/harbor_eval.*`) | processes, a deployed cloud app, trials | start, poll, deploy, run, clean up, resume | signals during set-up and clean-up, `set -e` inside the trap |

How they interact. Collection runs the plain agent and leaves trajectories;
training splits them, samples summaries from the inference servers, scores them
against a scoring server (through the router when there are several backends)
and steps the weights; the database of the training server holds what its
checkpoints are. Evaluation runs the SummarizingAgent, whose summarizer is the
trained model, in containers; the Harbor job does the same in the cloud and
reaches the cluster's model through the relay. The components share files
(predictions, trajectories, checkpoints, adapters, rows) and HTTP calls, never
memory, so each is a module of its own and what a neighbour can do to it is
nondeterministic. Where several programs share a state, they are in one module:
evaluation, grading and cleaning in `EvalRun`; relay and bridge in `Relay`; server,
engine and training jobs in `VllmServer`.

What makes each correct is the list of its properties below. The hazards, each
with its line and the properties about it, are in `PROJECT.json`.

## Modules

| module | models | proofs |
|---|---|---|
| `Compaction` | the strategies, as operators from a history to the set of histories they can return | `CompactionFacts` (lemmas) |
| `SummarizingAgent` | the agent's loop over them | `SummarizingAgentProofs` |
| `Router` | the affinity router | `ServingProofs` |
| `VllmServer` | inference servers, their engines, training jobs that use them | `ServingProofs` |
| `DbSnapshot` | the training server's database | `ServingProofs` |
| `Relay` | relay, bridge, their connections | `EvalProofs` |
| `EvalRun` | evaluation, later grading and cleaning of one directory | `EvalProofs` |
| `EvalStore` | what `EvalRun` promises of its predictions; `EvalRun` implements it | `EvalProofs` |
| `HarborJob` | the Harbor batch job | `EvalProofs` |
| `Grading`, `Patch` | pure: from a test output to a grade; reversal of a diff | |
| `Collect` | trajectory collection | `OfflineProofs` |
| `Sweep` | the reward sweep | `OfflineProofs` |
| `Trajectory` | pure: loading, cutting, contexts, tokens, eval split, copy term | `ScoringUnitProofs` (lemmas) |
| `ScoringUnit` | one unit of reward, in the trainer and in the sweep | `ScoringUnitProofs` |
| `TrainLoop` | both training loops | `TrainingProofs` |
| `RolloutBatch` | one batch of RL | `TrainingProofs` |

`FiniteFacts` has the lemmas about numbers, finite sets, sums and concatenations
that the proofs share. Modules whose proofs are together share no variable; where
they would share a name, one of them says whose it is (`TrainSpec`, `DbNext`,
`RelayFairness`).

The modules `MC...` give values to constants that a `.cfg` cannot write; `MCAgent`,
`MCEval` and `MCScoringUnit` also hold assumptions, facts about pure operators over
bounded inputs that TLC evaluates. `MCServing`, `MCHarbor`, `MCTraining` and
`MCOffline` each put two or three modules that share nothing into one run: a variable
`what` says whose behaviour it is, and the others rest. A definition with a suffix
(`Pending_All` before `Pending`) is the same operator as a plausible mistake would
have it; no specification uses it. `PROJECT.json` pairs it with the property that must
then fail.

Each component is in one run that TLC finds without error, named below, on an instance
that holds all the variants of the component: a constant set (`Strategies`, `Options`,
`Modes`, `Sizes`, `Callers`) names them, and a variable picks one in `Init` and keeps
it (the evaluation picks a program and its flags for every invocation). Five more
runs, each of one property that TLC finds violated, show where the code departs from
what it says of itself.

## Agent and compaction

`SummarizingAgent` has one action per step of `query()`/`step()`: the trigger and
the compactor's result, the record file, the count file (with the replacement
of the history), the model call (an answer with tool calls, a format error, or
the end), and the observations. A write of a record or of `count.json` can
raise, which ends the run. mini-swe-agent's own loop is external and is modelled
from how the subclass overrides it. `messages` is `self.messages`; `log` is a
history variable, every message ever appended. A message keeps its role, its
position in the log, which call a result answers, its size, and what a summary in
it stands for.

`Compaction` describes `split_head_tail` and `last_n_turns` of `base.py` (they count
messages and tool results, not turns) and each strategy on top of them; that the
suffix it describes is the one the loop in the code finds is an assumption TLC
evaluates (`LastNTurnsIsTheLoop`). Summaries written by a model may have any size of
a small set. What a summary `covers` is what its text was made from whole: a
model's summary all it replaces, the subtask strategy's note about folded steps
nothing (it holds their numbers), the mechanical digest the messages that are no
longer than what it takes of their role (`DigestCap`: a longer tool result is
dropped from it, any other text is cut). The themes of the subtask strategy are
answers of a model: a constant, `Themes`, says which lists it may give.

Run `agent_all`: every strategy, with format errors and failing record writes, answers
with one call or two (with two only long outputs and no segmentation into subtasks,
`ParallelBound`), and themes within the prompt's contract or off it where the code
is lenient (`MCLenientThemes`: bounds that are out of range or overlap, no theme in
progress).

- `HeadVerbatim`, `RecentTurnsVerbatim`: the head and the recent turns stay as they
  were said, through any number of compactions.
- `NoContextLost`: under the strategies that summarize, a chain of summaries of
  summaries still stands for all that was removed; the mechanical digest owes only
  what it does not cap, and nothing once a digest outgrew the cap of its own role.
- `ThemeSummariesStay`: no summary of an earlier compaction is segmented, changed or
  dropped by the subtask strategy. `BugContextKept`: masking, repeated, spares the
  tagged outputs.
- `AuditComplete`: what left the context is in the input of a compaction whose
  record is on disk, also when a write fails.
- `CurrentWorkReadable`: the last thing that happened is readable.
- `WellFormed`, of the strategies that cut by turns: what the chat API receives is in
  order and has nothing twice; and unless a middle was dropped from a run with
  parallel calls it has no result without its call and no call without its results
  (the second after a format error in the first turns only when the head does not
  end in a call, since `keep_first` counts messages).

Two runs are violated. `agent_mid_turn`, `NeverCutMidTurn`: with two calls in one
answer `last_n_turns` cuts between their results, and the tail begins with a result
whose call is gone. `subtask_swapped`, `CurrentWorkReadable`: when no theme is in
progress and the last one's bounds are swapped, the fallback that should keep the
current work keeps nothing.

## Router

`Router` is the process of `scripts/serve/router.py`: one event loop, so an action
is what runs between two awaits. Picking, pinning and counting is one action (no
await in between); release is another. A streamed request releases its slot when
its generator ends, and the generator may never be entered; `leaked` counts those.

Run `serving` (two backends, four trajectories, two of them streaming, two of
one task): `ExactCounts`, the counter of a backend is the requests on it plus the
leaked slots; `ConversationStays`, a conversation never changes its backend.

## Relay

`Relay` has the relay's handlers and proxies and the bridge's tasks, every await
a boundary between actions. Sockets carry sets of frames per connection; a
connection breaks at any time, each side notices later, what was in flight is
lost. A proxy reads the registered socket, waits for the lock, and sends on
what it read. Timeouts pop the pending entry and answers may come after.

Run `harbor` (two nodes, three connections, two requests):
`PendingIsOpen`, an answer finds the future of its request however early it comes,
and only a failed send leaves an entry of a finished request; `AnswerOnSameConnection`,
answers travel on the socket of their request although the bridge has a newer
one; `LastConnectorWins`, the newest socket is the registered one as long as it
lives; `EveryRequestEnds`.

## Evaluation

`EvalRun` follows a worker thread through `process_instance`: clear the old
prediction and trajectory, choose the image, build (retrying), run, grade (which
builds again), save the trajectory, record the prediction. `preds.json` is read and
written in two steps under the lock; the config's image is one shared
variable. What the tests say in a container of another instance may be anything;
such a grade that comes out resolved is told apart as "elsewhere", which the
program cannot do. `get_model` and `agent.save` raise outside the handler: the thread
ends without recording a prediction and main only logs it (`Uncaught`, `lost`).
Ctrl-C cancels what has not started; a kill drops all threads and may
truncate the file being written. An invocation may also be `grade_preds.py`, whose
threads grade what is predicted and whose main thread writes the grades into the
trajectories (it raises when there is no `preds.json`), or `clean_failed_runs.py`, which
removes failed runs and then their entries (and passes over a directory without
`preds.json`). Each ends in a report.

Run `eval_two_workers` (two threads, two instances, three invocations of any of the
three programs with any flags, the last an evaluation):

- `RunsAreAtomic`: the threads, through kills and restarts, implement `EvalStore`, a
  store in which a run changes one entry in one step, its own, and nothing is
  lost to another thread's write. The refinement maps the store to the file and
  the running instances to the threads' jobs.
- `PredictionMatchesTrajectory`: a prediction and the trajectory next to it are of
  one run, and a grade from a container of its own instance that says resolved is
  true of that prediction, whoever graded it and when.
- `ReportIsTrue`: what an invocation reports at its end is so: no instance counts as
  resolved whose patch does not resolve it but for those graded elsewhere, grading
  counts every prediction and agrees with every trajectory, cleaning leaves no
  removed run in either file.
- `AllPredicted`: in the end every instance has a prediction but those whose own run
  raised in the last invocation, unless a kill truncated the file, which then stops
  every invocation (`json.loads` raises).

Run `eval_wrong_image` violates `GradedWhereItWorked`: another thread replaces the
shared image between choosing it and building from it.

## Grading and patches

`Grading` has the two harnesses' way from an output to a grade: swe-bench takes
what is between the markers or, when one is missing, everything; swe-smith slices
as Python does with -1. TLC evaluates, for all outputs of up to four records
(`MCEval`): `GradesAgree`, an instance is resolved exactly when its partial score is
full; `MarkersBound`, between markers both harnesses count the same and nothing
outside.

`Patch` has `reverse_hunk` and `reverse_diff` over classified lines. For all hunks of
up to five lines as git writes them: `ReversalExchangesSides`, the two sides change
places with their newlines at the end of the file; `ReversalTwice`, a diff of
several files and hunks reversed twice is the diff.

## Collection

`Collect`: the same kind of worker, a file per run, and the scan that decides what
the next invocation runs. Run `offline`, through failures, Ctrl-C and kills:
`CollectsWhatWasAsked`, never more runs
than asked for, and every invocation without a failure brings each instance
one nearer to it, files of failed and cut runs notwithstanding.

## Units of reward

`Trajectory` has the data's operators: `from_collect_dict`, `with_prefix`,
`sample_split`, `threshold_split` with its cap, the lengths of turns,
`compaction_tokens`, the contexts of both scorers, and the tokens of a prompt, an
action and an echo. A token is a symbol; the tokenizer's one effect that matters is
kept: two newlines in a row become one token, and an action without reasoning
starts with a newline behind a prompt that ends in one. Lengths are measured twice,
as in the code: prefix, turns and continuation as the EVENT blocks a summarizer
reads (`EventSize`: tags, content and calls, no reasoning), head and tail of the
compacted context by message contents alone (`TextTokens`). That the lengths of
blocks add up is an abstraction of the tokenizer.

`ScoringUnit` is a unit of reward as `train_rl.py` and `sweep_reward.py` compute it:
split, contexts of the next actions on the full history, depth by depth, then
every candidate (a sampled summary, or a spec of the sweep) on the same actions
behind its compacted context. Every call of the scoring server may fail. A score
is the list of pairs of tokens whose log probabilities are compared.

Run `reward_unit` (all runs of up to four turns: short and long results, reasoning,
parallel calls, format errors, a submission; all three callers):

- `WholeTurns`: no cut and no cap parts a call from its result.
- `SamePast`: at every depth the reference context tells exactly the steps before
  the action, and the compacted one tells of the same past and not of the future.
- `SameTokens`: each difference is taken between the same token of the action, and
  all candidates with a score have it for the same tokens of the same depths.
- `FitsWindow`: the threshold's prefix reaches the trigger and not a turn earlier,
  and the parts the code adds up stay under it: contents of head and tail, the least
  summary, and the continuation's blocks; the sweep's prefix is inside its window.

That compacted context and continuation fit the window does not follow, and is false:
the calls in head and tail are in no budget of the code.

As assumptions of `MCScoringUnit` over bounded inputs: `FromCollectIsTheLoop`,
`SpecsKeepTheirTurns` (a spec's name and `max_size` say the same), `EvalIsHeldOut`,
`EvalIsAMean`, `CoverageIgnoresTheCut`, `CopyTermRamps`, `OverlapOfCopies`.

## Sweep

`Sweep`: each shard's pool, its file and the writing of a unit's rows one by one
(the buffer of the file is handed on whenever it is full). A kill at any moment
loses what is not in the file and may cut its last line, after which
`json.loads` stops every resume. Run `offline` (two shards, two workers each):
`KeysOnce`, no key twice across shards and launches; `SkippedUnitsComplete`, what a
resume skips has all its rows, but for the unit whose rows a kill divided (`split`);
`AllSwept`, everything is swept unless a file was cut. What a row is the score of
is `ScoringUnit`'s sweep.

## Training loop

`TrainLoop` is the loop of both trainers; `mode` selects which. The weights are the
sequence of batches they were trained on, each with its learning rate, so a
checkpoint can be compared with the counter it stores. `epoch` and `batch` are the two
`for` loops, which a resume starts again from the beginning while `global_batch_idx`
starts at `start_batch`.

Run `training` (four launches, two epochs of three batches, a crash
anywhere): `CheckpointCounts`, a checkpoint's `loop_state` is the number of batches
in its weights; `FewUpdatesUndone`, the weights a next launch restores are those of
this one less its last gradient steps, at most `save_every` of them;
`EvalMatchesStep`, the eval value of a step is that of the weights before it;
`Covered`, a finished launch has trained on all data, at no rate of zero within
the estimated number of batches.

None of this says that little is trained again: after a resume the loops begin with
the first batch, and train restored weights on all they contain (`NeverSkips` is
proved).

## One RL batch

`RolloutBatch` starts at the snapshot and ends at the gradient step: sampling
futures resolve or fail at any time, the precompute pool, the main thread's loop
over futures, the scoring pool in any order, and assembly. Advantages are scaled
by the group's size, which keeps them integers; rounding is Python's
(half to even). A continuation turn that does not follow its prefix raises in
the precompute pool and ends the job; so does an answer without log
probabilities, by an assertion in the loop over futures (`Unlogged`). Every other
failure of a server is a `None`.

Run `training` (two trajectories with two samples each, or one with three):
`OnlySoundDatums`, only samples with a sound reward and sound log probabilities
train, once each; `AdvantageIsCentred`, each sample's advantage is its own reward
against its group's mean (computed by a second definition, straight from the
scores), whatever order the pool finished in; `BatchEnds`, with a gradient step
whatever else fails, or with the job for one of those two reasons.

## Inference servers

`VllmServer` begins with the actors: a server reserves the lowest free port with a
bound socket, gives it up and binds again, loads its engine, and is polled until
`/health` answers, at the port and not at the process. Serving and polling are two
coroutines of one event loop: looking at the task and sending the GET is one step,
taking its answer another, and between them the server task runs and others may
take the port; while the engine loads, which is one call without an await,
neither a poll nor the deadline is looked at. When all are up, training
jobs save an adapter to the one path, have every server load it under the one
name, and sample. The endpoint's three steps (remove the old adapter, add under
a new id, register) hold the lock of the name; removing and adding may fail,
which is only logged. The engine is external: it keeps a few adapters, drops
any, and reads a dropped one again from its path, which a later save has
overwritten. A job may stop at any point, its calls and requests running on, and
another one starts. Weights are the number of the save that wrote them.

Run `serving` (two servers, two ports, two saves, two jobs, two requests):
`LiveHealthIsOwn`, a server that was reported healthy on another's answer is one
whose own process is gone; `StartEnds`, waiting for it ends unless its engine loads
for ever; `OnPolicy`, a sample the trainer uses was made, from its first token
to its last, with the weights saved last.

Run `vllm_health_race` violates `HealthyIsOwn`: the server dies when the port is taken
in the gap, and the GET already sent is answered by the process that took it.

## Batch jobs: database and Harbor

`DbSnapshot`: `snapshot()` as run by the daemon and by the exit trap, split where
another process can come between: the `-f` test, sqlite's open, the end of
`.backup`, the rename. A database is the number of its transactions. A run is
started only when the processes of the one before have ended.

`HarborJob` follows `harbor_eval.sbatch` from the start of vLLM to the end, with
`cleanup()` as a second position: a signal is noticed between commands, the trap
runs where it hit, and under `set -e` the script ends after it unless its last
command succeeds, the wait for vLLM. What the job starts (vLLM, bridge, harbor,
a relay app in the cloud) lives and dies by itself. Starting a process and noting
its PID are two commands, and cleanup knows only noted ones. The app outlives the
job; the next job of the name resumes the trials.

- Run `serving`: three runs of the training server, ended by SIGKILL or through the
  trap, with failing backups. `NothingDurableLost`: the durable name never holds half
  a database, and until a trap has run it holds what the last good snapshot saw and
  never goes back. After a trap it may, see the table below.
- Run `harbor`: two Harbor jobs with two trials, with signals, failures and SIGKILL
  anywhere. `RelayStopped`: a job leaves no relay it deployed without having tried to
  stop it, unless the signal came just before the deployment and the script went on;
  `OnlyTermTakes`: once the script waits for harbor, a trial loses its model to
  cleanup only after harbor had its thirty seconds and was sent TERM. `excused` names
  the signals during set-up after which the script goes on.

Run `harbor_trial_taken` violates `NoTrialTaken`, what cleanup promises: a signal
between the start of harbor and its PID finds no harbor to stop, and vLLM is taken
from under its trials.

## What the code does otherwise than it says

Where the last column names a run, TLC finds it violated (`PROJECT.json` quotes the
lines). The others were met while modelling and are part of the models'
behaviour; the properties above are stated so that they hold beside them.

| where | what it says | what it does | how the model has it |
|---|---|---|---|
| `summarization/base.py:41` | the context is never cut mid-turn (:28) | with two calls in one message the cut is between their results | run `agent_mid_turn` |
| `summarization/mask_based.py:95` | the last `keep_n` observations are kept (:79) | with fewer tool messages in the middle than `keep_n` the slice start is negative and observations inside the window are masked | `RecentFrom` slices as Python does |
| `summarization/mask_based.py:123` | the placeholder tells the lines omitted (:12) | masked again, it counts the lines of the placeholder | `Masked` has no line count |
| `agent/summarization_agent.py:294` | the next trigger uses the real count (:289) | after a format error it is the count from before the last compaction | `ModelFormatError` leaves `last_prompt_tokens` |
| `summarization/subtask_based.py:135` | `keep_first` messages stay verbatim (`summarization_agent.py:45`) | the strategy splits at its own (2, 0) | `Subtask`; `HeadVerbatim` asks for two |
| `summarization/subtask_based.py:150` | later user messages are kept as events (`agent_trajectory.py:490`) | the first user message of the middle is taken for the task and is in no block | `MessagesToSteps`; `NothingPassedOver` |
| `summarization/subtask_based.py:226` | the last theme stays readable (:215) | reversed bounds of the last theme are clamped, not swapped, and nothing is kept | run `subtask_swapped` |
| `summarization/subtask_based.py:202` | the active subtask stays fully readable (:9) | its older steps are replaced by their numbers | `SubtaskSummary`: the note covers nothing |
| `utils/mini_swe.py:112` | a patch is graded in the state the agent saw (:215) | the image is read from a dictionary the threads share | run `eval_wrong_image` |
| `eval_swebench.py:342` | the prediction is recorded in the `finally` clause | when the save before it raises, or `get_model` (:280), it is not, and main only logs that | `Uncaught`; `AllPredicted` names them |
| `scripts/serve/router.py:155` | exact in-flight counts (:13) | a stream that is never entered keeps its slot | `leaked` in `ExactCounts` |
| `scripts/serve/router.py:59` | the key is distinct between trajectories (:55) | trajectories of one task share it | `Task` maps two trajectories to one task |
| `harbor/relay/modal_relay.py:125` | `bridge_connected` (:129) | when the newest of two connectors closes, the older one, still open, is not registered again | `AfterClose`; `LastConnectorWins` is about the newest |
| `harbor/relay/modal_relay.py:135` | the last connector wins all traffic (:38) | a request sends on the socket it read before three awaits | `ws[r]` in `Arrive`, used by `SendDone` |
| `eval_swebench.py:330` | grading is decoupled (:35) | an exception in grading replaces the submission by an empty one | `Raises` |
| `eval_swebench.py:553` | `resolve_rate` of the instances | of the trajectories that are there | `report.of` |
| `scripts/eval/grade_preds.py:72` | a `resolved: false` is a score and is honoured (:57) | without `--skip-graded` a grading whose container fails replaces a score | `score` "error" in `ReportIsTrue` |
| `scripts/data/clean_failed_runs.py:68` | a failed run and its entry go, so that it is run again (:8) | killed between the two, it leaves an entry without a run, and an evaluation skips the instance | `removed`; `EvalStore!Drop` |
| `utils/mini_swe.py:152` | the test output is between the markers | swe-bench grades everything when one is missing, swe-smith (:190) nothing without the first | `SwebenchContent`, `SwesmithContent` |
| `utils/patch.py:26` | the reverse of a diff | file headers are not reversed; nothing calls it | `ReverseHeader` |
| `train_rl.py:516` | a resumed job passes over the batches before its checkpoint (:523) | the counter starts at `start_batch`, the loops at the beginning: it trains on everything again | `Launch`; `NeverSkips` is proved |
| `train_rl.py:667` | a failure of sampling is passed over instead of crashing the run (:655) | an answer without log probabilities is an assertion that ends the job | `Unlogged`; `BatchEnds` names it |
| `train_rl.py:276` | falls back to the pre-split format (:277) | the loader takes a file without `messages` for empty trajectories and does not raise | not modelled |
| `train_rl.py:510` | the mean over the eval set | over what did not fail | `EvalMean` |
| `train_sft.py:197` | prefixes are trained on too (:66) | the estimate counts base trajectories; past it the rate is zero | `TotalEstimate`; `Covered` stops there |
| `data/agent_trajectory.py:270` | a view of the trajectory | the agent's own system prompt is not in it | `WithPrefix`; the sweep captures it before the cut |
| `data/agent_trajectory.py:292` | a short trajectory is split in the middle | the bound is the minimum prefix: the continuation may be empty | `SampleCuts` |
| `data/agent_trajectory.py:356` | compaction and continuation fit one window (`train_rl.py:162`) | head and tail are measured without their tool calls | `CompactionTokens`, `TextTokens` |
| `data/agent_trajectory.py:359` | whole turns are dropped | a last call without its result has no length and goes too whenever the cap bites | `TruncateContinuation` |
| `sweep_reward.py:704` | a unit is atomic (:641) | a kill can divide it, and the resume skips it | `split` |
| `server/patches/vllm_server_actor.py:437` | the endpoint answers "ok" when the adapter is loaded | also when adding it failed; the engine then reads it on demand | `Add`; `OnPolicy` holds all the same |
| `server/patches/vllm_server_actor.py:332` | blocks until the server is healthy (:301) | returns on another process's answer when the port was taken in the gap | run `vllm_health_race` |
| `server/patches/vllm_server_actor.py:366` | fails after the timeout (:337) | the engine is loaded on the loop the timeout needs | `LoopFree`; `StartEnds` names it |
| `server/scripts/run.sh:103` | a graceful stop loses nothing (`db_snapshot.sh:66`) | the daemon is not waited for: its last snapshot can re-create the removed database, empty, and rename it over the durable one | `StopDaemon`, `OpenLive`; `trapped` |
| `scripts/eval/harbor_eval.sbatch:336` | its own relay is stopped on exit | a signal during set-up runs cleanup; when vLLM then ends with status 0 the script goes on, deploys a relay that nothing stops and runs harbor against a dead model | `Risks`, `excused` |
| `scripts/eval/harbor_eval.sbatch:717` | harbor is stopped before vLLM and relay (:337) | not when the signal comes before its PID is noted | run `harbor_trial_taken` |
| `scripts/eval/harbor_eval.sbatch:346` | in-flight trials cancel on INT (:337) | bash starts a background command with INT ignored, so harbor may not notice before TERM | `StopHarbor` |
| `scripts/eval/harbor_eval.sbatch:370` | cleanup stops everything | under `set -e` a bridge that is already dead ends the trap before vLLM | `StopBridge` |
| `collect_trajectories.py:267` | `runs_per_instance` runs are collected (:200) | one per invocation | `Pending`; `CollectsWhatWasAsked` counts invocations |

## Proofs

TLC checks one small instance; these hold for every value of the constants that
satisfies the named assumptions of the modules (`CompactionAssumption`,
`TrainAssumption` and so on, which TLC evaluates on the instance). They say what the
argument parsers, the types and the checks at the start of the programs give (`SplitAt
> Budget`: `train_rl.py:296` raises otherwise). One is stronger than the code: a head
has at least two messages, system prompt and task, as `model_based.py:115` describes
it; a spec `h1t3` is accepted and cuts the task off. Each theorem rests on an
inductive invariant, since hardly a property is inductive by itself.

The prover has no induction that can be instantiated, but a set of natural numbers
has a least element (`Least` in `FiniteFacts`, from the well-foundedness of `<`) and a
set of finite sets a smallest one (`SmallestSet`). Where a fact is about every length
or every finite set, the proof takes the least counterexample and leads it to a
contradiction. In this way `FiniteFacts` and `CompactionFacts` show that the recursive
functions inside `MapThenSumSet` and `FlattenSeq` exist and what they compute
(`SumsNext`, `Totals`, `ConcatsExist`), and that `Nth` and `Selected` list a set of
positions in order, each once.

**Agent** (`SummarizingAgentProofs`). `IInv` relates the context to the log: every
message is genuine (as it was logged, masked, or a summary), the first ones are the
log's (`HeadInv`), and what is gone is in a record on disk, for which `PendingInv` says
what `pending` and the records hold between the two file writes. Every result of a
strategy that cuts by turns is the history itself or its head, an insertion and its
tail (`Shapes`); the subtask strategy's is its head and genuine messages behind.

- `AgentTyped`, `NothingUnaudited` (`AuditComplete`), `HeadKept` (`HeadVerbatim`) and
  `TaggedOutputsKept` (`BugContextKept`), for all five strategies.
- For the four strategies that cut by turns: `RecentTurnsKept` (`RecentTurnsVerbatim`),
  from `RecentInv`: the last turns of the log, as `last_n_turns` counts them, end the
  context, so the same cut in the context and in the log leaves the same messages;
  `LastWorkReadable` (`CurrentWorkReadable`), which needs at least one kept turn;
  `NothingForgotten` (`NoContextLost`), from `Told`: under the two that summarize, and
  until a summary fails, every message that is owed is in the context or told by a
  summary in it, since a summary tells what the summaries it replaces told, a
  digest as long as those fit it; `StaysInOrder` (`Chronological`), for any number of
  parallel calls; and `ChatIsWellFormed` (`WellFormed`). For single calls it comes from
  `Paired` (a result is behind its call) and `Settled` (a call has its results, if the
  head does not end in one), for masked runs with any number of calls from `Whole`
  (masking moves nothing, so turns stay whole).
- `SummariesStay` (`ThemeSummariesStay`), for the subtask strategy and any themes:
  what is selected of the middle and what the blocks of the themes are do not matter,
  the summaries of before are put in front of them as they are.

**Serving** (`ServingProofs`).

- `Router`: `CountsAreExact`, for any fleet and streams, by counting the set of
  open requests of a backend before and after each action (`CountInv`; finite sets,
  one element in or out); `ConversationsStay`, from `PinInv`, every backend a
  trajectory was sent to is the one its key is pinned to; `RouterTyped`, which needs
  that a least-loaded backend exists.
- `VllmServer`: `OwnHealth` (`LiveHealthIsOwn`): a server that runs and is not between
  its release and its bind holds its port, where only it answers; one that found its
  port taken is gone. `TrainsOnPolicy` (`OnPolicy`), from `JobInv`: ids of a server
  only grow and are given out under the lock; from the id on that the latest save was
  given, whatever is resident has the latest weights (`FreshInv`), since it was read
  after they were written; and an awaited request was sent when every server had
  answered, so its id is that one or a later one (`RequestInv`). That the calls of an
  earlier job come late does no harm: they get a new id and read the same path.
- `DbSnapshot`: `DurableKept`. A process that moves its copy has written all of it
  (`CopyInv`); before any trap the daemon is alone (`DaemonInv`); what it will move is
  no older than what is durable, and the live database no older than either
  (`AgeInv`).

**Evaluation** (`EvalProofs`).

- `EvalRun`: `ImplementsStore`, every behaviour of `EvalRun` is one of `EvalStore`
  under the mapping. What a thread has read is what is in the file as long as it
  holds the lock (`LockInv`), an instance is in one place (`JobInv`), nothing runs on a
  broken file (`UpInv`). `PredictionsMatch` adds `GradeInv`: a run takes the prediction
  away first, the trajectory next, and writes them back in the other order, and a
  grading holds the patch that is predicted, of which only a container of its own
  says resolved. `ReportsTrue` adds `ReportInv`: what grading and cleaning have done so
  far is what they will report (`GradedSoFar`, `CleanedSoFar`).
- `HarborJob`: `StopsItsRelay` and `TakesNoTrial`. `PlaceInv` says where the script
  can be while and after `cleanup()` runs, `RelayInv` that a relay that is up has its
  stop before it, `HarborInv` that nothing is taken while harbor runs without having
  been sent TERM, but for the signals that came before the script waited for it.
- `Relay`: `PendingExact`, `SameConnection` and `NewestRegistered`. `ConnInv` orders
  connections by the time they were made, `SocketInv` follows a request's frame, its
  answer and its call from socket to socket, `PendingInv` says from when to when an
  entry is there.

**Collection and sweep** (`OfflineProofs`).

- `Collect`: `CollectsExactly` (`CollectsWhatWasAsked`), a count over files. An instance
  is in one place (`OnePlace`), one under way is short of a run and has no file of this
  invocation (`Short`), so a write adds one to the count and never too many; `Counted`
  is the property, extended to the invocation under way.
- `Sweep`: `NoKeyTwice` and `SkippedComplete`, from `SweepInv`: a unit waits, is with a
  worker, is ready or has rows that are written or about to be, never two of these
  (`UnitOnce`), the rows of a unit are its specs in an order, each once (the lemmas
  about `SetToSeq`), and what is written together with what is being written has each
  unit in full, except those a kill divided (`WholeUnits`).

**Training** (`TrainingProofs`).

- `TrainLoop`: `CheckpointsCount` and `EvalCurve`, from an invariant that ties
  the number of batches in the live weights to the counter at every position of
  the loop body; `NeverSkips`, `start_batch <= global_batch_idx` always, which is
  why the guard that should pass over the batches before the checkpoint never
  does; `LittleUndone` (`FewUpdatesUndone`), from `WorkKept` and arithmetic on the last
  batch at which a checkpoint was due, and `BeginsRestored`, the live weights go on from
  those the last checkpoint holds; `EverythingSeen` (`Covered`), from `TakenInv`, every
  batch before the place of the two loops is in the weights, and `RateInv`.
- `RolloutBatch`: `TrainsOnSoundSamples` (`OnlySoundDatums`) and `AdvantagesCentred`
  (`AdvantageIsCentred`), from `BatchInv`: a work item is gone when its sample is scored
  (`ScoredOnce`), only what was sampled is scored, and every datum is that of a usable
  entry of a trajectory that was assembled (`FromEntries`, `DatumsOnce`). The advantage
  is computed over the entries in the order of completion, the property computes it
  over the samples: a bijection takes one sum to the other.

**Unit of reward** (`ScoringUnitProofs`), for the trainer's two ways to cut and for
the sweep, over every run that the agent's loop can leave (`Recorded`: its messages in
order, each call followed by its first result, except the last). `CutsAsTold` says that
the cut is one of `Cuts` and the contexts so far are those of its first actions;
`ScoresAsTold` that a candidate has compared, at every depth it has, exactly
the action's tokens. The rest is what the operators compute:

- `ScoresCompareTheSame` (`SameTokens`). Behind a prompt, an action is echoed as the
  same tokens whatever the prompt, but for a newline that melts into it. The number
  of positions behind the reference context is the length of the whole less that of
  the prompt, so it lacks the melted newline, and so it does behind the compacted one.
- `TurnsAreWhole` (`WholeTurns`). What is kept of a run alternates calls and results
  (`KeptPositions` has either both of a pair or neither), so whatever begins after an
  even number of steps begins with a call; every cut and every cap is at twice a
  number.
- `ContextsShareThePast` (`SamePast`). The steps before an action are the prefix and
  the continuation up to it; head, summary or masked middle, and tail of the
  compacted context tell of the whole prefix, for every spec.
- `CutsFitTheWindow` (`FitsWindow`). The lengths of turns add up to the tokens of the
  steps as blocks (`Reach` and `EventTokens` are the same sum), the first turn that
  reaches a threshold is a least element, and the cap keeps the turns whose sum
  fits. What it does not say, that head and tail fit with their calls, is false.

Only model-checked:

- Everything under fairness (`EveryRequestEnds`, `AllPredicted`, `AllSwept`,
  `BatchEnds`, `StartEnds`), which is beyond the prover.
- Of the subtask strategy, `CurrentWorkReadable`: it holds in `agent_all` because no
  list of themes there swaps the bounds of a last theme while none is in progress,
  which is a property of the instance's `Themes` and not an assumption of the module,
  since the code does not enforce it. `NoContextLost`, `WellFormed` and
  `RecentTurnsVerbatim` do not apply to it.
- The facts about pure operators that `MCAgent`, `MCEval` and `MCScoringUnit` assume and
  TLC evaluates; `Grading` and `Patch` use recursive definitions.

## Bounds and fairness

Bounds are constants named in the modules: `StepLimit` (also the program's own),
`FormatErrors`, `MaxSteps` of the router, `MaxConns`, `MaxInvocations`, `MaxLaunches`,
`MaxRuns`, `MaxVersion`, `MaxTurns`, `MaxPolls`, `MaxSaves`, `MaxJobs`. `DigestCap`,
`EventFrame` and `CallSize` are small numbers that let some messages fit and others
not. Two or three of everything are enough for the cases that matter: two threads for
a lost update, two trajectories for a mixed-up result, three connections for an old, a
current and a next one, five steps for a compaction of a compaction, four launches for
a resume of a resume that finishes, four turns for a head, a tail and something
between, two saves for an adapter that is overwritten, one slot for one that is
dropped at once, two jobs for a call that comes late. No symmetry is used. `Shutdown`
of a server is taken only before the first save, since later it only ends what
follows.

Fairness is assumed where the code's scheduler gives it: an event loop runs ready
tasks and a lock serves its waiters (`Relay`); an actor's loop runs its release, its
bind and, while no engine is being loaded, its polls, whose requests are answered or
refused; loading, which holds the loop, may take for ever (`VllmServer`); threads of a
pool run and every call to a server returns or raises, since all have timeouts
(`EvalRun`, `Sweep`, `RolloutBatch`); a program's main thread goes on, and somebody
starts an unfinished evaluation or sweep again. No fairness is assumed of failures,
kills or reconnections succeeding before they are tried. `SummarizingAgent`, `Router`,
`TrainLoop`, `Collect`, `ScoringUnit`, `DbSnapshot` and `HarborJob` have safety
properties only.

`CHECK_DEADLOCK FALSE` is in every configuration: each program ends, or the bound on
its restarts is reached.

## Not modelled

- Trajectory files that a failing or killed save leaves truncated: every reader skips
  a file that does not parse. An exception in the writing of `preds.json` itself: like
  `Uncaught`, and the file is the old one or truncated (`torn`).
- The reward's real arithmetic over a model's log probabilities (tanh, means, length
  ratio). `ScoringUnit` says which tokens it is over; in `RolloutBatch` its value, or
  its failure, is an input.
- Reasoning masking of the mask strategy, prompts, the transport of the
  summarizer backends, and runs without a directory for compactions.
- The parsers' matching of test logs, tables, plots, analysis and debugging scripts
  and container builds: linear and without state that interacts.
- The server's own `/skyrl/v1/generate` (refused when adapters are on, without state
  otherwise), GPU visibility, and the patched configuration dataclasses of the
  third-party server.
- Loading from the SWE-agent format and from pre-split files (copies of fields), data
  filtering, normalized advantages (a positive factor per group) and the losses.
- The rLLM variant of the agent, which repeats its loop for another framework, and
  `mini_swe_OLD.py`, which nothing imports.

## Plan

Done: every component above has its module and its run and, but for `Grading` and
`Patch`, every safety property that a passing run checks is stated by a theorem (for
the agent's subtask strategy, see above); the store that `EvalRun` implements.

Left, in the order of what it would add:

1. Abstract specifications: a request/response service that `Relay` implements; an
   append-only trainer that `TrainLoop` without crashes implements.
2. The prompt's contract for themes as an assumption of its own, and under it the
   subtask strategy's `CurrentWorkReadable` as a theorem.
3. What a cut between parallel results leaves, stated as a weaker form of
   `WellFormed` for the strategies that drop a middle.
4. The fleet behind the relay as one composed system, where a retry of an agent is a
   second request that the router may pin.
