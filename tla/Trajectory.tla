----------------------------- MODULE Trajectory -----------------------------
(***************************************************************************)
(* The data of the trainer and of the sweep: recorded runs, where they are *)
(* cut into a prefix to summarize and a continuation to predict, and the   *)
(* contexts a summary is compared in (data/agent_trajectory.py,            *)
(* reward/, utils/logprob.py, and the head of train_rl.py's main).         *)
(*                                                                         *)
(* A trajectory is [sys, task, steps, continuation]; sys is << >> when it  *)
(* has no system prompt of its own.  A step is a message; one that carries *)
(* reasoning_content has the field `reasoning`.  What the code answers     *)
(* with None or a value is a sequence of at most one value here.  The size *)
(* of a step is that of its content; the code also measures steps as the   *)
(* EVENT blocks it shows the summarizer, which hold more.                  *)
(***************************************************************************)
EXTENDS Compaction

CONSTANTS
  EventFrame,  \* tokens of the tags of an EVENT block
  CallSize     \* tokens of a tool call with its arguments, in an EVENT block

ASSUME TrajectoryAssumption == EventFrame \in Nat /\ CallSize \in Nat

Reasons(m) == "reasoning" \in DOMAIN m

Unreasoned(m) == [field \in DOMAIN m \ {"reasoning"} |-> m[field]]

StripReasoning(msgs) == [i \in DOMAIN msgs |-> Unreasoned(msgs[i])]

-----------------------------------------------------------------------------
(* Loading *)

\* What a run leaves: the agent's loop logs its messages in order and behind a
\* call its results; only the last call may be one that was not executed.
Thought == [role : Roles, id : Nat, size : Nat, lines : Nat, bug : BOOLEAN,
            form : {"verbatim"}, claim : Nat, calls : Nat, of : Nat,
            covers : {{}}, reasoning : BOOLEAN]

Recorded(log) ==
  /\ log \in Seq(Message \union Thought) /\ Len(log) >= 2
  /\ log[1].role = "system" /\ log[2].role = "user"
  /\ \A i \in DOMAIN log :
       /\ log[i].id = i /\ log[i].form = "verbatim" /\ log[i].covers = {}
       /\ log[i].role = "assistant" /\ log[i].calls > 0 /\ i < Len(log) =>
            log[i + 1].role = "tool" /\ log[i + 1].of = i
       /\ log[i].role # "assistant" => ~Reasons(log[i])

\* from_collect_dict keeps the assistant messages with tool calls and, of
\* the results behind each, the first.
KeptPositions(log) ==
  LET calls == {i \in At(log, "assistant") : log[i].calls > 0}
  IN  calls \union {i \in At(log, "tool") : i - 1 \in calls}

FirstOf(log, role) ==
  IF At(log, role) = {} THEN << >> ELSE << log[Min(At(log, role))] >>

FromCollect(log) ==
  [sys |-> FirstOf(log, "system"), task |-> FirstOf(log, "user"),
   steps |-> Selected(log, KeptPositions(log)), continuation |-> << >>]

-----------------------------------------------------------------------------
(* Cutting *)

\* The copy does not carry the system prompt on.
WithPrefix(t, n) ==
  [t EXCEPT !.sys = << >>, !.steps = Take(t.steps, n),
            !.continuation = From(t.steps, n) \o t.continuation]

SampleCuts_InSteps(t, minPrefix, minSuffix) ==
  LET n  == Len(t.steps)
      hi == IF minPrefix > n - minSuffix THEN Max({minPrefix, n \div 2})
            ELSE n - minSuffix
  IN  minPrefix..hi

\* sample_split: the lengths it may draw for the prefix.  A trajectory too
\* short for both minima may be cut at or behind its end.
SampleCuts(t, minPrefix, minSuffix) ==
  LET n  == Len(t.steps) \div 2
      hi == IF minPrefix > n - minSuffix THEN Max({minPrefix, n \div 2})
            ELSE n - minSuffix
  IN  {2 * k : k \in minPrefix..hi}

\* _format_step: content and calls between tags, and no reasoning.
EventSize(m) == EventFrame + m.size + CallSize * m.calls

\* format_trajectory_text, its tokens taken to add up over the blocks.
EventTokens(steps) == MapThenSumSet(LAMBDA i : EventSize(steps[i]), DOMAIN steps)

\* _turn_token_lens: steps are taken in pairs, a last odd one has no length.
TurnLens(steps) ==
  [i \in 1..(Len(steps) \div 2) |-> EventTokens(SubSeq(steps, 2 * i - 1, 2 * i))]

\* Tokens of the first k turns.
Reach(lens, k) == MapThenSumSet(LAMBDA i : lens[i], 1..k)

TurnsThatFit_OneMore(lens, maxTokens) ==
  Cardinality({k \in DOMAIN lens : Reach(lens, k - 1) < maxTokens})

TurnsThatFit(lens, maxTokens) ==
  Cardinality({k \in DOMAIN lens : Reach(lens, k) <= maxTokens})

\* _truncate_continuation
TruncateContinuation(t, maxTokens) ==
  LET kept == 2 * TurnsThatFit(TurnLens(t.continuation), maxTokens)
  IN  IF kept = 0 THEN << >>
      ELSE IF kept = Len(t.continuation) THEN << t >>
      ELSE << [t EXCEPT !.sys = << >>, !.continuation = Take(@, kept)] >>

\* threshold_split: at the first turn that reaches the threshold, or nowhere.
ThresholdSplit(t, splitAt, minPrefix, minSuffix, maxContinuation) ==
  LET lens    == TurnLens(t.steps)
      reached == {k \in DOMAIN lens : Reach(lens, k) >= splitAt}
      k       == Min(reached)
  IN  IF reached = {} THEN << >>
      ELSE IF k < minPrefix \/ Len(lens) - k < minSuffix THEN << >>
      ELSE IF maxContinuation > 0
           THEN TruncateContinuation(WithPrefix(t, 2 * k), maxContinuation)
           ELSE << WithPrefix(t, 2 * k) >>

\* enumerate_split_turns (stride 1): every turn whose prefix is inside the
\* window.
SplitTurns(t, minTokens, maxTokens, minPrefix, minSuffix) ==
  LET lens == TurnLens(t.steps)
  IN  {k \in DOMAIN lens : /\ Reach(lens, k) \in minTokens..maxTokens
                           /\ k >= minPrefix /\ Len(lens) - k >= minSuffix}

-----------------------------------------------------------------------------
(* Contexts *)

\* AGENT_SYSTEM_PROMPT, where the trajectory has none of its own.
AgentSystemPrompt == Plain("system", 0, 1)

\* steps_to_messages
StepsToMessages(steps, sys, task) ==
  << Head(sys \o << AgentSystemPrompt >>) >> \o task \o steps

\* messages_text: contents alone, without tags, calls or system prompt.
TextTokens(msgs) ==
  MapThenSumSet(LAMBDA i : msgs[i].size, DOMAIN msgs \ At(msgs, "system"))

\* What a compacted context keeps verbatim.
HeadAndTail(t, keepFirst, keepTurns) ==
  LET msgs == StepsToMessages(t.steps, t.sys, t.task)
  IN  Take(msgs, keepFirst) \o LastNTurns(From(msgs, keepFirst), keepTurns)

\* compaction_tokens: what the contents of head and tail cost.
CompactionTokens(t, keepFirst, keepTurns) ==
  TextTokens(HeadAndTail(t, keepFirst, keepTurns))

\* The turns of the tail, as build_z_scoring_messages derives them, and the
\* max_size that parse_spec gives a spec hXtY.
KeepTurns(maxSize, keepFirst) == (maxSize \div 2 - keepFirst) \div 2

MaxSizeOf(keepFirst, keepLast) == 2 * (keepFirst + 2 * keepLast)

\* build_z_scoring_messages
ZMessages(summary, partial, maxSize, keepFirst) ==
  LET s == SplitHeadTail(partial, keepFirst, KeepTurns(maxSize, keepFirst))
  IN  s.head \o summary \o s.tail

\* build_maskenv_scoring_messages
MaskenvMessages(partial, keepFirst, keepLast) ==
  LET s == SplitHeadTail(partial, keepFirst, keepLast)
  IN  s.head \o MaskEnv(s.middle) \o s.tail

ContinuationTurns_WithTheAction(continuation, n) ==
  LET actions == At(continuation, "assistant")
  IN  [d \in 1..Min({n, Cardinality(actions)}) |->
         [history |-> SubSeq(continuation, 1, Nth(actions, d)),
          action  |-> continuation[Nth(actions, d)]]]

\* continuation_turns: each of the first n actions with what precedes it.
ContinuationTurns(continuation, n) ==
  LET actions == At(continuation, "assistant")
  IN  [d \in 1..Min({n, Cardinality(actions)}) |->
         [history |-> SubSeq(continuation, 1, Nth(actions, d) - 1),
          action  |-> continuation[Nth(actions, d)]]]

-----------------------------------------------------------------------------
(* Tokens: of which message, what, and which of its kind.  A generation    *)
(* prompt ends in an open think block and a newline.  An action without    *)
(* reasoning begins with the newline of an empty block, and the tokenizer  *)
(* makes one token of two newlines in a row.                               *)

Special(name) == <<0, name, 0>>

Body(m) ==
  (IF Reasons(m) THEN << <<m.id, "why", 0>> >> ELSE << >>)
    \o [k \in 1..m.size |-> <<m.id, m.form, k>>]

Render(msgs) == FlattenSeq([i \in DOMAIN msgs |-> Body(msgs[i])])

\* The prompt of a context; the block stays open, since every action closes
\* it (_close_think_block).
Prompt(msgs) == Render(msgs) \o << Special("think"), Special("newline") >>

\* reconstruct_generation: the rendered turn behind the generation prompt,
\* without the separator of the template.
Generation(action) ==
  (IF Reasons(action) THEN << >> ELSE << Special("newline") >>)
    \o Body(action) \o << Special("im_end") >>

\* The tokens of prompt and completion, joined as text.
Joined(prompt, y) ==
  IF Last(prompt) = Special("newline") /\ Head(y) = Special("newline")
  THEN Front(prompt) \o << Special("two_newlines") >> \o Tail(y)
  ELSE prompt \o y

\* What the server echoes: the prompt it was sent and one sampled token.
Echo(prompt, y) == Joined(prompt, y) \o << Special("sampled") >>

\* precompute_x: the positions behind the context, up to the prompt's end.
XLogprobs(x, y) ==
  LET full == Len(Joined(Prompt(x), y))
  IN  [n_x_ctx |-> Len(Prompt(x)), n_completion |-> full - Len(Prompt(x)),
       x_tok |-> SubSeq(Echo(Prompt(x), y), Len(Prompt(x)) + 1, full)]

\* score_completion_z: as many positions behind the compacted context.
ZTokens(xl, z, y) ==
  From(Take(Echo(Prompt(z), y), Len(Prompt(z)) + xl.n_completion), Len(Prompt(z)))

\* The differences d_t, as the pairs of tokens they are taken between.
Differences(xl, z, y) ==
  LET z_tok == ZTokens(xl, z, y)
  IN  [t \in 1..Min({Len(xl.x_tok), Len(z_tok)}) |-> <<xl.x_tok[t], z_tok[t]>>]

-----------------------------------------------------------------------------
(* The head of train_rl.py's main *)

\* The held-out set is the end of the dataset, or its beginning and then not
\* held out; << >> is the refusal.
ReserveEval(n, evalSize, onTrain) ==
  IF evalSize = 0 THEN << [eval |-> {}, train |-> 1..n] >>
  ELSE IF onTrain
       THEN << [eval |-> 1..Min({evalSize, n}), train |-> 1..n] >>
  ELSE IF n <= evalSize THEN << >>
  ELSE << [eval |-> (n - evalSize + 1)..n, train |-> 1..(n - evalSize)] >>

\* run_eval: the scores that did not fail, summed and counted; << >> when
\* every one did and nothing is logged.
EvalMean(scores, none) ==
  LET ok == SelectSeq(scores, LAMBDA r : r # none)
  IN  IF ok = << >> THEN << >> ELSE << [sum |-> FoldSeq(+, 0, ok), n |-> Len(ok)] >>

\* coverage_reward: entities of prefix and continuation that the summary
\* mentions; without an entity it is one half.
CoverageReward(mentioned, t, entities) ==
  LET all == UNION {entities[m] : m \in ToSet(t.steps) \union ToSet(t.continuation)}
  IN  IF all = {} THEN [hits |-> 1, of |-> 2]
      ELSE [hits |-> Cardinality(all \intersect mentioned), of |-> Cardinality(all)]

-----------------------------------------------------------------------------
(* reward/copy_penalty.py, over words; a fraction is [hits, of] *)

Grams(words, n) ==
  [i \in 1..(Len(words) - n + 1) |-> SubSeq(words, i, i + n - 1)]

NgramOverlap(summary, source, n) ==
  IF Len(summary) < n \/ Len(source) < n THEN [hits |-> 0, of |-> 1]
  ELSE LET mine   == Grams(summary, n)
           theirs == ToSet(Grams(source, n))
       IN  [hits |-> Cardinality({i \in DOMAIN mine : mine[i] \in theirs}),
            of   |-> Len(mine)]

\* The copy term in units of lambda_copy / 100, the threshold in percent:
\* nothing up to the threshold, then a ramp to the whole at full overlap.
CopyTerm(overlap, threshold) ==
  LET excess == 100 * overlap.hits - threshold * overlap.of
  IN  IF threshold >= 100 \/ excess <= 0 THEN 0
      ELSE (100 * excess) \div ((100 - threshold) * overlap.of)
=============================================================================
