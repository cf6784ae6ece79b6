---------------------------- MODULE ScoringUnit ----------------------------
(***************************************************************************)
(* One unit of reward: a recorded run is cut, the contexts of its next     *)
(* actions are scored once on the full history, and every candidate (a     *)
(* sampled summary in the trainer, a compaction spec in the sweep) is      *)
(* scored on the same actions behind its compacted context.  Any call to   *)
(* the scoring server may fail.                                            *)
(*                                                                         *)
(* A score is the list, per depth, of the pairs of tokens whose log        *)
(* probabilities are compared; the arithmetic on them is left out.         *)
(***************************************************************************)
EXTENDS Trajectory

CONSTANTS
  Callers,       \* "random" and "threshold": the trainer with and without
                 \* split_at_tokens; "sweep"
  Runs,          \* recorded runs considered, as message logs
  MinPrefix, MinSuffix,
  SplitAt,       \* split_at_tokens
  Budget,        \* compaction_token_budget
  MinSummary,    \* min_summary_tokens
  KeepFirst, MaxSize,  \* distortion_keep_first, distortion_max_size
  NTurns,        \* distortion_n_turns
  WindowMin, WindowMax, \* min_tokens and max_tokens of the sweep
  Specs,         \* the sweep's specs, [mask, keepFirst, keepLast]
  None           \* a failed score

ASSUME ScoringAssumption ==
  /\ Callers \subseteq {"random", "threshold", "sweep"}
  /\ MinPrefix \in Nat /\ MinSuffix \in Nat
  /\ SplitAt \in Nat /\ Budget \in Nat /\ SplitAt > Budget
  /\ MinSummary \in Nat /\ SummarySizes # {}
  /\ WindowMin \in Nat /\ WindowMax \in Nat
  /\ NTurns \in Nat \ {0}
  /\ KeepFirst \in Nat \ {0, 1} /\ MaxSize \in Nat
  /\ \A spec \in Specs : /\ spec.mask \in BOOLEAN
                        /\ spec.keepFirst \in Nat \ {0, 1} /\ spec.keepLast \in Nat
  /\ \A run \in Runs : Recorded(run)

VARIABLES
  caller,    \* rigid
  log,       \* rigid: the recorded run
  pc,
  cut,       \* << >> or the cut trajectory, with the system prompt used
  contexts,  \* x contexts computed so far, depth by depth
  depths,    \* candidate -> differences of the depths scored so far
  score      \* candidate -> << >> (none yet), <<None>> or <<differences>>

vars == <<caller, log, pc, cut, contexts, depths, score>>

Candidates == IF caller = "sweep" THEN Specs ELSE SummarySizes

Init ==
  /\ caller \in Callers /\ log \in Runs
  /\ pc = "split"
  /\ cut = << >>
  /\ contexts = << >>
  /\ depths = [c \in Candidates |-> << >>]
  /\ score = [c \in Candidates |-> << >>]

\* The trainer drops what leaves the summary no room beside head and tail.
Fits(t) == CompactionTokens(t, KeepFirst, KeepTurns(MaxSize, KeepFirst))
             <= Budget - MinSummary

\* The cuts a caller may make.  The sweep takes the system prompt from the
\* uncut run and passes over runs without a step.
Cuts ==
  LET t == FromCollect(log)
      thresholds == ThresholdSplit(t, SplitAt, MinPrefix, MinSuffix,
                                   SplitAt - Budget)
  IN  CASE caller = "random" ->
             {WithPrefix(t, k) : k \in SampleCuts(t, MinPrefix, MinSuffix)}
        [] caller = "threshold" -> {s \in ToSet(thresholds) : Fits(s)}
        [] caller = "sweep" ->
             {[WithPrefix(t, 2 * k) EXCEPT !.sys = t.sys] :
                k \in SplitTurns(t, WindowMin, WindowMax, MinPrefix, MinSuffix)}

Drop ==
  /\ pc = "split" /\ Cuts = {}
  /\ pc' = "dropped"
  /\ UNCHANGED <<caller, log, cut, contexts, depths, score>>

Split ==
  /\ pc = "split"
  /\ \E t \in Cuts : cut' = << t >>
  /\ pc' = "contexts"
  /\ UNCHANGED <<caller, log, contexts, depths, score>>

Partial == StepsToMessages(cut[1].steps, cut[1].sys, cut[1].task)

\* The actions to predict: the sweep's only one is the first assistant step
\* and has no history before it.
Actions ==
  LET turns == ContinuationTurns(cut[1].continuation, NTurns)
  IN  IF caller = "sweep"
      THEN [d \in 1..Min({1, Len(turns)}) |-> [turns[d] EXCEPT !.history = << >>]]
      ELSE turns

NextAction == Actions[Len(contexts) + 1]

XMessages == StripReasoning(Partial \o NextAction.history)

PrecomputeContext ==
  /\ pc = "contexts" /\ Len(contexts) < Len(Actions)
  /\ contexts' = Append(contexts,
       [history |-> NextAction.history, action |-> NextAction.action,
        x |-> XMessages,
        logprobs |-> XLogprobs(XMessages, Generation(NextAction.action))])
  /\ UNCHANGED <<caller, log, pc, cut, depths, score>>

\* The last action has its context, or the server fails on the next one: with
\* a context the candidates are scored on those there are, without any all of
\* them fail.
EndContexts ==
  /\ pc = "contexts"
  /\ IF contexts = << >>
     THEN pc' = "done" /\ score' = [c \in Candidates |-> << None >>]
     ELSE pc' = "score" /\ UNCHANGED score
  /\ UNCHANGED <<caller, log, cut, contexts, depths>>

\* The compacted context of a candidate, without the history of a depth.
BaseZ(c) ==
  LET z(size) == SummaryAsToolTurn(size, Known(cut[1].steps))
  IN  IF caller # "sweep" THEN ZMessages(z(c), Partial, MaxSize, KeepFirst)
      ELSE IF c.mask THEN MaskenvMessages(Partial, c.keepFirst, c.keepLast)
      ELSE ZMessages(z(Min(SummarySizes)), Partial,
                     MaxSizeOf(c.keepFirst, c.keepLast), c.keepFirst)

ZAt(c, d) == StripReasoning(BaseZ(c) \o contexts[d].history)

ScoreDepth(c) ==
  /\ pc = "score" /\ score[c] = << >> /\ Len(depths[c]) < Len(contexts)
  /\ LET d == Len(depths[c]) + 1
     IN  depths' = [depths EXCEPT ![c] = Append(@,
           Differences(contexts[d].logprobs, ZAt(c, d),
                       Generation(contexts[d].action)))]
  /\ UNCHANGED <<caller, log, pc, cut, contexts, score>>

FailedScore_Averages(c) == << depths[c] >>

\* One failed depth fails the candidate, whatever the others were.
FailedScore(c) == << None >>

ScoringFails(c) ==
  /\ pc = "score" /\ score[c] = << >> /\ Len(depths[c]) < Len(contexts)
  /\ score' = [score EXCEPT ![c] = FailedScore(c)]
  /\ UNCHANGED <<caller, log, pc, cut, contexts, depths>>

Scored(c) ==
  /\ pc = "score" /\ score[c] = << >> /\ Len(depths[c]) = Len(contexts)
  /\ score' = [score EXCEPT ![c] = << depths[c] >>]
  /\ UNCHANGED <<caller, log, pc, cut, contexts, depths>>

End ==
  /\ pc = "score" /\ \A c \in Candidates : score[c] # << >>
  /\ pc' = "done"
  /\ UNCHANGED <<caller, log, cut, contexts, depths, score>>

Next == \/ Drop \/ Split \/ PrecomputeContext \/ EndContexts \/ End
        \/ \E c \in Candidates : ScoreDepth(c) \/ ScoringFails(c) \/ Scored(c)

Spec == Init /\ [][Next]_vars

-----------------------------------------------------------------------------
(* Properties *)

\* The result at a position belongs to the call before it.
Answers(steps, i) ==
  i > 1 /\ steps[i - 1].role = "assistant" /\ steps[i].of = steps[i - 1].id

\* threshold_split and its caller keep whole turns: no cut and no cap parts a
\* call from its result, for all runs, parallel calls and format errors
\* included; only the call the run ended in stays without one.
WholeTurns ==
  cut # << >> =>
    \A part \in {cut[1].steps, cut[1].continuation} :
      /\ \A i \in At(part, "tool") : Answers(part, i)
      /\ \A i \in At(part, "assistant") :
           \/ i < Len(part) /\ Answers(part, i + 1)
           \/ i = Len(part) /\ part[i] = Last(FromCollect(log).steps)

\* "The real turns and their observations": at every depth the reference
\* context tells exactly the kept steps of the run before the action, in order
\* and without reasoning, and the compacted one tells of the same past: nothing
\* of it is missing, nothing of what is to be predicted is given away.
Past(action) ==
  LET steps == FromCollect(log).steps
  IN  Selected(steps, {i \in DOMAIN steps : steps[i].id < action.id})

Ids(msgs) == Known(msgs) \ {0}

SamePast ==
  \A d \in DOMAIN contexts :
    LET x == contexts[d].x
    IN  /\ From(x, 2) = [i \in DOMAIN Past(contexts[d].action) |->
                           Unreasoned(Past(contexts[d].action)[i])]
        /\ \A c \in Candidates :
             /\ Ids(ZAt(c, d)) \union {1} = Ids(x) \union {1}
             /\ \A i \in DOMAIN ZAt(c, d) : ~Reasons(ZAt(c, d)[i])

\* The tokens of an action, but for a newline that melts into the prompt.
ComparedTokens(action) ==
  IF Reasons(action) THEN Generation(action) ELSE Tail(Generation(action))

\* Every difference is taken between the same token of the action under both
\* contexts, and all candidates that have a score have it for the same tokens
\* of the same depths: "all group members average over the same M depths".
SameTokens ==
  \A c \in Candidates :
    score[c] \notin {<< >>, << None >>} =>
      score[c] = << [d \in DOMAIN contexts |->
                       LET y == ComparedTokens(contexts[d].action)
                       IN  [t \in DOMAIN y |-> <<y[t], y[t]>>]] >>

\* threshold_split "mirrors the eval-time compression trigger": the prefix
\* reaches it, not a turn earlier, and the parts the code adds up stay under
\* it, head and tail by their contents, the least summary, and as EVENT blocks
\* all that is left to predict; in the sweep the prefix is inside the window.
FitsWindow ==
  cut # << >> =>
    LET steps == cut[1].steps
        n     == Len(steps) \div 2
    IN  /\ caller = "threshold" =>
             /\ EventTokens(steps) >= SplitAt
             /\ EventTokens(Take(steps, 2 * n - 2)) < SplitAt
             /\ CompactionTokens(cut[1], KeepFirst, KeepTurns(MaxSize, KeepFirst))
                  + MinSummary + EventTokens(cut[1].continuation) <= SplitAt
        /\ caller = "sweep" => EventTokens(steps) \in WindowMin..WindowMax
=============================================================================
