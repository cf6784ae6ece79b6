-------------------------- MODULE SummarizingAgent --------------------------
(***************************************************************************)
(* The agent that compacts its own context (agent/summarization_agent.py)  *)
(* inside mini-swe-agent's loop: query the model, execute its tool calls,  *)
(* append the observations, repeat.  Before every query the history is     *)
(* handed to the compactor when it is over budget; each compaction is      *)
(* recorded in memory, then in a file, then in count.json, and only then   *)
(* does the compacted history replace the old one.                         *)
(***************************************************************************)
EXTENDS Compaction

CONSTANTS
  Strategies,      \* what a run may be configured with: "none",
                   \* "truncation", "mask", "model", "cliff", "subtask"
  KeepFirst, KeepLastTurns, CompressAtTokens, CompressAtTurns,
  StepLimit,       \* mini-swe-agent's bound on model calls
  MaxParallel,     \* tool calls an assistant message may carry
  Outputs,         \* tool outputs: records [size, lines, bug]
  FormatErrors,    \* format errors the model makes at most in a run
  None             \* no prompt count reported yet, or no count.json

ASSUME AgentAssumption ==
  /\ Strategies \subseteq
       {"none", "truncation", "mask", "model", "cliff", "subtask"}
  /\ KeepFirst \in Nat \ {0, 1} /\ KeepLastTurns \in Nat
  /\ CompressAtTokens \in Nat /\ CompressAtTurns \in Nat
  /\ StepLimit \in Nat /\ MaxParallel \in Nat \ {0} /\ FormatErrors \in Nat
  /\ Outputs \subseteq [size : Nat, lines : Nat, bug : BOOLEAN]
  /\ None \notin Nat

VARIABLES
  strategy,           \* the strategy of this run, fixed at its start
  pc,                 \* where the single-threaded loop is
  messages,           \* self.messages
  log,                \* history: every message ever appended, uncompacted
  n_calls,            \* self.n_calls
  last_prompt_tokens, \* self.last_prompt_tokens
  compressions,       \* self.compressions
  pending,            \* the compactor's result while its record is saved
  saved,              \* indices with a compaction_NNN.json on disk
  countFile,          \* n_compressions in count.json, or None
  formatErrors        \* history: format errors made so far

vars == <<strategy, pc, messages, log, n_calls, last_prompt_tokens,
          compressions, pending, saved, countFile, formatErrors>>

store == <<compressions, pending, saved, countFile>>

n_compressions == Len(compressions)

-----------------------------------------------------------------------------
\* The trigger

ContextTokens == IF last_prompt_tokens # None THEN last_prompt_tokens
                 ELSE Tokens(messages)

ContextTurns == Cardinality(At(messages, "tool"))

OverBudget == IF CompressAtTurns > 0 THEN ContextTurns >= CompressAtTurns
              ELSE ContextTokens >= CompressAtTokens

ShouldCompact == /\ strategy # "none"
                 /\ Len(messages) > KeepFirst + 2
                 /\ OverBudget

Compactions ==
  CASE strategy = "truncation" -> Truncation(messages, KeepFirst, KeepLastTurns)
    [] strategy = "mask"       -> Mask(messages, KeepFirst, KeepLastTurns)
    [] strategy = "model"      -> ModelBased(messages, KeepFirst, KeepLastTurns)
    [] strategy = "cliff"      -> Cliff(messages, KeepFirst, KeepLastTurns)
    [] strategy = "subtask"    -> Subtask(messages)
    [] OTHER                   -> {}

\* The no-reduction guard: rejected unless it shortens the list or the text.
Reduces(r) == \/ Len(r.messages) < Len(messages)
              \/ Tokens(r.messages) < Tokens(messages)

\* DefaultAgent.query raises LimitsExceeded once n_calls reaches the limit.
WithinLimits == n_calls < StepLimit

\* The NNN of the compaction_NNN.json a record is written to.
RecordFile_Overwritten == 0

RecordFile == Last(compressions).index

\* The number written to count.json.
CountToWrite == n_compressions

-----------------------------------------------------------------------------
\* run() starts from the rendered system and task messages; __init__ has
\* tried to write n_compressions = 0.
Init ==
  /\ strategy \in Strategies
  /\ pc = "query"
  /\ messages = <<Plain("system", 1, 1), Plain("user", 2, 1)>>
  /\ log = messages
  /\ n_calls = 0
  /\ last_prompt_tokens = None
  /\ compressions = << >>
  /\ pending = << >>
  /\ saved = {}
  /\ countFile \in {0, None}
  /\ formatErrors = 0

SkipCompaction ==
  /\ pc = "query"
  /\ \/ ~ShouldCompact
     \/ ShouldCompact /\ \E r \in Compactions : ~Reduces(r)
  /\ pc' = "call"
  /\ UNCHANGED <<strategy, messages, log, n_calls, last_prompt_tokens, store,
                 formatErrors>>

\* The compactor returned less: count it and build its record.
Compact ==
  /\ pc = "query"
  /\ ShouldCompact
  /\ \E r \in Compactions :
       /\ Reduces(r)
       /\ pending' = <<r>>
       /\ compressions' = Append(compressions,
            [index |-> Len(compressions), kind |-> r.kind,
             n_msgs_before |-> Len(messages),
             n_msgs_after  |-> Len(r.messages),
             input_messages |-> messages])
  /\ pc' = "save"
  /\ UNCHANGED <<strategy, messages, log, n_calls, last_prompt_tokens, saved,
                 countFile, formatErrors>>

\* _save_compaction, first write: an error here is not caught and ends the
\* run with the compaction counted but not applied.
SaveRecord ==
  /\ pc = "save"
  /\ \/ saved' = saved \union {RecordFile} /\ pc' = "count"
     \/ saved' = saved /\ pc' = "done"
  /\ UNCHANGED <<strategy, messages, log, n_calls, last_prompt_tokens,
                 compressions, pending, countFile, formatErrors>>

\* _save_compaction, second write (best effort), and the replacement.
SaveCount ==
  /\ pc = "count"
  /\ countFile' \in {CountToWrite, countFile}
  /\ messages' = pending[1].messages
  /\ pending' = << >>
  /\ pc' = "call"
  /\ UNCHANGED <<strategy, log, n_calls, last_prompt_tokens, compressions,
                 saved, formatErrors>>

\* super().query(): the assistant message is appended; a response without
\* usage leaves last_prompt_tokens alone.
ModelAnswers ==
  /\ pc = "call"
  /\ WithinLimits
  /\ n_calls' = n_calls + 1
  /\ \E k \in 1..MaxParallel :
       LET m == [Plain("assistant", Len(log) + 1, 1) EXCEPT !.calls = k]
       IN  messages' = Append(messages, m) /\ log' = Append(log, m)
  /\ \/ last_prompt_tokens' = Tokens(messages)
     \/ UNCHANGED last_prompt_tokens
  /\ pc' = "act"
  /\ UNCHANGED <<strategy, store, formatErrors>>

\* super().query() raises FormatError: run() appends the error as a user
\* message and the statements after the call in query() do not run.
ModelFormatError ==
  /\ pc = "call"
  /\ WithinLimits
  /\ formatErrors < FormatErrors
  /\ n_calls' = n_calls + 1
  /\ LET m == Plain("user", Len(log) + 1, 1)
     IN  messages' = Append(messages, m) /\ log' = Append(log, m)
  /\ formatErrors' = formatErrors + 1
  /\ pc' = "query"
  /\ UNCHANGED <<strategy, last_prompt_tokens, store>>

\* One tool message per call of the last assistant message.
ExecuteActions ==
  /\ pc = "act"
  /\ \E o \in [1..Last(messages).calls -> Outputs] :
       LET obs == [k \in DOMAIN o |->
             [Plain("tool", Len(log) + k, o[k].size) EXCEPT
                !.lines = o[k].lines, !.bug = o[k].bug, !.of = Len(log)]]
       IN  messages' = messages \o obs /\ log' = log \o obs
  /\ pc' = "query"
  /\ UNCHANGED <<strategy, n_calls, last_prompt_tokens, store, formatErrors>>

\* The step limit, an API error, a submission; a digest of another role or
\* themes that are no dicts raise out of the compactor.
Finish ==
  /\ \/ pc = "query" /\ ShouldCompact /\ strategy \in {"cliff", "subtask"}
     \/ pc = "call"
     \/ pc = "act"
  /\ pc' = "done"
  /\ UNCHANGED <<strategy, messages, log, n_calls, last_prompt_tokens, store,
                 formatErrors>>

Next == \/ SkipCompaction \/ Compact \/ SaveRecord \/ SaveCount
        \/ ModelAnswers \/ ModelFormatError \/ ExecuteActions \/ Finish

Spec == Init /\ [][Next]_vars

-----------------------------------------------------------------------------
(* Properties *)

CompactionRecord == [index : Nat, kind : Kinds, n_msgs_before : Nat,
                     n_msgs_after : Nat, input_messages : Seq(Message)]

\* The part of the type invariant that is about the histories themselves.
HistoriesOK ==
  /\ messages \in Seq(Message) /\ log \in Seq(Message)
  /\ compressions \in Seq(CompactionRecord)
  /\ pending \in Seq([messages : Seq(Message), kind : Kinds])

TypeOK ==
  /\ HistoriesOK /\ strategy \in Strategies
  /\ pc \in {"query", "save", "count", "call", "act", "done"}
  /\ n_calls \in 0..StepLimit /\ formatErrors \in 0..FormatErrors
  /\ saved \subseteq Nat /\ countFile \in Nat \union {None}

\* The first keep_first messages of the run stay in front of the context,
\* verbatim, through any number of compactions (SummarizingAgent docstring);
\* the subtask strategy splits at its own (2, 0) and keeps two.
HeadVerbatim ==
  \A i \in 1..(IF strategy = "subtask" THEN 2 ELSE KeepFirst) :
    i <= Len(log) => i <= Len(messages) /\ messages[i] = log[i]

\* The last keep_last_turns complete turns of the run, with everything said
\* since, are the end of the context, verbatim; the subtask strategy promises
\* no turn.
RecentTurnsVerbatim ==
  strategy # "subtask" =>
    LET recent == LastNTurns(From(log, KeepFirst), KeepLastTurns)
    IN  /\ Len(recent) <= Len(messages)
        /\ From(messages, Len(messages) - Len(recent)) = recent

\* The assistant message a tool message belongs to: the nearest one before
\* it, with only tool messages in between.
AnswersCall(i) ==
  \E j \in 1..(i - 1) :
    /\ messages[j].role = "assistant"
    /\ \A k \in (j + 1)..i : messages[k].role = "tool"
    /\ messages[j].id = messages[i].of
    /\ i - j <= messages[j].calls

\* last_n_turns: "Always ends on a tool message so the context is never cut
\* mid-turn".  No compaction by turns leaves a tool result whose call is gone:
\* the chat API rejects such a history.
NeverCutMidTurn ==
  strategy # "subtask" => \A i \in At(messages, "tool") : AnswersCall(i)

\* When the model is queried every call in the context has all its results
\* right behind it, unless a format error among the first keep_first messages
\* made the head end in a call.
CallsAnswered ==
  pc = "call" /\ Len(log) >= KeepFirst /\ log[KeepFirst].role # "assistant" =>
    \A j \in At(messages, "assistant") :
      \A i \in (j + 1)..(j + messages[j].calls) :
        i <= Len(messages) /\ messages[i].role = "tool"
          /\ messages[i].of = messages[j].id

\* The subtask strategy takes a user message of the middle for the task and
\* passes over it, so it keeps what it promises in runs without format errors.
NothingPassedOver == strategy = "subtask" => formatErrors = 0

NoneFailed ==
  \A k \in DOMAIN compressions : compressions[k].kind # "summary_failed"

\* No digest that was digested again was longer than what is told whole.
DigestsFit ==
  \A k \in DOMAIN compressions :
    LET input == compressions[k].input_messages
    IN  \A i \in DOMAIN input :
          input[i].form = "summary" => FitsDigest(input[i])

\* What compaction removed is still told by some summary in the context,
\* through summaries of summaries, as long as no summarizer call failed.  The
\* mechanical digest owes only the messages it does not cap, while it is not
\* capped itself.
NoContextLost ==
  /\ strategy \in {"model", "cliff"} /\ NoneFailed
  /\ strategy = "cliff" => DigestsFit
  => \A i \in DOMAIN log :
       strategy = "model" \/ FitsDigest(log[i]) => log[i].id \in Known(messages)

\* "Keep PRIOR per-theme summaries verbatim": however often the history is
\* segmented again, no summary made before is segmented, changed or dropped.
ThemeSummariesStay ==
  [][strategy = "subtask" =>
       \A i \in DOMAIN messages :
         messages[i].form = "summary" => messages[i] \in ToSet(messages')]_vars

\* The surviving messages of the run are in the order they were made in and
\* none is there twice.
Chronological ==
  \A i, j \in DOMAIN messages :
    i < j /\ messages[i].id # 0 /\ messages[j].id # 0
      => messages[i].id < messages[j].id

\* The results of parallel calls are turns of their own for last_n_turns: a
\* strategy that drops the middle may cut between them.
MayCutMidTurn ==
  strategy \notin {"none", "mask"} /\ \E i \in DOMAIN log : log[i].calls > 1

\* What the chat API is sent is well formed: no result without its call, no
\* call without its results, nothing out of order or twice.  (Subtask
\* boundaries are the model's own choice.)
WellFormed ==
  strategy # "subtask" =>
    /\ Chronological
    /\ ~MayCutMidTurn => NeverCutMidTurn /\ CallsAnswered

\* Masking never costs the agent a short output that carries an error or a
\* diff, however often the history is masked again.
BugContextKept ==
  \A i \in DOMAIN messages :
    messages[i].form = "masked" => ~KeepTagged(log[messages[i].id])

\* Everything the run ever said is in the context or in the input of a
\* compaction whose record is on disk: compactions can be audited against
\* their input even if the run dies while saving one.
AuditComplete ==
  \A i \in DOMAIN log :
    \/ log[i] \in ToSet(messages)
    \/ \E k \in DOMAIN compressions :
         /\ compressions[k].index \in saved
         /\ log[i] \in ToSet(compressions[k].input_messages)

\* Whatever the strategy folded away, the last thing that happened is
\* readable ("fall back to keeping the last theme verbatim so the current work
\* is always readable").
CurrentWorkReadable ==
  pc = "call" /\ NothingPassedOver =>
    \E i \in DOMAIN messages : messages[i] = Last(log)
=============================================================================
