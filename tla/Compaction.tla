----------------------------- MODULE Compaction -----------------------------
(***************************************************************************)
(* The message histories of the coding agent and the strategies that       *)
(* shrink them (src/tts/summarization/).  A strategy is an operator from a *)
(* history to the SET of results it may return: model-written summaries    *)
(* and model-chosen subtask boundaries are nondeterministic.               *)
(*                                                                         *)
(* A message keeps what the properties tell apart.  `id` is its position   *)
(* in the full log of the run (0 for text a strategy inserted), `calls`    *)
(* how many tool calls an assistant message makes, `of` the assistant      *)
(* message a tool message answers, `claim` the line count a placeholder    *)
(* prints, `covers` the ids whose content a summary was made from whole.   *)
(***************************************************************************)
EXTENDS Integers, FiniteSets, Sequences, SequencesExt

CONSTANTS
  KeepN,           \* mask: tool observations of the middle kept verbatim
  LongOutput,      \* mask: outputs longer than this lose their bug-context tag
  PlaceholderSize, \* tokens of the "(N lines omitted)" placeholder
  KeepRecentSteps, \* subtask: steps of an unfinished theme kept verbatim
  SummarySizes,    \* tokens a generated summary may have
  DigestCap,       \* cliff: [role |-> size up to which a digest tells the whole
                   \* of a message (result_max_chars, thought_max_chars,
                   \* human_max_chars)]
  Themes           \* subtask: the theme lists the model may answer with,
                   \* [n |-> the set of lists offered for n steps]; a theme is
                   \* [start, end (0-based steps), in_progress, done (it has a
                   \* summary)], and a list arrives sorted by start

ASSUME CompactionAssumption ==
  /\ KeepN \in Nat /\ LongOutput \in Nat /\ PlaceholderSize \in Nat
  /\ KeepRecentSteps \in Nat \ {0}
  /\ SummarySizes \subseteq Nat
  /\ DigestCap \in [{"system", "user", "assistant", "tool"} -> Nat]
  /\ \A n \in DOMAIN Themes :
       Themes[n] \subseteq Seq([start : Int, end : Int,
                               in_progress : BOOLEAN, done : BOOLEAN])

Roles == {"system", "user", "assistant", "tool"}

Message == [role : Roles, id : Nat, size : Nat, lines : Nat, bug : BOOLEAN,
            form : {"verbatim", "masked", "summary"}, claim : Nat,
            calls : Nat, of : Nat, covers : SUBSET Nat]

Plain(role, id, size) ==
  [role |-> role, id |-> id, size |-> size, lines |-> 1, bug |-> FALSE,
   form |-> "verbatim", claim |-> 0, calls |-> 0, of |-> 0, covers |-> {}]

\* _tokens_of: the (estimated or tokenized) length of the rendered messages.
Tokens(msgs) == MapThenSumSet(LAMBDA i : msgs[i].size, DOMAIN msgs)

\* Positions of the messages of a role, and of the tool observations.
At(msgs, role) == {i \in DOMAIN msgs : msgs[i].role = role}

\* What a reader of the messages can still learn about: the ids present and
\* the ids the summaries among them stand for.
KnownAt(msgs, positions) ==
  UNION {{msgs[i].id} \union msgs[i].covers : i \in positions}

Known(msgs) == KnownAt(msgs, DOMAIN msgs)

Take(msgs, n) == SubSeq(msgs, 1, Min({n, Len(msgs)}))

From(msgs, k) == SubSeq(msgs, k + 1, Len(msgs))

\* The messages at some positions, in their order.
Nth(positions, k) ==
  CHOOSE i \in positions : Cardinality({j \in positions : j <= i}) = k

Selected(msgs, positions) ==
  [k \in 1..Cardinality(positions) |-> msgs[Nth(positions, k)]]

-----------------------------------------------------------------------------
\* base.py

\* The longest suffix with at most n tool observations: it starts right after
\* the (n+1)-th tool observation from the end, and is everything when there
\* are not that many.  (Definitions with an underscore in their name are the
\* mutants the properties are tried against; see the README.)
LastNTurns(msgs, n) ==
  LET tools  == At(msgs, "tool")
      rest(i) == Cardinality({t \in tools : t >= i})
  IN  IF n <= 0 THEN << >>
      ELSE From(msgs, Cardinality({i \in DOMAIN msgs : rest(i) > n}))

SplitHeadTail_ShortHead(msgs, keepFirst, keepLast) ==
  LET tail == LastNTurns(From(msgs, keepFirst), keepLast)
  IN  [head   |-> SubSeq(msgs, 1, keepFirst - 1),
       middle |-> SubSeq(msgs, keepFirst, Len(msgs) - Len(tail)),
       tail   |-> tail]

SplitHeadTail_ShortTail(msgs, keepFirst, keepLast) ==
  LET tail == LastNTurns(From(msgs, keepFirst), keepLast - 1)
  IN  [head   |-> SubSeq(msgs, 1, keepFirst),
       middle |-> SubSeq(msgs, keepFirst + 1, Len(msgs) - Len(tail)),
       tail   |-> tail]

SplitHeadTail_TailByMessages(msgs, keepFirst, keepLast) ==
  LET end == Len(msgs) - keepLast
  IN  [head   |-> SubSeq(msgs, 1, keepFirst),
       middle |-> SubSeq(msgs, keepFirst + 1, end),
       tail   |-> From(msgs, end)]

SplitHeadTail(msgs, keepFirst, keepLast) ==
  LET rest == From(msgs, keepFirst)
      tail == LastNTurns(rest, keepLast)
      end  == Len(msgs) - Len(tail)
  IN  [head   |-> Take(msgs, keepFirst),
       middle |-> SubSeq(msgs, keepFirst + 1, end),
       tail   |-> tail]

Kinds == {"truncation", "mask", "summary", "summary_failed"}

Result(msgs, kind) == [messages |-> msgs, kind |-> kind]

-----------------------------------------------------------------------------
\* truncation_based.py

Truncation(msgs, keepFirst, keepLast) ==
  LET s == SplitHeadTail(msgs, keepFirst, keepLast)
  IN  {Result(s.head \o s.tail, "truncation")}

-----------------------------------------------------------------------------
\* mask_based.py

\* should_keep_tool_output, unless the output is too long to be worth it.
KeepTagged(m) == m.bug /\ m.size <= LongOutput

\* _masked_content: the placeholder counts the lines of the content it
\* replaces and is itself one line.
Masked(m) == [m EXCEPT !.form = "masked", !.claim = m.lines, !.lines = 1,
                       !.size = PlaceholderSize, !.bug = FALSE]

\* The slice tool_idx[keep_from:] with keep_from = len(tool_idx) - keep_n:
\* below zero, Python counts keep_from from the end of the list again.
RecentFrom(nTools) ==
  LET k == nTools - KeepN
  IN  IF KeepN = 0 THEN nTools
      ELSE IF k >= 0 THEN k
      ELSE IF nTools + k >= 0 THEN nTools + k ELSE 0

MaskEnv_IgnoresTags(msgs) ==
  [i \in DOMAIN msgs |->
     IF msgs[i].role = "tool" THEN Masked(msgs[i]) ELSE msgs[i]]

MaskEnv(msgs) ==
  LET tools  == At(msgs, "tool")
      rank(i) == Cardinality({t \in tools : t < i})
      recent == {i \in tools : rank(i) >= RecentFrom(Cardinality(tools))}
  IN  [i \in DOMAIN msgs |->
         IF i \in tools \ recent /\ ~KeepTagged(msgs[i])
         THEN Masked(msgs[i]) ELSE msgs[i]]

Mask(msgs, keepFirst, keepLast) ==
  LET s == SplitHeadTail(msgs, keepFirst, keepLast)
  IN  {Result(s.head \o MaskEnv(s.middle) \o s.tail, "mask")}

-----------------------------------------------------------------------------
\* data/agent_trajectory.py: the events a summarizer is shown.

\* Positions of the messages that become steps: neither the system message
\* nor the first user message.
StepPositions_FreshOnly(msgs) ==
  {i \in DOMAIN msgs : msgs[i].role # "system" /\ msgs[i].form # "summary"}

StepPositions(msgs) ==
  LET users == At(msgs, "user")
  IN  {i \in DOMAIN msgs :
         /\ msgs[i].role # "system"
         /\ i \in users => \E u \in users : u < i}

MessagesToSteps(msgs) == Selected(msgs, StepPositions(msgs))

-----------------------------------------------------------------------------
\* model_based.py

SummaryAsToolTurn(size, covered) ==
  << [Plain("assistant", 0, 1) EXCEPT !.form = "summary", !.calls = 1],
     [Plain("tool", 0, size) EXCEPT !.form = "summary", !.covers = covered] >>

\* One summary of the whole history, or plain truncation when the call fails.
ModelBased(msgs, keepFirst, keepLast) ==
  LET s == SplitHeadTail(msgs, keepFirst, keepLast)
      z(size) == SummaryAsToolTurn(size, KnownAt(msgs, StepPositions(msgs)))
  IN  {Result(s.head \o z(size) \o s.tail, "summary") : size \in SummarySizes}
        \union {Result(s.head \o s.tail, "summary_failed")}

-----------------------------------------------------------------------------
\* cliff_based.py: one user message digests the middle, unless the package
\* sees no gain.  A tool result longer than its cap is dropped from the digest,
\* any other text is cut at its own.

FitsDigest(m) == m.size <= DigestCap[m.role]

Digested(middle) ==
  KnownAt(middle, {i \in DOMAIN middle : FitsDigest(middle[i])})

Cliff(msgs, keepFirst, keepLast) ==
  LET s == SplitHeadTail(msgs, keepFirst, keepLast)
      digest(size) == [Plain("user", 0, size) EXCEPT
                         !.form = "summary", !.covers = Digested(s.middle)]
      unchanged == {Result(msgs, "summary")}
  IN  IF s.middle = << >> THEN unchanged
      ELSE unchanged \union
             {Result(s.head \o <<digest(size)>> \o s.tail, "summary") :
                size \in SummarySizes}

-----------------------------------------------------------------------------
\* subtask_based.py

Clamp(i, n) == IF i < 0 THEN 0 ELSE IF i > n - 1 THEN n - 1 ELSE i

\* <subtask-summary> text of the model for the steps lo..hi (0-based).
SubtaskSummary(steps, lo, hi) ==
  [Plain("user", 0, 1) EXCEPT !.form = "summary",
     !.covers = Known(SubSeq(steps, lo + 1, hi + 1))]

\* The note that older steps were folded: it carries the same header but gives
\* their numbers only.
FoldNote == [Plain("user", 0, 1) EXCEPT !.form = "summary"]

\* The recent steps of lo..hi verbatim, then the note that stands for the
\* older ones.
KeepTail_OffByOne(steps, lo, hi) ==
  LET fold == IF hi - lo + 1 > KeepRecentSteps
              THEN hi - lo + 1 - KeepRecentSteps ELSE 0
  IN  SubSeq(steps, lo + fold + 1, hi)
        \o (IF fold > 0 THEN <<FoldNote>> ELSE << >>)

KeepTail(steps, lo, hi) ==
  LET fold == IF hi - lo + 1 > KeepRecentSteps
              THEN hi - lo + 1 - KeepRecentSteps ELSE 0
  IN  SubSeq(steps, lo + fold + 1, hi + 1)
        \o (IF fold > 0 THEN <<FoldNote>> ELSE << >>)

ThemeBlock(steps, t) ==
  LET a  == Clamp(t.start, Len(steps))
      b  == Clamp(t.end, Len(steps))
      lo == IF b < a THEN b ELSE a
      hi == IF b < a THEN a ELSE b
  IN  IF t.in_progress \/ ~t.done THEN KeepTail(steps, lo, hi)
      ELSE <<SubtaskSummary(steps, lo, hi)>>

\* No theme in progress: the tail of the last one once more, bounds clamped
\* but not swapped.
LastThemeAgain(steps, themes) ==
  IF themes = << >> \/ \E k \in DOMAIN themes : themes[k].in_progress
  THEN << >>
  ELSE KeepTail(steps, Clamp(Last(themes).start, Len(steps)),
                       Clamp(Last(themes).end, Len(steps)))

\* What the model may answer when it is shown n steps.
Offered(n) == UNION {Themes[k] : k \in DOMAIN Themes \intersect {n}}

\* Summaries of earlier compactions are kept as they are.
PriorSummaries_Forgotten(middle) == << >>

PriorSummaries(middle) ==
  Selected(middle, {i \in DOMAIN middle : middle[i].form = "summary"})

\* The blocks of the first k themes, for every k.
ThemeBlocks(steps, themes) ==
  LET blocks[k \in 0..Len(themes)] ==
        IF k = 0 THEN << >>
        ELSE blocks[k - 1] \o ThemeBlock(steps, themes[k])
  IN  blocks

Subtask(msgs) ==
  LET s     == SplitHeadTail(msgs, 2, 0)
      prior == PriorSummaries(s.middle)
      fresh == Selected(s.middle,
                        {i \in DOMAIN s.middle : s.middle[i].form # "summary"})
      steps == MessagesToSteps(fresh)
      blocks(themes) == ThemeBlocks(steps, themes)[Len(themes)]
                          \o LastThemeAgain(steps, themes)
  IN  IF steps = << >> THEN {Result(msgs, "summary")}
      ELSE {Result(msgs, "summary_failed")} \union
           {Result(s.head \o prior \o blocks(themes), "summary") :
              themes \in Offered(Len(steps))}

=============================================================================
