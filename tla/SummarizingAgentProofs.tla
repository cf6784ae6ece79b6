----------------------- MODULE SummarizingAgentProofs -----------------------
(***************************************************************************)
(* Proofs about the agent and its compactions, for any strategies, keep    *)
(* parameters, budget, answers and number of steps.                        *)
(*                                                                         *)
(* The log is a history variable: every message ever appended, under the   *)
(* position it got.  IInv relates the context to it: every message of the  *)
(* context is genuine (as logged, masked, or a summary), the first ones    *)
(* are the log's, and what was folded away is in a record on disk.  What a *)
(* strategy returns is described once (Shapes): the history itself, or its *)
(* head, an insertion and its tail; the steps then follow from what is     *)
(* put in front, in the middle and behind.  Recent adds that the last      *)
(* turns of the log end the context, Told that what left it is told by a   *)
(* summary in it; Ordered, Paired, Settled and Whole are about the chat    *)
(* that is sent: its order, and calls and results that belong together.    *)
(***************************************************************************)
EXTENDS SummarizingAgent, CompactionFacts

-----------------------------------------------------------------------------
(* What a strategy returns *)

Split == SplitHeadTail(messages, KeepFirst, KeepLastTurns)

Cut == Len(messages)
         - Len(LastNTurns(From(messages, KeepFirst), KeepLastTurns))

\* What a strategy other than "subtask" puts in the place of the middle.
Inserted(x, kind) ==
  \/ /\ x = << >>
     /\ \/ strategy = "truncation" /\ kind = "truncation"
        \/ strategy = "model" /\ kind = "summary_failed"
  \/ strategy = "mask" /\ kind = "mask" /\ x = MaskEnv(Split.middle)
  \/ /\ strategy = "model" /\ kind = "summary"
     /\ \E z \in SummarySizes :
          x = SummaryAsToolTurn(z, KnownAt(messages, StepPositions(messages)))
  \/ /\ strategy = "cliff" /\ kind = "summary" /\ Split.middle # << >>
     /\ \E z \in SummarySizes :
          x = <<Digest("user", z, Digested(Split.middle))>>

\* A result is the history itself or the head, an insertion and the tail.
LEMMA Shapes ==
  ASSUME NEW T \in SUBSET Message, messages \in Seq(T),
         Len(messages) >= KeepFirst, strategy \in Strategies,
         strategy # "subtask", NEW r \in Compactions
  PROVE  /\ r.kind \in Kinds
         /\ \/ strategy = "cliff" /\ r.messages = messages
            \/ \E x : Inserted(x, r.kind)
                        /\ r.messages = (Split.head \o x) \o Split.tail
<1> DEFINE h == Split.head
           m == Split.middle
           t == Split.tail
<1>1. h \in Seq(T) /\ t \in Seq(T)
  BY SplitParts, AgentAssumption DEF Split
<1>2. h \o t = (h \o << >>) \o t
  <2> HIDE DEF h, t
  <2>1. h \o << >> = h
    BY <1>1
  <2> QED BY <2>1
<1>3. CASE strategy = "none"
  BY <1>3 DEF Compactions
<1>4. CASE strategy = "truncation"
  <2>1. r = Result(h \o t, "truncation")
    BY <1>4 DEF Compactions, Truncation, Split
  <2>2. r.messages = h \o t /\ r.kind = "truncation"
    BY <2>1 DEF Result
  <2> QED BY <1>2, <1>4, <2>2 DEF Inserted, Kinds
<1>5. CASE strategy = "mask"
  <2>1. r = Result(h \o MaskEnv(m) \o t, "mask")
    BY <1>5 DEF Compactions, Mask, Split
  <2>2. r.messages = (h \o MaskEnv(m)) \o t /\ r.kind = "mask"
    BY <2>1 DEF Result
  <2> QED BY <1>5, <2>2 DEF Inserted, Kinds
<1>6. CASE strategy = "model"
  <2> DEFINE x(z) == SummaryAsToolTurn(z, KnownAt(messages, StepPositions(messages)))
  <2>1. \/ r = Result(h \o t, "summary_failed")
        \/ \E z \in SummarySizes : r = Result(h \o x(z) \o t, "summary")
    BY <1>6 DEF Compactions, ModelBased, Split
  <2>2. CASE r = Result(h \o t, "summary_failed")
    <3>1. r.messages = h \o t /\ r.kind = "summary_failed"
      BY <2>2 DEF Result
    <3> QED BY <1>2, <1>6, <3>1 DEF Inserted, Kinds
  <2>3. CASE \E z \in SummarySizes : r = Result(h \o x(z) \o t, "summary")
    <3>1. PICK z \in SummarySizes : r = Result(h \o x(z) \o t, "summary")
      BY <2>3
    <3>2. r.messages = (h \o x(z)) \o t /\ r.kind = "summary"
      BY <3>1 DEF Result
    <3>3. Inserted(x(z), "summary")
      BY <1>6 DEF Inserted
    <3> HIDE DEF x
    <3> QED BY <3>2, <3>3 DEF Kinds
  <2> QED BY <2>1, <2>2, <2>3
<1>7. CASE strategy = "cliff"
  <2> DEFINE x(z) == <<Digest("user", z, Digested(m))>>
  <2>1. \/ r = Result(messages, "summary")
        \/ /\ m # << >>
           /\ \E z \in SummarySizes : r = Result(h \o x(z) \o t, "summary")
    BY <1>7 DEF Compactions, Cliff, Split, Digest
  <2>2. CASE r = Result(messages, "summary")
    BY <1>7, <2>2 DEF Result, Kinds
  <2>3. CASE m # << >> /\ \E z \in SummarySizes : r = Result(h \o x(z) \o t, "summary")
    <3>1. PICK z \in SummarySizes : r = Result(h \o x(z) \o t, "summary")
      BY <2>3
    <3>2. r.messages = (h \o x(z)) \o t /\ r.kind = "summary"
      BY <3>1 DEF Result
    <3>3. Inserted(x(z), "summary")
      BY <1>7, <2>3 DEF Inserted
    <3> HIDE DEF x
    <3> QED BY <3>2, <3>3 DEF Kinds
  <2> QED BY <2>1, <2>2, <2>3
<1> QED BY <1>3, <1>4, <1>5, <1>6, <1>7, AgentAssumption

\* What a digest tells is a set of ids.
LEMMA DigestedType ==
  ASSUME NEW m \in Seq(Message)
  PROVE  Digested(m) \in SUBSET Nat
<1> DEFINE P == {i \in DOMAIN m : FitsDigest(m[i])}
<1>1. P \in SUBSET (DOMAIN m)
  OBVIOUS
<1> HIDE DEF P
<1> QED BY <1>1, KnownType DEF Digested, P

\* What is inserted stays in a set the strategy does not leave.
LEMMA InsertedIn ==
  ASSUME NEW T \in SUBSET Message, messages \in Seq(T), Closed(T, strategy),
         Len(messages) >= KeepFirst, NEW kind, NEW x, Inserted(x, kind)
  PROVE  x \in Seq(T)
<1>1. Split.middle \in Seq(T)
  BY SplitParts, AgentAssumption DEF Split
<1>2. CASE x = << >>
  BY <1>2
<1>3. CASE strategy = "mask" /\ x = MaskEnv(Split.middle)
  BY <1>1, <1>3, MaskType
<1>4. ASSUME NEW z \in SummarySizes, strategy = "model",
             x = SummaryAsToolTurn(z, KnownAt(messages, StepPositions(messages)))
      PROVE  x \in Seq(T)
  <2> DEFINE known == KnownAt(messages, StepPositions(messages))
  <2>1. messages \in Seq(Message) /\ StepPositions(messages) \in SUBSET (DOMAIN messages)
    BY DEF StepPositions
  <2>2. known \in SUBSET Nat
    BY <2>1, KnownType
  <2> HIDE DEF known
  <2>3. z \in Nat /\ "tool" \in Roles
    BY CompactionAssumption DEF Roles
  <2>4. x = <<SummaryCall, Digest("tool", z, known)>>
    BY <1>4 DEF SummaryAsToolTurn, SummaryCall, Digest, known
  <2>5. SummaryCall \in T
    BY <1>4, SummaryCallType DEF Closed
  <2>6. Digest("tool", z, known) \in T
    BY <1>4, <2>2, <2>3, InsertedType DEF Closed
  <2> QED BY <2>4, <2>5, <2>6
<1>5. ASSUME NEW z \in SummarySizes, strategy = "cliff",
             x = <<Digest("user", z, Digested(Split.middle))>>
      PROVE  x \in Seq(T)
  <2> DEFINE known == Digested(Split.middle)
  <2>1. Split.middle \in Seq(Message)
    BY <1>1
  <2>2. known \in SUBSET Nat
    BY <2>1, DigestedType
  <2> HIDE DEF known
  <2>3. z \in Nat /\ "user" \in Roles
    BY CompactionAssumption DEF Roles
  <2>4. Digest("user", z, known) \in T
    BY <1>5, <2>2, <2>3, InsertedType DEF Closed
  <2> QED BY <1>5, <2>4 DEF known
<1> QED BY <1>2, <1>3, <1>4, <1>5 DEF Inserted

\* One history begins with the first n messages of another.
StartsLike(n, new, old) == Len(new) >= n /\ \A i \in 1..n : new[i] = old[i]

\* The parts in one sort of messages.
LEMMA PartsIn ==
  ASSUME NEW T, NEW msgs \in Seq(T), NEW f \in Nat, NEW l \in Nat,
         f <= Len(msgs), NEW s, s = SplitHeadTail(msgs, f, l)
  PROVE  /\ s.head \in Seq(T) /\ s.middle \in Seq(T) /\ s.tail \in Seq(T)
         /\ Len(s.head) = f /\ StartsLike(f, s.head, msgs)
<1>1. s.head \in Seq(T) /\ s.middle \in Seq(T) /\ s.tail \in Seq(T)
  BY SplitParts
<1>2. s.head = Take(msgs, f)
  BY DEF SplitHeadTail
<1>3. Len(s.head) = f /\ \A i \in 1..f : s.head[i] = msgs[i]
  BY <1>2, TakeType
<1> QED BY <1>1, <1>3 DEF StartsLike

\* What is put behind a head leaves the head.
LEMMA FrontKept ==
  ASSUME NEW T, NEW h \in Seq(T), NEW x \in Seq(T), NEW t \in Seq(T)
  PROVE  /\ (h \o x) \o t \in Seq(T)
         /\ StartsLike(Len(h), (h \o x) \o t, h)
<1>1. Len(h) \in Nat /\ Len(x) \in Nat /\ Len(t) \in Nat
  OBVIOUS
<1> DEFINE w == (h \o x) \o t
<1>2. /\ w \in Seq(T) /\ Len(w) = Len(h) + Len(x) + Len(t)
      /\ \A i \in 1..Len(h) : w[i] = h[i]
  BY ThreeParts
<1> HIDE DEF w
<1>3. StartsLike(Len(h), w, h)
  BY <1>1, <1>2 DEF StartsLike
<1> QED BY <1>2, <1>3 DEF w

\* A theme's bounds fall on a step.
LEMMA ClampRange ==
  ASSUME NEW i \in Int, NEW n \in Nat \ {0}
  PROVE  Clamp(i, n) \in 0..(n - 1)
BY DEF Clamp

\* A part of the steps, taken from a valid position on.
LEMMA SliceType ==
  ASSUME NEW T, NEW s \in Seq(T), NEW a \in Nat \ {0}, NEW b \in 0..Len(s)
  PROVE  SubSeq(s, a, b) \in Seq(T)
OBVIOUS

LEMMA SubtaskSummaryIn ==
  ASSUME NEW T \in SUBSET Message, Closed(T, "subtask"), NEW steps \in Seq(T),
         NEW lo \in Nat, NEW hi \in 0..(Len(steps) - 1)
  PROVE  SubtaskSummary(steps, lo, hi) \in T
<1> DEFINE part == SubSeq(steps, lo + 1, hi + 1)
<1>1. part \in Seq(Message)
  BY SliceType
<1> HIDE DEF part
<1>2. Known(part) \in SUBSET Nat
  BY <1>1, KnownType DEF Known
<1>3. SubtaskSummary(steps, lo, hi) = Digest("user", 1, Known(part))
  BY DEF SubtaskSummary, Digest, part
<1>4. "user" \in Roles /\ "user" # "system"
  BY DEF Roles
<1> QED BY <1>2, <1>3, <1>4, InsertedType DEF Closed

LEMMA KeepTailIn ==
  ASSUME NEW T \in SUBSET Message, Closed(T, "subtask"), NEW steps \in Seq(T),
         NEW lo \in 0..(Len(steps) - 1), NEW hi \in 0..(Len(steps) - 1)
  PROVE  KeepTail(steps, lo, hi) \in Seq(T)
<1> DEFINE fold == IF hi - lo + 1 > KeepRecentSteps
                   THEN hi - lo + 1 - KeepRecentSteps ELSE 0
           recent == SubSeq(steps, lo + fold + 1, hi + 1)
           older  == IF fold > 0 THEN <<FoldNote>> ELSE << >>
<1>1. /\ fold \in Nat /\ lo \in Nat /\ hi \in Nat /\ hi + 1 \in 0..Len(steps)
  BY CompactionAssumption
<1> HIDE DEF fold
<1>2. recent \in Seq(T)
  BY <1>1, SliceType
<1>3. older \in Seq(T)
  <2>1. /\ FoldNote \in Message /\ FoldNote.id = 0
        /\ FoldNote.form = "summary" /\ FoldNote.role # "system"
    BY DEF FoldNote, Plain, Message, Roles
  <2>2. FoldNote \in T
    BY <2>1 DEF Closed
  <2> QED BY <2>2
<1>4. KeepTail(steps, lo, hi) = recent \o older
  BY DEF KeepTail, fold
<1> HIDE DEF recent, older
<1> QED BY <1>2, <1>3, <1>4, TwoParts

ThemeType == [start : Int, end : Int, in_progress : BOOLEAN, done : BOOLEAN]

LEMMA ThemeBlockIn ==
  ASSUME NEW T \in SUBSET Message, Closed(T, "subtask"), NEW steps \in Seq(T),
         steps # << >>, NEW t \in ThemeType
  PROVE  ThemeBlock(steps, t) \in Seq(T)
<1> DEFINE a  == Clamp(t.start, Len(steps))
           b  == Clamp(t.end, Len(steps))
           lo == IF b < a THEN b ELSE a
           hi == IF b < a THEN a ELSE b
<1>1. Len(steps) \in Nat \ {0} /\ t.start \in Int /\ t.end \in Int
  BY DEF ThemeType
<1>2. a \in 0..(Len(steps) - 1) /\ b \in 0..(Len(steps) - 1)
  BY <1>1, ClampRange
<1> HIDE DEF a, b
<1>3. lo \in 0..(Len(steps) - 1) /\ hi \in 0..(Len(steps) - 1)
  BY <1>2
<1>4. \/ ThemeBlock(steps, t) = KeepTail(steps, lo, hi)
      \/ ThemeBlock(steps, t) = <<SubtaskSummary(steps, lo, hi)>>
  BY DEF ThemeBlock, a, b
<1> HIDE DEF lo, hi
<1>5. KeepTail(steps, lo, hi) \in Seq(T)
  BY <1>3, KeepTailIn
<1>6. <<SubtaskSummary(steps, lo, hi)>> \in Seq(T)
  <2>1. SubtaskSummary(steps, lo, hi) \in T
    BY <1>3, SubtaskSummaryIn
  <2> QED BY <2>1
<1> QED BY <1>4, <1>5, <1>6

LEMMA LastThemeIn ==
  ASSUME NEW T \in SUBSET Message, Closed(T, "subtask"), NEW steps \in Seq(T),
         steps # << >>, NEW themes \in Seq(ThemeType)
  PROVE  LastThemeAgain(steps, themes) \in Seq(T)
<1>1. CASE themes = << >> \/ \E k \in DOMAIN themes : themes[k].in_progress
  <2>1. LastThemeAgain(steps, themes) = << >>
    BY <1>1 DEF LastThemeAgain
  <2> QED BY <2>1
<1>2. CASE ~(themes = << >> \/ \E k \in DOMAIN themes : themes[k].in_progress)
  <2> DEFINE a == Clamp(Last(themes).start, Len(steps))
             b == Clamp(Last(themes).end, Len(steps))
  <2>1. LastThemeAgain(steps, themes) = KeepTail(steps, a, b)
    BY <1>2 DEF LastThemeAgain
  <2>2. Last(themes) \in ThemeType
    <3>1. Len(themes) \in 1..Len(themes)
      BY <1>2
    <3> QED BY <3>1, ElementOfSeq DEF Last
  <2>3. Len(steps) \in Nat \ {0} /\ Last(themes).start \in Int
        /\ Last(themes).end \in Int
    BY <2>2 DEF ThemeType
  <2>4. a \in 0..(Len(steps) - 1) /\ b \in 0..(Len(steps) - 1)
    BY <2>3, ClampRange
  <2> HIDE DEF a, b
  <2> QED BY <2>1, <2>4, KeepTailIn
<1> QED BY <1>1, <1>2

LEMMA ThemeBlocksIn ==
  ASSUME NEW T \in SUBSET Message, Closed(T, "subtask"), NEW steps \in Seq(T),
         steps # << >>, NEW themes \in Seq(ThemeType)
  PROVE  ThemeBlocks(steps, themes)[Len(themes)] \in Seq(T)
<1> DEFINE n == Len(themes)
           g == [k \in 1..n |-> ThemeBlock(steps, themes[k])]
           Body(f) == [k \in 0..n |-> IF k = 0 THEN << >> ELSE f[k - 1] \o g[k]]
           B(f) == [k \in 0..n |-> IF k = 0 THEN << >>
                                   ELSE f[k - 1] \o ThemeBlock(steps, themes[k])]
<1>1. n \in Nat /\ \A k \in 1..n : themes[k] \in ThemeType
  OBVIOUS
<1>2. \A k \in 1..n : g[k] \in Seq(T) /\ g[k] = ThemeBlock(steps, themes[k])
  <2> HIDE DEF n
  <2> QED BY <1>1, ThemeBlockIn
<1> HIDE DEF g
<1>3. \E f : Concats(f, g, n)
  <2> HIDE DEF n
  <2> QED BY <1>1, <1>2, ConcatsExist
<1>4. ThemeBlocks(steps, themes) = CHOOSE f : f = B(f)
  BY DEF ThemeBlocks
<1>5. \A f : B(f) = Body(f)
  <2> SUFFICES ASSUME NEW f PROVE B(f) = Body(f)
    OBVIOUS
  <2>1. \A k \in 0..n : k # 0 => k \in 1..n
    BY <1>1
  <2> QED BY <1>2, <2>1
<1>6. \E f : f = B(f)
  BY <1>3, <1>5 DEF Concats
<1> DEFINE h == CHOOSE f : f = B(f)
<1>7. h = B(h)
  <2> HIDE DEF B
  <2> QED BY <1>6
<1> HIDE DEF h
<1>8. Concats(h, g, n)
  BY <1>5, <1>7 DEF Concats
<1>9. \A k \in 0..n : h[k] \in Seq(T)
  <2> HIDE DEF n
  <2> QED BY <1>1, <1>2, <1>8, ConcatsType
<1>10. ThemeBlocks(steps, themes)[n] = h[n]
  BY <1>4 DEF h
<1> QED BY <1>1, <1>9, <1>10

\* Offered answers are lists of themes.
LEMMA OfferedType ==
  ASSUME NEW n \in Nat, NEW themes \in Offered(n)
  PROVE  themes \in Seq(ThemeType)
BY CompactionAssumption DEF Offered, ThemeType

\* A result of the subtask strategy is the history, or its head, the earlier
\* summaries of its middle and the blocks of the themes.
LEMMA SubtaskShape ==
  ASSUME NEW T \in SUBSET Message, Closed(T, "subtask"), NEW msgs \in Seq(T),
         Len(msgs) >= 2, NEW r \in Subtask(msgs)
  PROVE  LET s == SplitHeadTail(msgs, 2, 0)
         IN  /\ r.kind \in Kinds
             /\ \/ r.messages = msgs
                \/ \E b \in Seq(T) :
                     r.messages = (s.head \o PriorSummaries(s.middle)) \o b
<1> DEFINE s     == SplitHeadTail(msgs, 2, 0)
           prior == PriorSummaries(s.middle)
           fresh == Selected(s.middle,
                      {i \in DOMAIN s.middle : s.middle[i].form # "summary"})
           steps == MessagesToSteps(fresh)
           blocks(themes) == ThemeBlocks(steps, themes)[Len(themes)]
                               \o LastThemeAgain(steps, themes)
<1>1. s.middle \in Seq(T)
  BY PartsIn
<1> HIDE DEF s
<1>3. fresh \in Seq(T)
  BY <1>1, SelectedType
<1> HIDE DEF prior, fresh
<1>4. steps \in Seq(T)
  <2>1. StepPositions(fresh) \in SUBSET (DOMAIN fresh)
    BY DEF StepPositions
  <2> QED BY <1>3, <2>1, SelectedType DEF MessagesToSteps
<1>5. \/ r.messages = msgs /\ r.kind \in {"summary", "summary_failed"}
      \/ /\ steps # << >> /\ r.kind = "summary"
         /\ \E themes \in Offered(Len(steps)) :
              r.messages = (s.head \o prior) \o blocks(themes)
  <2>1. \/ r = Result(msgs, "summary") \/ r = Result(msgs, "summary_failed")
        \/ /\ steps # << >>
           /\ \E themes \in Offered(Len(steps)) :
                r = Result(s.head \o prior \o blocks(themes), "summary")
    BY DEF Subtask, s, prior, fresh
  <2> HIDE DEF steps, blocks
  <2>2. CASE r = Result(msgs, "summary") \/ r = Result(msgs, "summary_failed")
    BY <2>2 DEF Result
  <2>3. CASE /\ steps # << >>
             /\ \E themes \in Offered(Len(steps)) :
                  r = Result(s.head \o prior \o blocks(themes), "summary")
    <3>1. PICK themes \in Offered(Len(steps)) :
            r = Result(s.head \o prior \o blocks(themes), "summary")
      BY <2>3
    <3>2. r.messages = (s.head \o prior) \o blocks(themes) /\ r.kind = "summary"
      BY <3>1 DEF Result
    <3> QED BY <2>3, <3>2
  <2> QED BY <2>1, <2>2, <2>3
<1>6. CASE r.messages = msgs /\ r.kind \in {"summary", "summary_failed"}
  BY <1>6 DEF Kinds
<1>7. ASSUME steps # << >>, r.kind = "summary",
             NEW themes \in Offered(Len(steps)),
             r.messages = (s.head \o prior) \o blocks(themes)
      PROVE  /\ r.kind \in Kinds
             /\ \E b \in Seq(T) : r.messages = (s.head \o prior) \o b
  <2> HIDE DEF steps
  <2>1. themes \in Seq(ThemeType)
    BY <1>4, OfferedType
  <2>2. ThemeBlocks(steps, themes)[Len(themes)] \in Seq(T)
    BY <1>4, <1>7, <2>1, ThemeBlocksIn
  <2>3. LastThemeAgain(steps, themes) \in Seq(T)
    BY <1>4, <1>7, <2>1, LastThemeIn
  <2>4. blocks(themes) \in Seq(T)
    BY <2>2, <2>3, TwoParts
  <2> HIDE DEF blocks
  <2> QED BY <1>7, <2>4 DEF Kinds
<1> HIDE DEF blocks
<1> QED BY <1>5, <1>6, <1>7 DEF s, prior

\* The parts the subtask strategy works with: the first two messages, and all
\* that is behind them.
LEMMA SubtaskParts ==
  ASSUME NEW T, NEW msgs \in Seq(T), Len(msgs) >= 2
  PROVE  LET s == SplitHeadTail(msgs, 2, 0)
         IN  /\ s.head \in Seq(T) /\ Len(s.head) = 2
             /\ \A i \in 1..2 : s.head[i] = msgs[i]
             /\ s.middle \in Seq(T) /\ Len(s.middle) = Len(msgs) - 2
             /\ \A i \in 1..(Len(msgs) - 2) : s.middle[i] = msgs[2 + i]
             /\ PriorSummaries(s.middle) \in Seq(T)
<1> DEFINE s   == SplitHeadTail(msgs, 2, 0)
           cut == Len(msgs) - Len(LastNTurns(From(msgs, 2), 0))
<1>1. /\ s.head \in Seq(T) /\ Len(s.head) = 2
      /\ \A i \in 1..2 : s.head[i] = msgs[i]
      /\ s.middle \in Seq(T) /\ Len(s.middle) = cut - 2
      /\ \A i \in 1..(cut - 2) : s.middle[i] = msgs[2 + i]
  <2>1. 2 \in Nat /\ 0 \in Nat /\ 2 <= Len(msgs)
    OBVIOUS
  <2>2. AreParts(s, T, msgs, 2, cut)
    BY <2>1, Splits
  <2> HIDE DEF s, cut
  <2> QED BY <2>2 DEF AreParts
<1>2. cut = Len(msgs)
  <2>1. Len(LastNTurns(From(msgs, 2), 0)) = 0
    BY DEF LastNTurns
  <2> QED BY <2>1
<1> HIDE DEF s, cut
<1>3. PriorSummaries(s.middle) \in Seq(T)
  BY <1>1, SelectedType DEF PriorSummaries
<1> QED BY <1>1, <1>2, <1>3 DEF s

\* Every result of the subtask strategy starts with the first two messages of
\* the history; nothing in it is foreign.
LEMMA SubtaskIn ==
  ASSUME NEW T \in SUBSET Message, Closed(T, "subtask"), NEW msgs \in Seq(T),
         Len(msgs) >= 2, NEW r \in Subtask(msgs)
  PROVE  /\ r.kind \in Kinds /\ r.messages \in Seq(T)
         /\ Len(r.messages) >= 2
         /\ \A i \in 1..2 : r.messages[i] = msgs[i]
<1> DEFINE s     == SplitHeadTail(msgs, 2, 0)
           h     == s.head
           prior == PriorSummaries(s.middle)
<1>1. /\ h \in Seq(T) /\ Len(h) = 2 /\ prior \in Seq(T)
      /\ \A i \in 1..2 : h[i] = msgs[i]
  BY SubtaskParts
<1>2. /\ r.kind \in Kinds
      /\ \/ r.messages = msgs
         \/ \E b \in Seq(T) : r.messages = (h \o prior) \o b
  BY SubtaskShape
<1> HIDE DEF h, prior
<1>3. ASSUME NEW b \in Seq(T), r.messages = (h \o prior) \o b
      PROVE  r.messages \in Seq(T) /\ StartsLike(2, r.messages, h)
  BY <1>1, <1>3, FrontKept
<1> QED BY <1>1, <1>2, <1>3 DEF StartsLike

\* Where the first two of three parts are.
LEMMA FrontParts ==
  ASSUME NEW h \in Seq(Message), NEW x \in Seq(Message), NEW t \in Seq(Message),
         NEW w, w = (h \o x) \o t
  PROVE  /\ Len(w) = Len(h) + Len(x) + Len(t)
         /\ \A k \in 1..Len(h) : w[k] = h[k]
         /\ \A k \in 1..Len(x) : w[Len(h) + k] = x[k]
BY ThreeParts

\* It holds every summary that was there.
LEMMA SubtaskSummaries ==
  ASSUME NEW msgs \in Seq(Message), Len(msgs) >= 2, NEW r \in Subtask(msgs),
         NEW i \in 1..Len(msgs), msgs[i].form = "summary"
  PROVE  \E j \in 1..Len(r.messages) : r.messages[j] = msgs[i]
<1> DEFINE s     == SplitHeadTail(msgs, 2, 0)
           h     == s.head
           m     == s.middle
           prior == PriorSummaries(m)
<1>1. /\ h \in Seq(Message) /\ Len(h) = 2 /\ \A k \in 1..2 : h[k] = msgs[k]
      /\ m \in Seq(Message) /\ Len(m) = Len(msgs) - 2
      /\ \A k \in 1..(Len(msgs) - 2) : m[k] = msgs[2 + k]
      /\ prior \in Seq(Message)
  BY SubtaskParts
<1>2. \/ r.messages = msgs
      \/ \E b \in Seq(Message) : r.messages = (h \o prior) \o b
  <2>1. Closed(Message, "subtask") /\ Message \in SUBSET Message
    BY DEF Closed
  <2> QED BY <2>1, SubtaskShape
<1> HIDE DEF h, m
<1>3. ASSUME NEW b \in Seq(Message), r.messages = (h \o prior) \o b
      PROVE  \E j \in 1..Len(r.messages) : r.messages[j] = msgs[i]
  <2>1. /\ Len(r.messages) = Len(h) + Len(prior) + Len(b)
        /\ Len(prior) \in Nat /\ Len(b) \in Nat
        /\ \A k \in 1..Len(h) : r.messages[k] = h[k]
        /\ \A k \in 1..Len(prior) : r.messages[Len(h) + k] = prior[k]
    <3> HIDE DEF prior
    <3>1. /\ h \in Seq(Message) /\ prior \in Seq(Message)
          /\ r.messages = (h \o prior) \o b
      BY <1>1, <1>3
    <3>2. /\ Len(r.messages) = Len(h) + Len(prior) + Len(b)
          /\ \A k \in 1..Len(h) : r.messages[k] = h[k]
          /\ \A k \in 1..Len(prior) : r.messages[Len(h) + k] = prior[k]
      BY <3>1, FrontParts
    <3>3. Len(prior) \in Nat /\ Len(b) \in Nat
      BY <3>1
    <3> QED BY <3>2, <3>3
  <2>2. CASE i <= 2
    <3>1. i \in 1..2 /\ i \in 1..Len(r.messages)
      BY <1>1, <2>1, <2>2
    <3> QED BY <1>1, <2>1, <3>1
  <2>3. CASE ~(i <= 2)
    <3> DEFINE P == {k \in DOMAIN m : m[k].form = "summary"}
    <3>1. i - 2 \in 1..(Len(msgs) - 2) /\ 2 + (i - 2) = i
      BY <2>3
    <3>2. i - 2 \in P /\ m[i - 2] = msgs[i] /\ P \in SUBSET (DOMAIN m)
      BY <1>1, <3>1
    <3>3. prior = Selected(m, P)
      BY DEF PriorSummaries
    <3> HIDE DEF P, prior
    <3>4. /\ P \in SUBSET Nat /\ IsFiniteSet(P) /\ Cardinality(P) \in Nat
          /\ Len(prior) = Cardinality(P)
          /\ \A k \in 1..Cardinality(P) : prior[k] = m[Nth(P, k)]
      BY <1>1, <3>2, <3>3, SelectedAt
    <3>5. PICK k \in 1..Cardinality(P) : Nth(P, k) = i - 2
      BY <3>2, <3>4, NthOnto
    <3>6. Len(h) + k \in 1..Len(r.messages) /\ r.messages[Len(h) + k] = msgs[i]
      <4>1. k \in 1..Len(prior) /\ prior[k] = msgs[i]
        BY <3>2, <3>4, <3>5
      <4> QED BY <1>1, <2>1, <4>1
    <3> QED BY <3>6
  <2> QED BY <2>2, <2>3
<1> QED BY <1>2, <1>3

\* How many messages a strategy leaves in front.
HeadLen == IF strategy = "subtask" THEN 2 ELSE KeepFirst

\* Every result of a strategy starts with the head of the history and has no
\* message the strategy may not make of those that were there.
LEMMA ResultsIn ==
  ASSUME NEW T \in SUBSET Message, messages \in Seq(T), Closed(T, strategy),
         Len(messages) >= KeepFirst, strategy \in Strategies,
         NEW r \in Compactions
  PROVE  /\ r.kind \in Kinds /\ r.messages \in Seq(T)
         /\ StartsLike(HeadLen, r.messages, messages)
<1>1. CASE strategy = "subtask"
  <2>1. r \in Subtask(messages) /\ Len(messages) >= 2
    BY <1>1, AgentAssumption DEF Compactions
  <2>2. Closed(T, "subtask")
    BY <1>1
  <2> QED BY <1>1, <2>1, <2>2, SubtaskIn DEF StartsLike, HeadLen
<1>2. CASE strategy # "subtask"
  <2>1. /\ r.kind \in Kinds
        /\ \/ strategy = "cliff" /\ r.messages = messages
           \/ \E x : Inserted(x, r.kind)
                       /\ r.messages = (Split.head \o x) \o Split.tail
    BY <1>2, Shapes
  <2>2. CASE r.messages = messages
    BY <1>2, <2>1, <2>2 DEF StartsLike, HeadLen
  <2>3. ASSUME NEW x, Inserted(x, r.kind),
               r.messages = (Split.head \o x) \o Split.tail
        PROVE  r.messages \in Seq(T) /\ StartsLike(HeadLen, r.messages, messages)
    <3>1. x \in Seq(T)
      BY <2>3, InsertedIn
    <3>2. KeepFirst \in Nat /\ KeepLastTurns \in Nat
      BY AgentAssumption
    <3>3. /\ Split.head \in Seq(T) /\ Len(Split.head) = KeepFirst
          /\ Split.tail \in Seq(T)
          /\ StartsLike(KeepFirst, Split.head, messages)
      BY <3>2, PartsIn DEF Split
    <3>4. r.messages \in Seq(T) /\ StartsLike(Len(Split.head), r.messages, Split.head)
      BY <2>3, <3>1, <3>3, FrontKept
    <3> QED BY <1>2, <3>3, <3>4 DEF StartsLike, HeadLen
  <2> QED BY <2>1, <2>2, <2>3
<1> QED BY <1>1, <1>2

-----------------------------------------------------------------------------
(* The inductive invariant *)

\* Every message ever appended is logged under its position; the first two
\* are the system message and the task.
Logged(l) ==
  /\ l \in Seq(Message) /\ Len(l) >= 2
  /\ l[1] = Plain("system", 1, 1) /\ l[2] = Plain("user", 2, 1)
  /\ \A i \in 1..Len(l) :
       /\ l[i].id = i /\ l[i].form = "verbatim" /\ l[i].covers = {}
       /\ l[i].role = "system" => i = 1

\* What may be in the context of a run with strategy st and log l.
Genuine(st, l) ==
  {m \in Message :
     /\ m.form = "verbatim" => m.id \in 1..Len(l) /\ m = l[m.id]
     /\ m.form = "masked" => /\ m.id \in 1..Len(l) /\ ~KeepTagged(l[m.id])
                             /\ st = "mask"
     /\ m.form = "summary" => m.id = 0 /\ st # "mask"
     /\ m.role = "system" => m.id = 1 /\ m.covers = {}}

\* Until the history is first shortened it is the log; from then on the log
\* is longer than the head and the history begins like it.
HeadInv(st, new, l) ==
  \/ new = l
  \/ LET n == IF st = "subtask" THEN 2 ELSE KeepFirst
     IN  Len(l) >= n /\ StartsLike(n, new, l)

\* While a compaction is being recorded its record holds the history it will
\* replace; once the record is on disk that stays true of the file.
PendingInv ==
  pc \in {"save", "count"} =>
    /\ Len(pending) = 1 /\ pending[1] \in Compactions
    /\ Len(messages) > KeepFirst + 2 /\ Reduces(pending[1])
    /\ Len(compressions) >= 1
    /\ compressions[Len(compressions)].input_messages = messages
    /\ compressions[Len(compressions)].kind = pending[1].kind
    /\ pc = "count" => compressions[Len(compressions)].index \in saved

StoreOK ==
  /\ compressions \in Seq(CompactionRecord)
  /\ pending \in Seq([messages : Seq(Message), kind : Kinds])

IInv == /\ strategy \in Strategies
        /\ Logged(log) /\ messages \in Seq(Genuine(strategy, log))
        /\ HeadInv(strategy, messages, log)
        /\ StoreOK /\ PendingInv /\ AuditComplete

LEMMA GenuineType ==
  ASSUME NEW st, NEW l
  PROVE  Genuine(st, l) \in SUBSET Message
BY DEF Genuine

\* The log itself is genuine.
LEMMA LogGenuine ==
  ASSUME NEW st, NEW l, Logged(l)
  PROVE  l \in Seq(Genuine(st, l))
<1>1. l \in Seq(Message) /\ Len(l) \in Nat
  BY DEF Logged
<1>2. Plain("system", 1, 1).covers = {}
  BY DEF Plain
<1>3. ASSUME NEW i \in 1..Len(l) PROVE l[i] \in Genuine(st, l)
  <2>1. l[i] \in Message /\ l[i].id = i /\ l[i].form = "verbatim"
    BY <1>1 DEF Logged
  <2>2. l[i].role = "system" => l[i].id = 1 /\ l[i].covers = {}
    BY <1>2, <2>1 DEF Logged
  <2> QED BY <2>1, <2>2 DEF Genuine
<1> DEFINE G == Genuine(st, l)
<1>4. \A i \in 1..Len(l) : l[i] \in G
  BY <1>3
<1> HIDE DEF G
<1>5. l \in Seq(G)
  BY <1>1, <1>4
<1> QED BY <1>5 DEF G

\* What is genuine stays so when the log grows.
LEMMA GenuineGrows ==
  ASSUME NEW st, NEW l \in Seq(Message), NEW x \in Seq(Message)
  PROVE  Genuine(st, l) \in SUBSET Genuine(st, l \o x)
<1>1. /\ Len(l \o x) = Len(l) + Len(x) /\ Len(l) \in Nat /\ Len(x) \in Nat
      /\ \A i \in 1..Len(l) : (l \o x)[i] = l[i]
  BY TwoParts
<1>2. \A i \in 1..Len(l) : i \in 1..Len(l \o x)
  BY <1>1
<1> QED BY <1>1, <1>2 DEF Genuine

\* Masking and summarizing make genuine messages of genuine ones.
LEMMA GenuineClosed ==
  ASSUME NEW st, NEW l, Logged(l)
  PROVE  Closed(Genuine(st, l), st)
<1>1. ASSUME st = "mask", NEW m \in Genuine(st, l), m.role = "tool",
             ~KeepTagged(m)
      PROVE  Masked(m) \in Genuine(st, l)
  <2>1. m \in Message /\ m.form \in {"verbatim", "masked"}
    BY <1>1 DEF Genuine, Message
  <2>2. /\ Masked(m) \in Message /\ Masked(m).form = "masked"
        /\ Masked(m).id = m.id /\ Masked(m).role = m.role
    BY <2>1, CompactionAssumption DEF Masked, Message
  <2>3. m.id \in 1..Len(l) /\ ~KeepTagged(l[m.id])
    <3>1. CASE m.form = "verbatim"
      <4>1. m.id \in 1..Len(l) /\ m = l[m.id]
        BY <3>1 DEF Genuine
      <4> QED BY <1>1, <4>1
    <3>2. CASE m.form = "masked"
      BY <3>2 DEF Genuine
    <3> QED BY <2>1, <3>1, <3>2
  <2> QED BY <1>1, <2>2, <2>3 DEF Genuine
<1>2. ASSUME st # "mask", NEW m \in Message, m.id = 0, m.form = "summary",
             m.role # "system"
      PROVE  m \in Genuine(st, l)
  BY <1>2 DEF Genuine
<1> QED BY <1>1, <1>2 DEF Closed

\* The results of a strategy, from a state of the invariant.
LEMMA ResultGenuine ==
  ASSUME IInv, Len(messages) > KeepFirst + 2, NEW r \in Compactions
  PROVE  /\ r.kind \in Kinds /\ r.messages \in Seq(Genuine(strategy, log))
         /\ r.messages \in Seq(Message)
         /\ StartsLike(HeadLen, r.messages, messages)
<1>1. /\ messages \in Seq(Genuine(strategy, log)) /\ strategy \in Strategies
      /\ Logged(log)
  BY DEF IInv
<1>2. Closed(Genuine(strategy, log), strategy)
  BY <1>1, GenuineClosed
<1>3. Genuine(strategy, log) \in SUBSET Message
  BY GenuineType
<1>4. Len(messages) >= KeepFirst
  BY <1>1, AgentAssumption
<1>5. /\ r.kind \in Kinds /\ r.messages \in Seq(Genuine(strategy, log))
      /\ StartsLike(HeadLen, r.messages, messages)
  BY <1>1, <1>2, <1>3, <1>4, ResultsIn
<1>6. r.messages \in Seq(Message)
  BY <1>3, <1>5
<1> QED BY <1>5, <1>6

LEMMA CompactionRecords ==
  ASSUME NEW r \in Compactions
  PROVE  r = [messages |-> r.messages, kind |-> r.kind]
<1>1. \A m, k : Result(m, k) = [messages |-> Result(m, k).messages,
                               kind |-> Result(m, k).kind]
  BY DEF Result
<1>2. \E m, k : r = Result(m, k)
  BY DEF Compactions, Truncation, Mask, ModelBased, Cliff, Subtask
<1> QED BY <1>1, <1>2

-----------------------------------------------------------------------------
(* Steps *)

\* The first turn needs no compaction.
LEMMA InitIInv == Init => IInv
<1> SUFFICES ASSUME Init PROVE IInv
  OBVIOUS
<1>1. /\ Plain("system", 1, 1) \in Message
      /\ Plain("user", 2, 1) \in Message
  BY PlainType DEF Roles
<1>2. messages = log /\ log = <<Plain("system", 1, 1), Plain("user", 2, 1)>>
  BY DEF Init
<1>3. /\ Plain("system", 1, 1).id = 1 /\ Plain("user", 2, 1).id = 2
      /\ Plain("system", 1, 1).form = "verbatim"
      /\ Plain("user", 2, 1).form = "verbatim"
      /\ Plain("user", 2, 1).role = "user"
      /\ Plain("system", 1, 1).covers = {} /\ Plain("user", 2, 1).covers = {}
  BY DEF Plain
<1>4. Logged(log)
  <2>1. /\ log \in Seq(Message) /\ Len(log) = 2
        /\ log[1] = Plain("system", 1, 1) /\ log[2] = Plain("user", 2, 1)
    BY <1>1, <1>2
  <2>2. \A i \in 1..2 : i = 1 \/ i = 2
    OBVIOUS
  <2> QED BY <1>3, <2>1, <2>2 DEF Logged
<1>5. messages \in Seq(Genuine(strategy, log))
  BY <1>2, <1>4, LogGenuine
<1>6. HeadInv(strategy, messages, log)
  BY <1>2 DEF HeadInv
<1>7. StoreOK /\ PendingInv /\ strategy \in Strategies
  BY DEF StoreOK, PendingInv, Init
<1>8. AuditComplete
  BY <1>2 DEF AuditComplete, ToSet
<1> QED BY <1>4, <1>5, <1>6, <1>7, <1>8 DEF IInv

\* The messages the loop appends: logged under the positions they get.
Appendable(l, x) ==
  /\ x \in Seq(Message)
  /\ \A i \in 1..Len(x) : /\ x[i].id = Len(l) + i /\ x[i].form = "verbatim"
                          /\ x[i].role # "system" /\ x[i].covers = {}

\* The loop appends the same messages to the history and to the log.
Appends ==
  \E x : /\ Appendable(log, x)
         /\ messages' = messages \o x /\ log' = log \o x
         /\ UNCHANGED <<strategy, store>> /\ pc' \notin {"save", "count"}

\* It replaces the history by the pending result.
Replaces ==
  /\ pc = "count" /\ messages' = pending[1].messages
  /\ pending' = << >> /\ pc' = "call"
  /\ UNCHANGED <<strategy, log, compressions, saved>>

\* Logging keeps the log.
LEMMA LogGrows ==
  ASSUME NEW l, Logged(l), NEW x, Appendable(l, x)
  PROVE  Logged(l \o x)
<1>1. l \in Seq(Message) /\ x \in Seq(Message) /\ Len(l) \in Nat /\ Len(x) \in Nat
  BY DEF Logged, Appendable
<1>2. /\ l \o x \in Seq(Message) /\ Len(l \o x) = Len(l) + Len(x)
      /\ \A i \in 1..Len(l) : (l \o x)[i] = l[i]
      /\ \A i \in 1..Len(x) : (l \o x)[Len(l) + i] = x[i]
  BY <1>1, TwoParts
<1>3. 1 \in 1..Len(l) /\ 2 \in 1..Len(l) /\ Len(l \o x) >= 2
  BY <1>1, <1>2 DEF Logged
<1>4. (l \o x)[1] = Plain("system", 1, 1) /\ (l \o x)[2] = Plain("user", 2, 1)
  BY <1>2, <1>3 DEF Logged
<1>5. ASSUME NEW i \in 1..Len(l \o x)
      PROVE  /\ (l \o x)[i].id = i /\ (l \o x)[i].form = "verbatim"
             /\ (l \o x)[i].covers = {}
             /\ (l \o x)[i].role = "system" => i = 1
  <2>1. CASE i \in 1..Len(l)
    BY <1>2, <2>1 DEF Logged
  <2>2. CASE i \notin 1..Len(l)
    <3> DEFINE j == i - Len(l)
    <3>1. j \in 1..Len(x) /\ i = Len(l) + j
      BY <1>1, <1>2, <2>2
    <3> HIDE DEF j
    <3>2. (l \o x)[i] = x[j]
      BY <1>2, <3>1
    <3> QED BY <3>1, <3>2 DEF Appendable
  <2> QED BY <2>1, <2>2
<1> QED BY <1>2, <1>3, <1>4, <1>5 DEF Logged

\* A history that begins like another goes on doing so.
LEMMA StartsGrow ==
  ASSUME NEW n \in Nat, NEW u \in Seq(Message), NEW l \in Seq(Message),
         NEW x \in Seq(Message), Len(l) >= n, StartsLike(n, u, l)
  PROVE  Len(l \o x) >= n /\ StartsLike(n, u \o x, l \o x)
<1>1. /\ Len(l \o x) = Len(l) + Len(x) /\ Len(l) \in Nat /\ Len(x) \in Nat
      /\ \A i \in 1..Len(l) : (l \o x)[i] = l[i]
  BY TwoParts
<1>2. /\ Len(u \o x) = Len(u) + Len(x) /\ Len(u) \in Nat
      /\ \A i \in 1..Len(u) : (u \o x)[i] = u[i]
  BY TwoParts
<1>3. \A i \in 1..n : i \in 1..Len(l) /\ i \in 1..Len(u)
  BY <1>1, <1>2 DEF StartsLike
<1> QED BY <1>1, <1>2, <1>3 DEF StartsLike

\* Appending the same messages to the history and to the log loses nothing.
LEMMA AppendKeeps ==
  ASSUME IInv, Appends
  PROVE  IInv'
<1>1. PICK x : /\ Appendable(log, x)
               /\ messages' = messages \o x /\ log' = log \o x
  BY DEF Appends
<1>2. /\ UNCHANGED <<strategy, compressions, pending, saved>>
      /\ pc' \notin {"save", "count"}
  BY DEF Appends, store
<1>3. /\ messages \in Seq(Genuine(strategy, log)) /\ log \in Seq(Message)
      /\ messages \in Seq(Message) /\ x \in Seq(Message) /\ Logged(log)
  <2>1. Genuine(strategy, log) \in SUBSET Message
    BY GenuineType
  <2> QED BY <1>1, <2>1 DEF IInv, Logged, Appendable
<1>4. Logged(log')
  BY <1>1, <1>3, LogGrows
<1>5. messages' \in Seq(Genuine(strategy, log'))
  <2> DEFINE G == Genuine(strategy, log \o x)
  <2>1. messages \in Seq(G)
    <3>1. Genuine(strategy, log) \in SUBSET G
      BY <1>3, GenuineGrows
    <3> HIDE DEF G
    <3> QED BY <1>3, <3>1
  <2>2. log \o x \in Seq(G)
    BY <1>1, <1>4, LogGenuine
  <2> HIDE DEF G
  <2>3. /\ Len(log \o x) = Len(log) + Len(x) /\ Len(log) \in Nat /\ Len(x) \in Nat
        /\ \A i \in 1..Len(x) : (log \o x)[Len(log) + i] = x[i]
    BY <1>3, TwoParts
  <2>4. \A i \in 1..Len(x) : x[i] \in G
    <3> SUFFICES ASSUME NEW i \in 1..Len(x) PROVE x[i] \in G
      OBVIOUS
    <3>1. Len(log) + i \in 1..Len(log \o x)
      BY <2>3
    <3>2. (log \o x)[Len(log) + i] \in G
      BY <2>2, <3>1, ElementOfSeq
    <3> QED BY <2>3, <3>2
  <2>5. x \in Seq(G)
    BY <1>3, <2>3, <2>4
  <2>6. messages \o x \in Seq(G)
    BY <2>1, <2>5, TwoParts
  <2> QED BY <1>1, <2>6 DEF G
<1>6. HeadInv(strategy, messages', log')
  <2>1. CASE messages = log
    BY <1>1, <2>1 DEF HeadInv
  <2>2. CASE messages # log
    <3> DEFINE n == IF strategy = "subtask" THEN 2 ELSE KeepFirst
    <3>1. Len(log) >= n /\ StartsLike(n, messages, log)
      BY <2>2 DEF IInv, HeadInv
    <3>2. n \in Nat
      BY AgentAssumption
    <3> HIDE DEF n
    <3>3. Len(log \o x) >= n /\ StartsLike(n, messages \o x, log \o x)
      BY <1>3, <3>1, <3>2, StartsGrow
    <3> QED BY <1>1, <3>3 DEF HeadInv, n
  <2> QED BY <2>1, <2>2
<1>7. StoreOK' /\ PendingInv' /\ strategy' \in Strategies
  BY <1>2 DEF IInv, StoreOK, PendingInv
<1>8. AuditComplete'
  <2>1. /\ Len(messages') = Len(messages) + Len(x) /\ Len(messages) \in Nat
        /\ Len(x) \in Nat
        /\ \A i \in 1..Len(messages) : messages'[i] = messages[i]
        /\ \A i \in 1..Len(x) : messages'[Len(messages) + i] = x[i]
        /\ messages' \in Seq(Message)
    BY <1>1, <1>3, TwoParts
  <2>2. /\ Len(log') = Len(log) + Len(x) /\ Len(log) \in Nat
        /\ \A i \in 1..Len(log) : log'[i] = log[i]
        /\ \A i \in 1..Len(x) : log'[Len(log) + i] = x[i]
        /\ log' \in Seq(Message)
    BY <1>1, <1>3, TwoParts
  <2> SUFFICES ASSUME NEW i \in DOMAIN log'
               PROVE  \/ log'[i] \in ToSet(messages')
                      \/ \E k \in DOMAIN compressions' :
                           /\ compressions'[k].index \in saved'
                           /\ log'[i] \in ToSet(compressions'[k].input_messages)
    BY Zenon DEF AuditComplete, ToSet
  <2>3. ToSet(messages) \subseteq ToSet(messages')
    <3>1. \A j \in DOMAIN messages :
            j \in DOMAIN messages' /\ messages'[j] = messages[j]
      <4>1. /\ DOMAIN messages = 1..Len(messages)
            /\ DOMAIN messages' = 1..Len(messages')
        BY <1>3, <2>1
      <4> QED BY <2>1, <4>1
    <3> QED BY <3>1 DEF ToSet
  <2>4. CASE i \in 1..Len(log)
    <3>1. log'[i] = log[i] /\ i \in DOMAIN log
      BY <1>3, <2>2, <2>4
    <3> QED BY <1>2, <2>3, <3>1 DEF IInv, AuditComplete
  <2>5. CASE i \notin 1..Len(log)
    <3> DEFINE j == i - Len(log)
    <3>1. j \in 1..Len(x) /\ i = Len(log) + j
      BY <2>2, <2>5
    <3> HIDE DEF j
    <3>2. log'[i] = messages'[Len(messages) + j]
      BY <2>1, <2>2, <3>1
    <3>3. Len(messages) + j \in DOMAIN messages'
      BY <2>1, <3>1
    <3> QED BY <3>2, <3>3 DEF ToSet
  <2> QED BY <2>4, <2>5
<1> QED BY <1>2, <1>4, <1>5, <1>6, <1>7, <1>8 DEF IInv

\* Replacing the history by the pending result keeps what must be kept.
LEMMA ReplaceKeeps ==
  ASSUME IInv, Replaces
  PROVE  IInv'
<1>1. /\ messages' = pending[1].messages /\ pending' = << >> /\ pc' = "call"
      /\ UNCHANGED <<strategy, log, compressions, saved>>
  BY DEF Replaces
<1>2. /\ pending[1] \in Compactions /\ Len(messages) > KeepFirst + 2
      /\ Len(compressions) >= 1
      /\ compressions[Len(compressions)].input_messages = messages
      /\ compressions[Len(compressions)].index \in saved
  BY DEF Replaces, IInv, PendingInv
<1>3. /\ messages' \in Seq(Genuine(strategy, log))
      /\ StartsLike(HeadLen, messages', messages)
  BY <1>1, <1>2, ResultGenuine
<1>4. HeadInv(strategy, messages', log)
  <2>1. Len(log) \in Nat /\ Len(messages) \in Nat /\ KeepFirst \in Nat \ {0, 1}
    BY AgentAssumption DEF IInv, Logged
  <2>2. Len(log) >= HeadLen /\ StartsLike(HeadLen, messages, log)
    <3>1. CASE messages = log
      BY <1>2, <2>1, <3>1 DEF StartsLike, HeadLen
    <3>2. CASE messages # log
      BY <3>2 DEF IInv, HeadInv, HeadLen
    <3> QED BY <3>1, <3>2
  <2>3. StartsLike(HeadLen, messages', log)
    BY <1>3, <2>2 DEF StartsLike
  <2> QED BY <2>2, <2>3 DEF HeadInv, HeadLen
<1>5. StoreOK' /\ PendingInv'
  BY <1>1 DEF IInv, StoreOK, PendingInv
<1>6. AuditComplete'
  <2>1. Len(compressions) \in DOMAIN compressions
    BY <1>2 DEF IInv, StoreOK
  <2> QED BY <1>1, <1>2, <2>1 DEF IInv, AuditComplete, ToSet
<1> QED BY <1>1, <1>3, <1>4, <1>5, <1>6 DEF IInv

\* The messages of an assistant turn, of a format error and of its results.
LEMMA LoopAppends ==
  ASSUME IInv, ModelAnswers \/ ModelFormatError \/ ExecuteActions
  PROVE  Appends
<1>0. /\ log \in Seq(Message) /\ messages \in Seq(Message) /\ Len(log) \in Nat
      /\ Len(messages) >= 1
  <2>1. Genuine(strategy, log) \in SUBSET Message
    BY GenuineType
  <2>2. log \in Seq(Message) /\ messages \in Seq(Message) /\ Len(log) >= 2
    BY <2>1 DEF IInv, Logged
  <2>3. Len(messages) >= 1
    BY <2>2, AgentAssumption DEF IInv, HeadInv, StartsLike
  <2> QED BY <2>2, <2>3
<1>1. ASSUME NEW m \in Message, m.id = Len(log) + 1, m.form = "verbatim",
             m.role # "system", m.covers = {},
             messages' = Append(messages, m), log' = Append(log, m)
      PROVE  /\ Appendable(log, <<m>>)
             /\ messages' = messages \o <<m>> /\ log' = log \o <<m>>
  <2>1. Append(messages, m) = messages \o <<m>> /\ Append(log, m) = log \o <<m>>
    BY <1>0, AppendIsConcat
  <2>2. <<m>> \in Seq(Message) /\ Len(<<m>>) = 1 /\ <<m>>[1] = m
    OBVIOUS
  <2>3. \A i \in 1..1 : i = 1
    OBVIOUS
  <2>4. Appendable(log, <<m>>)
    BY <1>1, <2>2, <2>3 DEF Appendable
  <2> QED BY <1>1, <2>1, <2>4
<1>2. CASE ModelAnswers
  <2> DEFINE m(k) == [Plain("assistant", Len(log) + 1, 1) EXCEPT !.calls = k]
  <2>1. PICK k \in 1..MaxParallel :
          messages' = Append(messages, m(k)) /\ log' = Append(log, m(k))
    BY <1>2 DEF ModelAnswers
  <2>2. /\ m(k) \in Message /\ m(k).id = Len(log) + 1
        /\ m(k).form = "verbatim" /\ m(k).role # "system" /\ m(k).covers = {}
    <3>1. Len(log) + 1 \in Nat /\ k \in Nat
      BY <1>0, AgentAssumption
    <3> QED BY <3>1 DEF Plain, Message, Roles
  <2> HIDE DEF m
  <2>3. /\ Appendable(log, <<m(k)>>)
        /\ messages' = messages \o <<m(k)>> /\ log' = log \o <<m(k)>>
    BY <1>1, <2>1, <2>2
  <2>4. UNCHANGED <<strategy, store>> /\ pc' = "act"
    BY <1>2 DEF ModelAnswers
  <2> QED BY <2>3, <2>4 DEF Appends
<1>3. CASE ModelFormatError
  <2> DEFINE m == Plain("user", Len(log) + 1, 1)
  <2>1. messages' = Append(messages, m) /\ log' = Append(log, m)
    BY <1>3 DEF ModelFormatError
  <2>2. /\ m \in Message /\ m.id = Len(log) + 1
        /\ m.form = "verbatim" /\ m.role # "system" /\ m.covers = {}
    <3>1. Len(log) + 1 \in Nat
      BY <1>0
    <3> QED BY <3>1 DEF Plain, Message, Roles
  <2> HIDE DEF m
  <2>3. /\ Appendable(log, <<m>>)
        /\ messages' = messages \o <<m>> /\ log' = log \o <<m>>
    BY <1>1, <2>1, <2>2
  <2>4. UNCHANGED <<strategy, store>> /\ pc' = "query"
    BY <1>3 DEF ModelFormatError
  <2> QED BY <2>3, <2>4 DEF Appends
<1>4. CASE ExecuteActions
  <2> DEFINE n == Last(messages).calls
             result(o, k) == [Plain("tool", Len(log) + k, o[k].size) EXCEPT
               !.lines = o[k].lines, !.bug = o[k].bug, !.of = Len(log)]
             obs(o) == [k \in 1..n |-> result(o, k)]
  <2>1. n \in Nat
    <3>1. Len(messages) \in 1..Len(messages)
      BY <1>0
    <3>2. Last(messages) \in Message
      BY <1>0, <3>1, ElementOfSeq DEF Last
    <3> QED BY <3>2 DEF Message
  <2>2. PICK o \in [1..n -> Outputs] :
          messages' = messages \o obs(o) /\ log' = log \o obs(o)
    BY <1>4 DEF ExecuteActions
  <2> HIDE DEF n
  <2>3. ASSUME NEW k \in 1..n
        PROVE  /\ result(o, k) \in Message /\ result(o, k).id = Len(log) + k
               /\ result(o, k).form = "verbatim" /\ result(o, k).covers = {}
               /\ result(o, k).role # "system"
    <3>1. o[k] \in [size : Nat, lines : Nat, bug : BOOLEAN]
      BY AgentAssumption
    <3>2. Len(log) + k \in Nat
      BY <1>0, <2>1
    <3> QED BY <1>0, <3>1, <3>2 DEF Plain, Message, Roles
  <2> HIDE DEF result
  <2>4. obs(o) \in [1..n -> Message] /\ \A k \in 1..n : obs(o)[k] = result(o, k)
    BY <2>3
  <2> HIDE DEF obs
  <2>5. obs(o) \in Seq(Message) /\ Len(obs(o)) = n
    BY <2>1, <2>4
  <2>6. Appendable(log, obs(o))
    BY <2>3, <2>4, <2>5 DEF Appendable
  <2>7. UNCHANGED <<strategy, store>> /\ pc' = "query"
    BY <1>4 DEF ExecuteActions
  <2> QED BY <2>2, <2>6, <2>7 DEF Appends
<1> QED BY <1>2, <1>3, <1>4

\* The same history and strategy have the same results.
LEMMA SameResults ==
  ASSUME UNCHANGED <<strategy, messages>>
  PROVE  Compactions' = Compactions /\ \A r : Reduces(r)' <=> Reduces(r)
BY DEF Compactions, Reduces

LEMMA StepIInv ==
  ASSUME IInv, [Next]_vars
  PROVE  IInv'
<1>1. CASE SkipCompaction \/ Finish
  <2>1. /\ UNCHANGED <<strategy, messages, log, compressions, pending, saved>>
        /\ pc' \notin {"save", "count"}
    BY <1>1 DEF SkipCompaction, Finish, store
  <2> QED BY <2>1 DEF IInv, StoreOK, PendingInv, AuditComplete
<1>2. CASE Compact
  <2> DEFINE record(r) == [index |-> Len(compressions), kind |-> r.kind,
                           n_msgs_before |-> Len(messages),
                           n_msgs_after  |-> Len(r.messages),
                           input_messages |-> messages]
  <2>1. PICK r \in Compactions :
          /\ Reduces(r) /\ pending' = <<r>>
          /\ compressions' = Append(compressions, record(r))
    BY <1>2 DEF Compact
  <2>2. /\ Len(messages) > KeepFirst + 2 /\ pc' = "save"
        /\ UNCHANGED <<strategy, messages, log, saved>>
    BY <1>2 DEF Compact, ShouldCompact
  <2>3. r.kind \in Kinds /\ r.messages \in Seq(Message)
    BY <2>2, ResultGenuine
  <2>4. messages \in Seq(Message) /\ compressions \in Seq(CompactionRecord)
    <3>1. Genuine(strategy, log) \in SUBSET Message
      BY GenuineType
    <3> QED BY <3>1 DEF IInv, StoreOK
  <2>5. /\ record(r) \in CompactionRecord /\ record(r).input_messages = messages
        /\ record(r).kind = r.kind
    BY <2>3, <2>4 DEF CompactionRecord
  <2> HIDE DEF record
  <2>6. /\ compressions' \in Seq(CompactionRecord)
        /\ Len(compressions') = Len(compressions) + 1
        /\ Len(compressions) \in Nat
        /\ compressions'[Len(compressions')] = record(r)
        /\ \A k \in DOMAIN compressions :
             k \in DOMAIN compressions' /\ compressions'[k] = compressions[k]
    BY <2>1, <2>4, <2>5
  <2>7. pending' \in Seq([messages : Seq(Message), kind : Kinds])
        /\ Len(pending') = 1 /\ pending'[1] = r
    <3>1. r \in [messages : Seq(Message), kind : Kinds]
      BY <2>3, CompactionRecords
    <3> QED BY <2>1, <3>1
  <2>8. PendingInv'
    <3>1. r \in Compactions' /\ Reduces(r)'
      BY <2>1, <2>2, SameResults
    <3>2. Len(compressions') >= 1
      BY <2>6
    <3>3. Reduces(pending[1])'
      BY <2>7, <3>1 DEF Reduces
    <3> QED BY <2>2, <2>5, <2>6, <2>7, <3>1, <3>2, <3>3 DEF PendingInv
  <2>9. AuditComplete'
    BY <2>2, <2>6 DEF IInv, AuditComplete, ToSet
  <2> QED BY <2>2, <2>6, <2>7, <2>8, <2>9 DEF IInv, StoreOK
<1>3. CASE SaveRecord
  <2>1. /\ UNCHANGED <<strategy, messages, log, compressions, pending>>
        /\ pc = "save" /\ saved \subseteq saved'
        /\ \/ pc' = "count" /\ compressions[Len(compressions)].index \in saved'
           \/ pc' = "done"
    BY <1>3 DEF SaveRecord, RecordFile, Last
  <2>2. PendingInv'
    BY <2>1, SameResults DEF IInv, PendingInv, Reduces
  <2>3. AuditComplete'
    BY <2>1 DEF IInv, AuditComplete, ToSet
  <2> QED BY <2>1, <2>2, <2>3 DEF IInv, StoreOK
<1>4. CASE SaveCount
  <2>1. Replaces
    BY <1>4 DEF SaveCount, Replaces
  <2> QED BY <2>1, ReplaceKeeps
<1>5. CASE ModelAnswers \/ ModelFormatError \/ ExecuteActions
  BY <1>5, LoopAppends, AppendKeeps
<1>6. CASE UNCHANGED vars
  <2>1. UNCHANGED <<strategy, pc, messages, log, compressions, pending, saved>>
    BY <1>6 DEF vars
  <2>2. PendingInv'
    BY <2>1, SameResults DEF IInv, PendingInv, Reduces
  <2> QED BY <2>1, <2>2 DEF IInv, StoreOK, AuditComplete
<1> QED BY <1>1, <1>2, <1>3, <1>4, <1>5, <1>6 DEF Next

\* IInv holds in every reachable state.
THEOREM InductiveInvariant == Spec => []IInv
<1>1. Init => IInv
  BY InitIInv
<1>2. IInv /\ [Next]_vars => IInv'
  BY StepIInv
<1> QED BY <1>1, <1>2, PTL DEF Spec

-----------------------------------------------------------------------------
(* What follows *)

\* The rest of the type invariant.
ControlOK ==
  /\ pc \in {"query", "save", "count", "call", "act", "done"}
  /\ n_calls \in 0..StepLimit /\ formatErrors \in 0..FormatErrors
  /\ saved \subseteq Nat /\ countFile \in Nat \union {None}

LEMMA StepControl ==
  ASSUME IInv, ControlOK, [Next]_vars
  PROVE  ControlOK'
<1> USE AgentAssumption DEF ControlOK, store
<1>1. CASE SkipCompaction \/ Compact \/ Finish
  BY <1>1 DEF SkipCompaction, Compact, Finish
<1>2. CASE SaveRecord
  <2>1. /\ Len(compressions) \in DOMAIN compressions
        /\ compressions \in Seq(CompactionRecord)
    BY <1>2 DEF SaveRecord, IInv, PendingInv, StoreOK
  <2>2. compressions[Len(compressions)].index \in Nat
    <3>1. compressions[Len(compressions)] \in CompactionRecord
      BY <2>1, ElementOfSeq
    <3> QED BY <3>1 DEF CompactionRecord
  <2> QED BY <1>2, <2>2 DEF SaveRecord, RecordFile, Last
<1>3. CASE SaveCount
  <2>1. Len(compressions) \in Nat
    BY DEF IInv, StoreOK
  <2> QED BY <1>3, <2>1 DEF SaveCount, CountToWrite, n_compressions
<1>4. CASE ModelAnswers \/ ModelFormatError
  <2>1. n_calls' = n_calls + 1 /\ n_calls < StepLimit /\ pc' \in {"act", "query"}
    BY <1>4 DEF ModelAnswers, ModelFormatError, WithinLimits
  <2>2. n_calls' \in 0..StepLimit
    BY <2>1
  <2>3. formatErrors' \in 0..FormatErrors
    BY <1>4 DEF ModelAnswers, ModelFormatError
  <2>4. saved' = saved /\ countFile' = countFile
    BY <1>4 DEF ModelAnswers, ModelFormatError
  <2> QED BY <2>1, <2>2, <2>3, <2>4
<1>5. CASE ExecuteActions
  BY <1>5 DEF ExecuteActions
<1>6. CASE UNCHANGED vars
  BY <1>6 DEF vars
<1> QED BY <1>1, <1>2, <1>3, <1>4, <1>5, <1>6 DEF Next

\* Histories, log, records, counters and files stay well typed.
THEOREM AgentTyped == Spec => []TypeOK
<1>1. Init => ControlOK
  BY AgentAssumption DEF Init, ControlOK
<1>2. IInv /\ ControlOK /\ [Next]_vars => ControlOK'
  BY StepControl
<1>3. IInv => HistoriesOK /\ strategy \in Strategies
  <2> SUFFICES ASSUME IInv PROVE HistoriesOK /\ strategy \in Strategies
    OBVIOUS
  <2>1. Genuine(strategy, log) \in SUBSET Message
    BY GenuineType
  <2>2. messages \in Seq(Message)
    BY <2>1 DEF IInv
  <2> QED BY <2>2 DEF IInv, Logged, StoreOK, HistoriesOK
<1>4. IInv /\ ControlOK => TypeOK
  BY <1>3 DEF ControlOK, TypeOK
<1> QED BY <1>1, <1>2, <1>4, InductiveInvariant, PTL DEF Spec

\* Whatever the run ever said is in the context or in the input of a
\* compaction whose record is on disk, although a record write may fail
\* (AuditComplete, every strategy).
THEOREM NothingUnaudited == Spec => []AuditComplete
<1>1. IInv => AuditComplete
  BY DEF IInv
<1> QED BY <1>1, InductiveInvariant, PTL

\* The first keep_first messages (two under "subtask") stay in front,
\* verbatim, through any number of compactions (HeadVerbatim).
THEOREM HeadKept == Spec => []HeadVerbatim
<1>1. IInv => HeadVerbatim
  <2> SUFFICES ASSUME IInv, NEW i \in 1..HeadLen, i <= Len(log)
               PROVE  i <= Len(messages) /\ messages[i] = log[i]
    BY DEF HeadVerbatim, HeadLen
  <2>1. Len(messages) \in Nat /\ Len(log) \in Nat /\ HeadLen \in Nat
    BY AgentAssumption DEF IInv, Logged, HeadLen
  <2>2. CASE messages = log
    BY <2>2
  <2>3. CASE messages # log
    <3>1. StartsLike(HeadLen, messages, log)
      BY <2>3 DEF IInv, HeadInv, HeadLen
    <3> QED BY <2>1, <3>1 DEF StartsLike
  <2> QED BY <2>2, <2>3
<1> QED BY <1>1, InductiveInvariant, PTL

\* Masking never costs the agent a short output that carries an error or a
\* diff, however often the history is masked again (BugContextKept).
THEOREM TaggedOutputsKept == Spec => []BugContextKept
<1>1. IInv => BugContextKept
  <2> SUFFICES ASSUME IInv, NEW i \in DOMAIN messages,
                      messages[i].form = "masked"
               PROVE  ~KeepTagged(log[messages[i].id])
    BY DEF BugContextKept
  <2>1. messages[i] \in Genuine(strategy, log)
    BY DEF IInv
  <2> QED BY <2>1 DEF Genuine
<1> QED BY <1>1, InductiveInvariant, PTL

-----------------------------------------------------------------------------
(* The recent turns *)

\* Tool observations among the last d messages.
ToolsIn(s, d) == Cardinality({i \in At(s, "tool") : i > Len(s) - d})

\* Two histories end in the same d messages.
SameEnd(u, v, d) ==
  /\ d \in 0..Len(u) /\ d \in 0..Len(v)
  /\ \A i \in 1..d : u[Len(u) - d + i] = v[Len(v) - d + i]

\* Two sets of numbers that differ by a shift are as large.
LEMMA Shifted ==
  ASSUME NEW P \in SUBSET Int, IsFiniteSet(P), NEW Q \in SUBSET Int,
         NEW k \in Int,
         \A i \in P : i + k \in Q, \A j \in Q : j - k \in P
  PROVE  Cardinality(P) = Cardinality(Q)
<1> DEFINE f == [i \in P |-> i + k]
<1>0. (\A i \in P : i \in Int) /\ (\A j \in Q : j \in Int)
  OBVIOUS
<1>1. f \in [P -> Q]
  OBVIOUS
<1>2. \A i, j \in P : f[i] = f[j] => i = j
  BY <1>0
<1>3. \A j \in Q : \E i \in P : f[i] = j
  <2> SUFFICES ASSUME NEW j \in Q PROVE \E i \in P : f[i] = j
    OBVIOUS
  <2>1. j - k \in P /\ f[j - k] = j
    BY <1>0
  <2> QED BY <2>1
<1> HIDE DEF f
<1>4. f \in Bijection(P, Q)
  BY <1>1, <1>2, <1>3 DEF Bijection, Injection, Surjection, IsInjective
<1>5. ExistsBijection(P, Q)
  BY <1>4 DEF ExistsBijection
<1> QED BY <1>5, FS_Bijection

\* The same messages hold the same observations.
LEMMA ToolsSame ==
  ASSUME NEW u \in Seq(Message), NEW v \in Seq(Message), NEW d \in Nat,
         SameEnd(u, v, d)
  PROVE  ToolsIn(u, d) = ToolsIn(v, d)
<1> DEFINE P == {i \in At(u, "tool") : i > Len(u) - d}
           Q == {i \in At(v, "tool") : i > Len(v) - d}
           k == Len(v) - Len(u)
<1>1. /\ Len(u) \in Nat /\ Len(v) \in Nat /\ k \in Int /\ d \in 0..Len(u)
      /\ d \in 0..Len(v)
      /\ \A i \in 1..d : u[Len(u) - d + i] = v[Len(v) - d + i]
  BY DEF SameEnd
<1>2. P \in SUBSET (1..Len(u)) /\ Q \in SUBSET (1..Len(v))
  BY DEF At
<1>3. IsFiniteSet(P) /\ P \in SUBSET Int /\ Q \in SUBSET Int
  <2> HIDE DEF P, Q
  <2>1. IsFiniteSet(P)
    BY <1>1, <1>2, PositionsBound
  <2> QED BY <1>2, <2>1
<1>4. ASSUME NEW i \in P PROVE i + k \in Q
  <2> DEFINE j == i - (Len(u) - d)
  <2>1. i \in 1..Len(u) /\ i > Len(u) - d /\ u[i].role = "tool"
    BY DEF At
  <2>2. /\ j \in 1..d /\ i = Len(u) - d + j /\ i + k = Len(v) - d + j
        /\ i + k \in 1..Len(v) /\ i + k > Len(v) - d
    BY <1>1, <2>1
  <2> HIDE DEF j
  <2>3. u[i] = v[i + k]
    BY <1>1, <2>2
  <2> HIDE DEF k
  <2> QED BY <2>1, <2>2, <2>3 DEF At
<1>5. ASSUME NEW i \in Q PROVE i - k \in P
  <2> DEFINE j == i - (Len(v) - d)
  <2>1. i \in 1..Len(v) /\ i > Len(v) - d /\ v[i].role = "tool"
    BY DEF At
  <2>2. /\ j \in 1..d /\ i = Len(v) - d + j /\ i - k = Len(u) - d + j
        /\ i - k \in 1..Len(u) /\ i - k > Len(u) - d
    BY <1>1, <2>1
  <2> HIDE DEF j
  <2>3. v[i] = u[i - k]
    BY <1>1, <2>2
  <2> HIDE DEF k
  <2> QED BY <2>1, <2>2, <2>3 DEF At
<1> HIDE DEF P, Q, k
<1>6. Cardinality(P) = Cardinality(Q)
  BY <1>1, <1>3, <1>4, <1>5, Shifted
<1> QED BY <1>6 DEF P, Q, ToolsIn

\* LastNTurns is the longest suffix with at most n observations.
LEMMA LongestSuffix ==
  ASSUME NEW s \in Seq(Message), NEW n \in Nat \ {0}, NEW d \in 0..Len(s)
  PROVE  ToolsIn(s, d) <= n <=> d <= Len(LastNTurns(s, n))
<1> DEFINE L == Len(s)
           Later(i) == {t \in At(s, "tool") : t >= i}
           rest(i) == Cardinality(Later(i))
           cut == {i \in DOMAIN s : rest(i) > n}
<1>1. L \in Nat /\ DOMAIN s = 1..L /\ At(s, "tool") \in SUBSET (1..L)
  BY DEF At
<1>2. \A i \in Int : IsFiniteSet(Later(i)) /\ rest(i) \in Nat
  <2> SUFFICES ASSUME NEW i \in Int
               PROVE  IsFiniteSet(Later(i)) /\ rest(i) \in Nat
    OBVIOUS
  <2>1. Later(i) \in SUBSET (1..L)
    BY <1>1
  <2> HIDE DEF Later
  <2>2. IsFiniteSet(Later(i)) /\ Cardinality(Later(i)) \in 0..L
    BY <1>1, <2>1, PositionsBound
  <2> QED BY <1>1, <2>2
<1>3. \A i, j \in 1..L : j <= i => rest(i) <= rest(j)
  <2> SUFFICES ASSUME NEW i \in 1..L, NEW j \in 1..L, j <= i
               PROVE  rest(i) <= rest(j)
    OBVIOUS
  <2>0. \A t \in At(s, "tool") : t \in Int
    BY <1>1
  <2>1. Later(i) \in SUBSET Later(j)
    BY <2>0
  <2>2. IsFiniteSet(Later(j))
    BY <1>2
  <2> HIDE DEF Later
  <2> QED BY <2>1, <2>2, FS_Subset
<1>4. cut \in SUBSET (1..L) /\ \A i \in cut : \A j \in 1..i : j \in cut
  <2> SUFFICES ASSUME NEW i \in cut, NEW j \in 1..i PROVE j \in cut
    BY <1>1
  <2>1. i \in 1..L /\ j \in 1..L /\ j <= i /\ rest(i) > n
    BY <1>1
  <2> HIDE DEF Later
  <2>2. rest(i) <= rest(j) /\ rest(i) \in Nat /\ rest(j) \in Nat
    BY <1>2, <1>3, <2>1
  <2>3. rest(j) > n
    BY <2>1, <2>2
  <2> QED BY <1>1, <2>1, <2>3
<1> DEFINE c == Cardinality(cut)
<1>5. c \in 0..L /\ cut = 1..c
  <2> HIDE DEF cut
  <2> QED BY <1>1, <1>4, InitialSegment
<1>6. Len(LastNTurns(s, n)) = L - c
  <2>1. LastNTurns(s, n) = From(s, c)
    BY DEF LastNTurns
  <2> HIDE DEF c
  <2> QED BY <1>5, <2>1, FromType
<1>7. ToolsIn(s, d) = rest(L - d + 1)
  <2>1. \A t \in At(s, "tool") : t \in Int
    BY <1>1
  <2>2. {t \in At(s, "tool") : t > Len(s) - d} = Later(L - d + 1)
    BY <1>1, <2>1
  <2> QED BY <2>2 DEF ToolsIn
<1>8. CASE d = 0
  <2>1. Later(L - d + 1) = {}
    BY <1>1, <1>8
  <2>2. ToolsIn(s, d) = 0
    BY <1>7, <2>1, FS_EmptySet
  <2> HIDE DEF c, L
  <2> QED BY <1>1, <1>5, <1>6, <1>8, <2>2
<1>9. CASE d # 0
  <2> DEFINE i == L - d + 1
  <2>1. i \in 1..L
    BY <1>1, <1>9
  <2>2. i \in cut <=> rest(i) > n
    BY <1>1, <2>1
  <2>3. i \in cut <=> i <= c
    <3> HIDE DEF cut, i
    <3> QED BY <1>5, <2>1
  <2>4. rest(i) \in Nat
    <3>1. i \in Int
      BY <2>1
    <3> HIDE DEF i, Later
    <3> QED BY <1>2, <3>1
  <2> HIDE DEF cut, Later
  <2>5. ToolsIn(s, d) = rest(i)
    BY <1>7
  <2>6. rest(i) <= n <=> ~(i <= c)
    BY <2>2, <2>3, <2>4
  <2> HIDE DEF rest, c
  <2>7. ~(i <= c) <=> d <= L - c
    BY <1>1, <1>5
  <2> QED BY <1>6, <2>5, <2>6, <2>7
<1> QED BY <1>8, <1>9

\* Messages of the run's recent turns in a history.
Depth(s) == Len(LastNTurns(From(s, KeepFirst), KeepLastTurns))

\* Depth counts: as long as there are few enough observations, and not into
\* the head.
LEMMA DepthFacts ==
  ASSUME NEW s \in Seq(Message), Len(s) >= KeepFirst
  PROVE  /\ Depth(s) \in 0..(Len(s) - KeepFirst)
         /\ KeepLastTurns = 0 => Depth(s) = 0
         /\ KeepLastTurns # 0 =>
              \A d \in 0..(Len(s) - KeepFirst) :
                ToolsIn(s, d) <= KeepLastTurns <=> d <= Depth(s)
<1> DEFINE rest == From(s, KeepFirst)
<1>1. KeepFirst \in Nat /\ KeepLastTurns \in Nat /\ Len(s) \in Nat
      /\ KeepFirst \in 0..Len(s)
  BY AgentAssumption
<1>2. /\ rest \in Seq(Message) /\ Len(rest) = Len(s) - KeepFirst
      /\ \A i \in 1..(Len(s) - KeepFirst) : rest[i] = s[KeepFirst + i]
  BY <1>1, FromType
<1> HIDE DEF rest
<1>3. LastNTurns(rest, KeepLastTurns) \in Seq(Message)
      /\ Len(LastNTurns(rest, KeepLastTurns)) \in 0..Len(rest)
  BY <1>1, <1>2, LastNTurnsType
<1>4. Depth(s) = Len(LastNTurns(rest, KeepLastTurns))
  BY DEF Depth, rest
<1>5. KeepLastTurns = 0 => Depth(s) = 0
  BY <1>4 DEF LastNTurns
<1>6. ASSUME KeepLastTurns # 0, NEW d \in 0..(Len(s) - KeepFirst)
      PROVE  ToolsIn(s, d) <= KeepLastTurns <=> d <= Depth(s)
  <2>1. SameEnd(rest, s, d)
    <3>1. d \in 0..Len(rest) /\ d \in 0..Len(s)
      BY <1>1, <1>2
    <3>2. ASSUME NEW i \in 1..d
          PROVE  rest[Len(rest) - d + i] = s[Len(s) - d + i]
      <4> DEFINE j == Len(rest) - d + i
      <4>1. j \in 1..(Len(s) - KeepFirst) /\ KeepFirst + j = Len(s) - d + i
        BY <1>1, <1>2, <3>1
      <4> HIDE DEF j
      <4>2. rest[j] = s[Len(s) - d + i]
        BY <1>2, <4>1
      <4> QED BY <4>2 DEF j
    <3> QED BY <3>1, <3>2 DEF SameEnd
  <2>2. ToolsIn(rest, d) = ToolsIn(s, d)
    BY <1>2, <2>1, ToolsSame
  <2>3. d \in 0..Len(rest) /\ KeepLastTurns \in Nat \ {0}
    BY <1>1, <1>2, <1>6
  <2>4. ToolsIn(rest, d) <= KeepLastTurns
          <=> d <= Len(LastNTurns(rest, KeepLastTurns))
    BY <1>2, <2>3, LongestSuffix
  <2> QED BY <1>4, <2>2, <2>4
<1> QED BY <1>2, <1>3, <1>4, <1>5, <1>6

\* Fewer of the last messages are the same too.
LEMMA SameEndShorter ==
  ASSUME NEW u \in Seq(Message), NEW v \in Seq(Message), NEW d \in Nat,
         SameEnd(u, v, d), NEW e \in 0..d
  PROVE  SameEnd(u, v, e)
<1>1. /\ Len(u) \in Nat /\ Len(v) \in Nat /\ d \in 0..Len(u) /\ d \in 0..Len(v)
      /\ \A i \in 1..d : u[Len(u) - d + i] = v[Len(v) - d + i]
  BY DEF SameEnd
<1>2. ASSUME NEW i \in 1..e PROVE u[Len(u) - e + i] = v[Len(v) - e + i]
  <2> DEFINE j == d - e + i
  <2>1. /\ j \in 1..d /\ Len(u) - d + j = Len(u) - e + i
        /\ Len(v) - d + j = Len(v) - e + i
    BY <1>1
  <2> HIDE DEF j
  <2>2. u[Len(u) - d + j] = v[Len(v) - d + j]
    BY <1>1, <2>1
  <2> QED BY <2>1, <2>2
<1> QED BY <1>1, <1>2 DEF SameEnd

LEMMA SameEndTrans ==
  ASSUME NEW u, NEW v, NEW w, NEW d, SameEnd(u, v, d), SameEnd(v, w, d)
  PROVE  SameEnd(u, w, d)
BY DEF SameEnd

\* Appending the same messages lengthens the common end.
LEMMA SameEndGrows ==
  ASSUME NEW u \in Seq(Message), NEW v \in Seq(Message), NEW d \in Nat,
         SameEnd(u, v, d), NEW x \in Seq(Message)
  PROVE  SameEnd(u \o x, v \o x, d + Len(x))
<1>1. /\ Len(u) \in Nat /\ Len(v) \in Nat /\ d \in 0..Len(u) /\ d \in 0..Len(v)
      /\ \A i \in 1..d : u[Len(u) - d + i] = v[Len(v) - d + i]
  BY DEF SameEnd
<1>2. /\ Len(u \o x) = Len(u) + Len(x) /\ Len(x) \in Nat
      /\ \A i \in 1..Len(u) : (u \o x)[i] = u[i]
      /\ \A i \in 1..Len(x) : (u \o x)[Len(u) + i] = x[i]
  BY TwoParts
<1>3. /\ Len(v \o x) = Len(v) + Len(x)
      /\ \A i \in 1..Len(v) : (v \o x)[i] = v[i]
      /\ \A i \in 1..Len(x) : (v \o x)[Len(v) + i] = x[i]
  BY TwoParts
<1> DEFINE e == d + Len(x)
           U == u \o x
           V == v \o x
<1>4. /\ e \in 0..Len(U) /\ e \in 0..Len(V)
      /\ Len(U) - e = Len(u) - d /\ Len(V) - e = Len(v) - d
  BY <1>1, <1>2, <1>3
<1> HIDE DEF U, V
<1>5. ASSUME NEW i \in 1..e
      PROVE  U[Len(u) - d + i] = V[Len(v) - d + i]
  <2>1. CASE i <= d
    <3>1. /\ i \in 1..d /\ Len(u) - d + i \in 1..Len(u)
          /\ Len(v) - d + i \in 1..Len(v)
      BY <1>1, <1>2, <2>1
    <3> QED BY <1>1, <1>2, <1>3, <3>1 DEF U, V
  <2>2. CASE ~(i <= d)
    <3> DEFINE j == i - d
    <3>1. /\ j \in 1..Len(x) /\ Len(u) - d + i = Len(u) + j
          /\ Len(v) - d + i = Len(v) + j
      BY <1>1, <1>2, <2>2
    <3> HIDE DEF j
    <3> QED BY <1>2, <1>3, <3>1 DEF U, V
  <2> QED BY <2>1, <2>2
<1>6. SameEnd(U, V, e)
  BY <1>4, <1>5 DEF SameEnd
<1> QED BY <1>6 DEF U, V

\* New messages lengthen the recent turns by themselves at most.
LEMMA DepthGrows ==
  ASSUME NEW l \in Seq(Message), Len(l) >= KeepFirst, NEW x \in Seq(Message)
  PROVE  Depth(l \o x) <= Depth(l) + Len(x)
<1>1. /\ l \o x \in Seq(Message) /\ Len(l \o x) = Len(l) + Len(x)
      /\ Len(l) \in Nat /\ Len(x) \in Nat /\ KeepFirst \in Nat
      /\ \A i \in 1..Len(l) : (l \o x)[i] = l[i]
  BY TwoParts, AgentAssumption
<1> DEFINE L == l \o x
           d == Depth(L)
           e == d - Len(x)
<1>2. /\ L \in Seq(Message) /\ Len(L) = Len(l) + Len(x)
      /\ \A i \in 1..Len(l) : L[i] = l[i]
  BY <1>1
<1> HIDE DEF L
<1>3. d \in 0..(Len(L) - KeepFirst) /\ Depth(l) \in 0..(Len(l) - KeepFirst)
  BY <1>1, <1>2, DepthFacts
<1>4. CASE KeepLastTurns = 0 \/ d <= Len(x)
  <2>1. KeepLastTurns = 0 => d = 0
    BY <1>1, <1>2, DepthFacts
  <2> HIDE DEF d
  <2>2. d <= Depth(l) + Len(x)
    BY <1>1, <1>3, <1>4, <2>1
  <2> QED BY <2>2 DEF d, L
<1>5. CASE KeepLastTurns # 0 /\ d > Len(x)
  <2>1. ToolsIn(L, d) <= KeepLastTurns
    <3>1. d <= Depth(L)
      BY <1>2, <1>3
    <3>2. Len(L) >= KeepFirst
      BY <1>1, <1>2
    <3>3. \A e1 \in 0..(Len(L) - KeepFirst) :
            ToolsIn(L, e1) <= KeepLastTurns <=> e1 <= Depth(L)
      BY <1>2, <1>5, <3>2, DepthFacts
    <3> HIDE DEF d
    <3> QED BY <1>3, <3>1, <3>3
  <2> HIDE DEF d
  <2>2. e \in 0..(Len(l) - KeepFirst) /\ Len(L) - d = Len(l) - e
    BY <1>1, <1>2, <1>3, <1>5
  <2> DEFINE P == {i \in At(l, "tool") : i > Len(l) - e}
             Q == {i \in At(L, "tool") : i > Len(L) - d}
  <2>3. P \in SUBSET Q
    <3>1. DOMAIN l = 1..Len(l) /\ DOMAIN L = 1..Len(L)
      BY <1>2
    <3>2. \A i \in 1..Len(l) : i \in 1..Len(L)
      BY <1>1, <1>2
    <3> HIDE DEF e
    <3> QED BY <1>2, <2>2, <3>1, <3>2 DEF At
  <2>4. Q \in SUBSET (1..Len(L)) /\ Len(L) \in Nat
    BY <1>2 DEF At
  <2> HIDE DEF P, Q
  <2>5. IsFiniteSet(Q) /\ IsFiniteSet(P) /\ Cardinality(P) <= Cardinality(Q)
    BY <2>3, <2>4, PositionsBound, FS_Subset
  <2>6. Cardinality(P) \in Nat /\ Cardinality(Q) \in Nat /\ KeepLastTurns \in Nat
    BY <2>5, FS_CardinalityType, AgentAssumption
  <2>7. ToolsIn(l, e) <= KeepLastTurns
    BY <2>1, <2>5, <2>6 DEF ToolsIn, P, Q
  <2> HIDE DEF e
  <2>8. e <= Depth(l)
    BY <1>5, <2>2, <2>7, DepthFacts
  <2>9. d <= Depth(l) + Len(x)
    BY <1>1, <1>3, <2>2, <2>8 DEF e
  <2> QED BY <2>9 DEF d, L
<1> QED BY <1>1, <1>3, <1>4, <1>5

\* The recent turns of the log end the history, behind its head.
RecentInv(new, l) ==
  \/ new = l
  \/ /\ Len(l) >= KeepFirst /\ KeepFirst + Depth(l) <= Len(new)
     /\ SameEnd(new, l, Depth(l))

LEMMA RecentGrows ==
  ASSUME NEW u \in Seq(Message), NEW l \in Seq(Message), RecentInv(u, l),
         NEW x \in Seq(Message)
  PROVE  RecentInv(u \o x, l \o x)
<1>1. CASE u = l
  BY <1>1 DEF RecentInv
<1>2. CASE u # l
  <2>1. /\ Len(l) >= KeepFirst /\ KeepFirst + Depth(l) <= Len(u)
        /\ SameEnd(u, l, Depth(l))
    BY <1>2 DEF RecentInv
  <2>2. /\ l \o x \in Seq(Message) /\ Len(l \o x) = Len(l) + Len(x)
        /\ Len(l) \in Nat /\ Len(x) \in Nat
    BY TwoParts
  <2>3. /\ u \o x \in Seq(Message) /\ Len(u \o x) = Len(u) + Len(x)
        /\ Len(u) \in Nat
    BY TwoParts
  <2> DEFINE L == l \o x
             U == u \o x
  <2>4. KeepFirst \in Nat /\ Depth(l) \in Nat /\ Depth(L) \in Nat
    <3>1. KeepFirst \in Nat /\ Len(L) >= KeepFirst
      BY <2>1, <2>2, AgentAssumption
    <3>2. Depth(l) \in 0..(Len(l) - KeepFirst)
      BY <2>1, DepthFacts
    <3> HIDE DEF L
    <3>3. Depth(L) \in 0..(Len(L) - KeepFirst)
      BY <2>2, <3>1, DepthFacts DEF L
    <3> QED BY <3>1, <3>2, <3>3
  <2>5. Depth(L) <= Depth(l) + Len(x)
    BY <2>1, DepthGrows
  <2>6. SameEnd(U, L, Depth(l) + Len(x))
    BY <2>1, <2>4, SameEndGrows
  <2>7. U \in Seq(Message) /\ L \in Seq(Message) /\ Len(L) >= KeepFirst
        /\ Len(U) = Len(u) + Len(x)
    BY <2>1, <2>2, <2>3, <2>4
  <2> HIDE DEF U, L
  <2>8. Depth(L) \in 0..(Depth(l) + Len(x)) /\ Depth(l) + Len(x) \in Nat
    BY <2>2, <2>4, <2>5
  <2>9. SameEnd(U, L, Depth(L))
    BY <2>6, <2>7, <2>8, SameEndShorter
  <2>10. KeepFirst + Depth(L) <= Len(U)
    BY <2>1, <2>2, <2>3, <2>4, <2>5, <2>7
  <2>11. RecentInv(U, L)
    BY <2>7, <2>9, <2>10 DEF RecentInv
  <2> QED BY <2>11 DEF U, L
<1> QED BY <1>1, <1>2

\* The end of the history a strategy keeps holds the recent turns of the log.
LEMMA RecentInTail ==
  ASSUME NEW u \in Seq(Message), NEW l \in Seq(Message), RecentInv(u, l),
         Len(u) >= KeepFirst
  PROVE  /\ Len(l) >= KeepFirst /\ Depth(l) \in 0..Depth(u)
         /\ SameEnd(u, l, Depth(l))
<1>1. KeepFirst \in Nat /\ KeepLastTurns \in Nat /\ Len(u) \in Nat /\ Len(l) \in Nat
  BY AgentAssumption
<1>2. Depth(u) \in 0..(Len(u) - KeepFirst)
  BY DepthFacts
<1>3. CASE u = l
  <2>1. SameEnd(u, l, Depth(u))
    BY <1>1, <1>2, <1>3 DEF SameEnd
  <2> QED BY <1>2, <1>3, <2>1
<1>4. CASE u # l
  <2>1. /\ Len(l) >= KeepFirst /\ KeepFirst + Depth(l) <= Len(u)
        /\ SameEnd(u, l, Depth(l))
    BY <1>4 DEF RecentInv
  <2>2. Depth(l) \in 0..(Len(l) - KeepFirst)
    BY <2>1, DepthFacts
  <2> DEFINE d == Depth(l)
  <2>3. d \in Nat /\ d \in 0..(Len(l) - KeepFirst) /\ d \in 0..(Len(u) - KeepFirst)
    BY <1>1, <2>1, <2>2
  <2>4. CASE KeepLastTurns = 0
    <3>1. Depth(l) = 0
      BY <2>1, <2>4, DepthFacts
    <3> QED BY <1>2, <2>1, <3>1
  <2>5. CASE KeepLastTurns # 0
    <3>0. d <= Depth(l)
      BY <2>3
    <3> HIDE DEF d
    <3>1. ToolsIn(l, d) <= KeepLastTurns
      BY <2>1, <2>3, <2>5, <3>0, DepthFacts
    <3>2. ToolsIn(u, d) = ToolsIn(l, d)
      BY <2>1, <2>3, ToolsSame DEF d
    <3>3. d <= Depth(u)
      BY <2>3, <2>5, <3>1, <3>2, DepthFacts
    <3> QED BY <1>2, <2>1, <2>3, <3>3 DEF d
  <2> QED BY <2>4, <2>5
<1> QED BY <1>3, <1>4

EndsIn(w, k, t) == Len(w) = k + Len(t) /\ \A i \in 1..Len(t) : w[k + i] = t[i]

\* What is put behind an insertion ends the history.
LEMMA TailKept ==
  ASSUME NEW T, NEW h \in Seq(T), NEW x \in Seq(T), NEW t \in Seq(T)
  PROVE  /\ (h \o x) \o t \in Seq(T)
         /\ EndsIn((h \o x) \o t, Len(h) + Len(x), t)
<1> DEFINE w == (h \o x) \o t
<1>1. /\ w \in Seq(T) /\ Len(w) = Len(h) + Len(x) + Len(t)
      /\ \A i \in 1..Len(t) : w[Len(h) + Len(x) + i] = t[i]
  BY ThreeParts
<1> HIDE DEF w
<1>2. EndsIn(w, Len(h) + Len(x), t)
  BY <1>1 DEF EndsIn
<1> QED BY <1>1, <1>2 DEF w

Holds(w, k, x) == \A i \in 1..Len(x) : w[k + i] = x[i]

\* The insertion is there.
LEMMA MiddleKept ==
  ASSUME NEW T, NEW h \in Seq(T), NEW x \in Seq(T), NEW t \in Seq(T)
  PROVE  (h \o x) \o t \in Seq(T) /\ Holds((h \o x) \o t, Len(h), x)
<1> DEFINE w == (h \o x) \o t
<1>1. w \in Seq(T) /\ \A i \in 1..Len(x) : w[Len(h) + i] = x[i]
  BY ThreeParts
<1> QED BY <1>1 DEF Holds

\* The middle of the history, between its head and its tail.
LEMMA CutFacts ==
  ASSUME messages \in Seq(Message), Len(messages) >= KeepFirst
  PROVE  /\ Cut \in KeepFirst..Len(messages)
         /\ Split.middle \in Seq(Message)
         /\ Len(Split.middle) = Cut - KeepFirst
         /\ Holds(messages, KeepFirst, Split.middle)
         /\ Split.tail = From(messages, Cut)
<1> DEFINE cut == Len(messages)
                    - Len(LastNTurns(From(messages, KeepFirst), KeepLastTurns))
<1>1. KeepFirst \in Nat /\ KeepLastTurns \in Nat
  BY AgentAssumption
<1>2. Split.middle \in Seq(Message) /\ Split.tail \in Seq(Message)
  BY <1>1, PartsIn DEF Split
<1>3. cut \in KeepFirst..Len(messages)
  BY <1>1, <1>2, SplitParts DEF Split
<1>4. Len(Split.middle) = cut - KeepFirst
  BY <1>1, <1>2, SplitParts DEF Split
<1>5. Split.tail = From(messages, cut)
  BY <1>1, <1>2, SplitParts DEF Split
<1>6. \A i \in 1..(cut - KeepFirst) : Split.middle[i] = messages[KeepFirst + i]
  <2>1. Split.middle = SubSeq(messages, KeepFirst + 1, cut)
    BY DEF Split, SplitHeadTail
  <2> HIDE DEF cut
  <2> QED BY <1>1, <1>3, <2>1
<1> HIDE DEF cut
<1>7. Cut = cut
  BY DEF Cut, cut
<1> QED BY <1>2, <1>3, <1>4, <1>5, <1>6, <1>7 DEF Holds

\* A result other than the subtask strategy's ends like the history, as far
\* back as the recent turns go, and is longer than its head.
LEMMA ResultEnd ==
  ASSUME IInv, Len(messages) > KeepFirst + 2, strategy # "subtask",
         NEW r \in Compactions
  PROVE  /\ SameEnd(r.messages, messages, Depth(messages))
         /\ KeepFirst + Depth(messages) <= Len(r.messages)
<1>1. /\ messages \in Seq(Message) /\ strategy \in Strategies
      /\ Message \in SUBSET Message
  <2>1. Genuine(strategy, log) \in SUBSET Message
    BY GenuineType
  <2> QED BY <2>1 DEF IInv
<1>2. /\ KeepFirst \in Nat /\ KeepLastTurns \in Nat /\ Len(messages) \in Nat
      /\ Len(messages) >= KeepFirst
  BY <1>1, AgentAssumption
<1>3. Depth(messages) \in 0..(Len(messages) - KeepFirst)
  BY <1>1, <1>2, DepthFacts
<1>4. CASE r.messages = messages
  BY <1>2, <1>3, <1>4 DEF SameEnd
<1>5. ASSUME NEW x, Inserted(x, r.kind),
             r.messages = (Split.head \o x) \o Split.tail
      PROVE  /\ SameEnd(r.messages, messages, Depth(messages))
             /\ KeepFirst + Depth(messages) <= Len(r.messages)
  <2> DEFINE h == Split.head
             t == Split.tail
             w == (h \o x) \o t
             d == Depth(messages)
  <2>1. x \in Seq(Message)
    <3>1. Closed(Message, strategy)
      <4>1. \A m \in Message : Masked(m) \in Message
        BY CompactionAssumption DEF Masked, Message
      <4> QED BY <4>1 DEF Closed
    <3> QED BY <1>1, <1>2, <1>5, <3>1, InsertedIn
  <2>2. h \in Seq(Message) /\ t \in Seq(Message) /\ Len(h) = KeepFirst
    BY <1>1, <1>2, PartsIn DEF Split
  <2>3. t = From(messages, Cut) /\ Cut = Len(messages) - d
    <3>1. t = LastNTurns(From(messages, KeepFirst), KeepLastTurns)
      BY DEF Split, SplitHeadTail
    <3>2. Split.tail \in Seq(Message)
      BY <2>2
    <3>3. t = From(messages, Len(messages)
               - Len(LastNTurns(From(messages, KeepFirst), KeepLastTurns)))
      BY <1>1, <1>2, <3>2, SplitParts DEF Split
    <3> QED BY <3>3 DEF Cut, Depth
  <2> HIDE DEF h, t, d
  <2>4. Cut \in 0..Len(messages) /\ Cut + d = Len(messages) /\ d \in Nat
    BY <1>2, <1>3, <2>3 DEF d
  <2>5. Len(t) = d /\ \A i \in 1..d : t[i] = messages[Cut + i]
    <3>1. /\ Len(From(messages, Cut)) = Len(messages) - Cut
          /\ \A i \in 1..(Len(messages) - Cut) :
               From(messages, Cut)[i] = messages[Cut + i]
      BY <1>1, <2>4, FromType
    <3>2. Len(messages) - Cut = d
      BY <1>2, <2>4
    <3> QED BY <2>3, <3>1, <3>2
  <2>6. /\ w \in Seq(Message) /\ Len(w) = Len(h) + Len(x) + Len(t)
        /\ \A i \in 1..Len(t) : w[Len(h) + Len(x) + i] = t[i]
    <3>1. w \in Seq(Message) /\ EndsIn(w, Len(h) + Len(x), t)
      BY <2>1, <2>2, TailKept
    <3> QED BY <3>1 DEF EndsIn
  <2> HIDE DEF w
  <2>9. Len(x) \in Nat /\ Len(w) - d = Len(h) + Len(x) /\ Len(w) >= KeepFirst + d
        /\ d \in 0..Len(w) /\ d \in 0..Len(messages)
    BY <1>2, <2>1, <2>2, <2>4, <2>5, <2>6
  <2>10. \A i \in 1..d : w[Len(w) - d + i] = messages[Len(messages) - d + i]
    <3>1. Len(messages) - d = Cut
      BY <1>2, <2>4
    <3> QED BY <2>5, <2>6, <2>9, <3>1
  <2>11. SameEnd(w, messages, d)
    BY <2>9, <2>10 DEF SameEnd
  <2>12. r.messages = w
    BY <1>5 DEF w, h, t
  <2> QED BY <2>9, <2>11, <2>12 DEF d
<1>6. \/ r.messages = messages
      \/ \E x : Inserted(x, r.kind) /\ r.messages = (Split.head \o x) \o Split.tail
  BY <1>1, <1>2, Shapes
<1> QED BY <1>4, <1>5, <1>6

\* How a step changes the history.
LEMMA HistoryStep ==
  ASSUME IInv, [Next]_vars
  PROVE  /\ strategy' = strategy
         /\ \/ Appends \/ Replaces
            \/ UNCHANGED <<messages, log>>
<1>1. CASE SkipCompaction \/ Compact \/ SaveRecord \/ Finish \/ UNCHANGED vars
  BY <1>1 DEF SkipCompaction, Compact, SaveRecord, Finish, vars
<1>2. CASE SaveCount
  BY <1>2 DEF SaveCount, Replaces
<1>3. CASE ModelAnswers \/ ModelFormatError \/ ExecuteActions
  <2>1. Appends
    BY <1>3, LoopAppends
  <2> QED BY <2>1 DEF Appends
<1> QED BY <1>1, <1>2, <1>3 DEF Next

\* However often the subtask strategy segments the history again, no summary it
\* made before is segmented, changed or dropped (ThemeSummariesStay).
THEOREM SummariesStay == Spec => ThemeSummariesStay
<1> DEFINE Kept == strategy = "subtask" =>
                     \A i \in DOMAIN messages :
                       messages[i].form = "summary" => messages[i] \in ToSet(messages')
<1>1. ASSUME IInv, [Next]_vars PROVE Kept
  <2> SUFFICES ASSUME strategy = "subtask", NEW i \in DOMAIN messages,
                      messages[i].form = "summary"
               PROVE  \E j \in DOMAIN messages' : messages'[j] = messages[i]
    BY DEF ToSet
  <2>0. /\ messages \in Seq(Message) /\ DOMAIN messages = 1..Len(messages)
        /\ Len(messages) >= 2 /\ Len(messages) \in Nat
    <3>1. Genuine(strategy, log) \in SUBSET Message
      BY <1>1, GenuineType
    <3>2. log \in Seq(Message) /\ messages \in Seq(Message) /\ Len(log) >= 2
      BY <1>1, <3>1 DEF IInv, Logged
    <3> QED BY <1>1, <3>2, AgentAssumption DEF IInv, HeadInv, StartsLike
  <2>1. CASE Appends
    <3>1. PICK x \in Seq(Message) : messages' = messages \o x
      BY <2>1 DEF Appends, Appendable
    <3>2. /\ messages' \in Seq(Message) /\ Len(messages') >= Len(messages)
          /\ Len(messages') \in Nat
          /\ \A k \in 1..Len(messages) : messages'[k] = messages[k]
      BY <2>0, <3>1, TwoParts
    <3> QED BY <2>0, <3>2
  <2>2. CASE Replaces
    <3>1. messages' = pending[1].messages /\ pending[1] \in Subtask(messages)
      BY <1>1, <2>2 DEF Replaces, IInv, PendingInv, Compactions
    <3>2. \E j \in 1..Len(messages') : messages'[j] = messages[i]
      BY <2>0, <3>1, SubtaskSummaries
    <3>3. DOMAIN messages' = 1..Len(messages')
      <4>1. messages' \in Seq(Message)
        <5>1. Closed(Message, "subtask") /\ Message \in SUBSET Message
          BY DEF Closed
        <5> QED BY <2>0, <3>1, <5>1, SubtaskIn
      <4> QED BY <4>1
    <3> QED BY <3>2, <3>3
  <2>3. CASE UNCHANGED messages
    BY <2>3
  <2> QED BY <1>1, <2>1, <2>2, <2>3, HistoryStep
<1> QED BY <1>1, InductiveInvariant, PTL DEF Spec, ThemeSummariesStay

Recent == strategy # "subtask" => RecentInv(messages, log)

LEMMA StepRecent ==
  ASSUME IInv, Recent, [Next]_vars
  PROVE  Recent'
<1>0. messages \in Seq(Message) /\ log \in Seq(Message)
  <2>1. Genuine(strategy, log) \in SUBSET Message
    BY GenuineType
  <2> QED BY <2>1 DEF IInv, Logged
<1> SUFFICES ASSUME strategy # "subtask" PROVE RecentInv(messages', log')
  BY HistoryStep DEF Recent
<1>1. RecentInv(messages, log)
  BY DEF Recent
<1>2. CASE UNCHANGED <<messages, log>>
  BY <1>1, <1>2
<1>3. CASE Appends
  <2>1. PICK x : /\ Appendable(log, x)
                 /\ messages' = messages \o x /\ log' = log \o x
    BY <1>3 DEF Appends
  <2>2. x \in Seq(Message)
    BY <2>1 DEF Appendable
  <2>3. RecentInv(messages \o x, log \o x)
    BY <1>0, <1>1, <2>2, RecentGrows
  <2> QED BY <2>1, <2>3
<1>4. CASE Replaces
  <2> DEFINE r == pending[1]
             d == Depth(log)
  <2>1. /\ r \in Compactions /\ Len(messages) > KeepFirst + 2
        /\ messages' = r.messages /\ log' = log
    BY <1>4 DEF Replaces, IInv, PendingInv
  <2> HIDE DEF r
  <2>2. Len(messages) >= KeepFirst /\ KeepFirst \in Nat
    BY <1>0, <2>1, AgentAssumption
  <2>3. /\ Len(log) >= KeepFirst /\ d \in 0..Depth(messages)
        /\ SameEnd(messages, log, d)
    BY <1>0, <1>1, <2>2, RecentInTail
  <2>4. /\ SameEnd(r.messages, messages, Depth(messages))
        /\ KeepFirst + Depth(messages) <= Len(r.messages)
    BY <2>1, ResultEnd
  <2>5. r.messages \in Seq(Message)
    BY <2>1, ResultGenuine
  <2>6. Depth(messages) \in Nat
    BY <1>0, <2>2, DepthFacts
  <2> HIDE DEF d
  <2>7. SameEnd(r.messages, messages, d)
    BY <1>0, <2>3, <2>4, <2>5, <2>6, SameEndShorter
  <2>8. SameEnd(r.messages, log, d)
    BY <2>3, <2>7, SameEndTrans
  <2>9. KeepFirst + d <= Len(r.messages)
    <3>1. Len(r.messages) \in Nat
      BY <2>5
    <3> QED BY <2>2, <2>3, <2>4, <2>6, <3>1
  <2> QED BY <2>1, <2>3, <2>8, <2>9 DEF RecentInv, d
<1> QED BY <1>2, <1>3, <1>4, HistoryStep

THEOREM RecentAlways == Spec => []Recent
<1>1. Init => Recent
  BY DEF Init, Recent, RecentInv
<1>2. IInv /\ Recent /\ [Next]_vars => Recent'
  BY StepRecent
<1> QED BY <1>1, <1>2, InductiveInvariant, PTL DEF Spec

\* Two histories with the same end have the same suffix there.
LEMMA SameSuffix ==
  ASSUME NEW u \in Seq(Message), NEW v \in Seq(Message), NEW d \in Nat,
         SameEnd(u, v, d)
  PROVE  From(u, Len(u) - d) = From(v, Len(v) - d)
<1> DEFINE a == From(u, Len(u) - d)
           b == From(v, Len(v) - d)
<1>1. /\ Len(u) - d \in 0..Len(u) /\ Len(u) - (Len(u) - d) = d
      /\ Len(v) - d \in 0..Len(v) /\ Len(v) - (Len(v) - d) = d
      /\ \A i \in 1..d : u[Len(u) - d + i] = v[Len(v) - d + i]
  BY DEF SameEnd
<1>2. a \in Seq(Message) /\ Len(a) = d /\ \A i \in 1..d : a[i] = u[Len(u) - d + i]
  <2> DEFINE k == Len(u) - d
  <2>1. k \in 0..Len(u) /\ Len(u) - k = d
    BY <1>1
  <2> HIDE DEF k
  <2>2. /\ From(u, k) \in Seq(Message) /\ Len(From(u, k)) = d
        /\ \A i \in 1..d : From(u, k)[i] = u[k + i]
    BY <2>1, FromType
  <2> QED BY <2>2 DEF k
<1>3. b \in Seq(Message) /\ Len(b) = d /\ \A i \in 1..d : b[i] = v[Len(v) - d + i]
  <2> DEFINE k == Len(v) - d
  <2>1. k \in 0..Len(v) /\ Len(v) - k = d
    BY <1>1
  <2> HIDE DEF k
  <2>2. /\ From(v, k) \in Seq(Message) /\ Len(From(v, k)) = d
        /\ \A i \in 1..d : From(v, k)[i] = v[k + i]
    BY <2>1, FromType
  <2> QED BY <2>2 DEF k
<1> HIDE DEF a, b
<1>4. \A i \in 1..Len(a) : a[i] = b[i]
  BY <1>1, <1>2, <1>3
<1>5. a = b
  BY <1>2, <1>3, <1>4, SeqEqual
<1> QED BY <1>5 DEF a, b

\* The recent turns of a history are its last Depth messages.
LEMMA RecentSuffix ==
  ASSUME NEW l \in Seq(Message)
  PROVE  /\ Depth(l) \in 0..Len(l)
         /\ LastNTurns(From(l, KeepFirst), KeepLastTurns)
              = From(l, Len(l) - Depth(l))
<1>1. KeepFirst \in Nat /\ KeepLastTurns \in Nat /\ Len(l) \in Nat
  BY AgentAssumption
<1>2. CASE Len(l) >= KeepFirst
  <2> DEFINE s == SplitHeadTail(l, KeepFirst, KeepLastTurns)
  <2>1. Depth(l) \in 0..(Len(l) - KeepFirst)
    BY <1>2, DepthFacts
  <2>2. s.tail = LastNTurns(From(l, KeepFirst), KeepLastTurns)
    BY DEF SplitHeadTail
  <2> HIDE DEF s
  <2>3. s.tail \in Seq(Message)
    BY <1>1, <1>2, PartsIn DEF s
  <2>4. s.tail = From(l, Len(l)
                   - Len(LastNTurns(From(l, KeepFirst), KeepLastTurns)))
    BY <1>1, <1>2, <2>3, SplitParts DEF s
  <2> QED BY <1>1, <2>1, <2>2, <2>4 DEF Depth
<1>3. CASE Len(l) < KeepFirst
  <2>1. From(l, KeepFirst) = << >>
    BY <1>1, <1>3 DEF From
  <2>2. From(l, KeepFirst) \in Seq(Message) /\ Len(From(l, KeepFirst)) = 0
    BY <2>1
  <2>3. /\ LastNTurns(From(l, KeepFirst), KeepLastTurns) \in Seq(Message)
        /\ Len(LastNTurns(From(l, KeepFirst), KeepLastTurns)) \in 0..0
    BY <1>1, <2>2, LastNTurnsType
  <2>4. /\ LastNTurns(From(l, KeepFirst), KeepLastTurns) = << >>
        /\ Depth(l) = 0
    BY <2>3 DEF Depth
  <2>5. From(l, Len(l)) = << >>
    BY <1>1 DEF From
  <2> QED BY <1>1, <2>4, <2>5
<1> QED BY <1>1, <1>2, <1>3

\* The last keep_last_turns complete turns of the run, with everything said
\* since, are the end of the context, verbatim (RecentTurnsVerbatim).
THEOREM RecentTurnsKept == Spec => []RecentTurnsVerbatim
<1>1. IInv /\ Recent => RecentTurnsVerbatim
  <2> SUFFICES ASSUME IInv, Recent, strategy # "subtask"
               PROVE  /\ Depth(log) <= Len(messages)
                      /\ From(messages, Len(messages) - Depth(log))
                           = LastNTurns(From(log, KeepFirst), KeepLastTurns)
    BY DEF RecentTurnsVerbatim, Depth
  <2>1. messages \in Seq(Message) /\ log \in Seq(Message)
    <3>1. Genuine(strategy, log) \in SUBSET Message
      BY GenuineType
    <3> QED BY <3>1 DEF IInv, Logged
  <2>2. /\ Depth(log) \in 0..Len(log)
        /\ LastNTurns(From(log, KeepFirst), KeepLastTurns)
             = From(log, Len(log) - Depth(log))
    BY <2>1, RecentSuffix
  <2>3. SameEnd(messages, log, Depth(log))
    <3>1. CASE messages = log
      BY <2>1, <2>2, <3>1 DEF SameEnd
    <3>2. CASE messages # log
      BY <3>2 DEF Recent, RecentInv
    <3> QED BY <3>1, <3>2
  <2> DEFINE d == Depth(log)
  <2>4. d \in Nat /\ d \in 0..Len(messages)
    BY <2>2, <2>3 DEF SameEnd
  <2> HIDE DEF d
  <2>5. From(messages, Len(messages) - d) = From(log, Len(log) - d)
    BY <2>1, <2>3, <2>4, SameSuffix DEF d
  <2> QED BY <2>1, <2>2, <2>4, <2>5 DEF d
<1> QED BY <1>1, InductiveInvariant, RecentAlways, PTL

\* The last message of the run is among the recent turns, unless it is in the
\* head.
LEMMA LastIsRecent ==
  ASSUME KeepLastTurns # 0, NEW l \in Seq(Message), Len(l) > KeepFirst
  PROVE  Depth(l) >= 1
<1>1. KeepFirst \in Nat /\ KeepLastTurns \in Nat \ {0} /\ Len(l) \in Nat
      /\ 1 \in 0..(Len(l) - KeepFirst)
  BY AgentAssumption
<1> DEFINE P == {i \in At(l, "tool") : i > Len(l) - 1}
<1>2. P \in SUBSET {Len(l)}
  BY <1>1 DEF At
<1> HIDE DEF P
<1>3. IsFiniteSet({Len(l)}) /\ Cardinality({Len(l)}) = 1
  BY FS_Singleton
<1>4. IsFiniteSet(P) /\ Cardinality(P) <= 1
  BY <1>2, <1>3, FS_Subset
<1>5. Cardinality(P) \in Nat
  BY <1>4, FS_CardinalityType
<1>6. ToolsIn(l, 1) <= KeepLastTurns
  BY <1>1, <1>4, <1>5 DEF ToolsIn, P
<1>7. /\ Depth(l) \in 0..(Len(l) - KeepFirst)
      /\ \A d \in 0..(Len(l) - KeepFirst) :
           ToolsIn(l, d) <= KeepLastTurns <=> d <= Depth(l)
  BY <1>1, DepthFacts
<1>8. 1 <= Depth(l)
  BY <1>1, <1>6, <1>7
<1> QED BY <1>7, <1>8

\* Whatever the strategy folded away, the last thing that happened is
\* readable, when at least one turn is kept (CurrentWorkReadable; the subtask
\* strategy's boundaries are the model's own choice).
THEOREM LastWorkReadable ==
  KeepLastTurns # 0 =>
    (Spec => [](strategy # "subtask" => CurrentWorkReadable))
<1> SUFFICES ASSUME KeepLastTurns # 0
             PROVE  Spec => [](strategy # "subtask" => CurrentWorkReadable)
  OBVIOUS
<1>1. IInv /\ Recent => (strategy # "subtask" => CurrentWorkReadable)
  <2> SUFFICES ASSUME IInv, Recent, strategy # "subtask"
               PROVE  \E i \in DOMAIN messages : messages[i] = log[Len(log)]
    BY DEF CurrentWorkReadable, Last
  <2>1. /\ messages \in Seq(Message) /\ log \in Seq(Message) /\ Len(log) >= 2
        /\ Len(log) \in Nat /\ Len(messages) \in Nat
        /\ DOMAIN messages = 1..Len(messages)
        /\ KeepFirst \in Nat \ {0, 1}
    <3>1. Genuine(strategy, log) \in SUBSET Message
      BY GenuineType
    <3> QED BY <3>1, AgentAssumption DEF IInv, Logged
  <2>2. CASE messages = log
    <3>1. Len(log) \in DOMAIN messages
      BY <2>1, <2>2
    <3> QED BY <2>2, <3>1
  <2>3. CASE messages # log
    <3>1. /\ Len(log) >= KeepFirst /\ KeepFirst + Depth(log) <= Len(messages)
          /\ SameEnd(messages, log, Depth(log))
      BY <2>3 DEF Recent, RecentInv
    <3>2. StartsLike(KeepFirst, messages, log)
      BY <2>3 DEF IInv, HeadInv
    <3>3. CASE Len(log) = KeepFirst
      <4>1. KeepFirst \in 1..Len(messages) /\ messages[KeepFirst] = log[KeepFirst]
        BY <2>1, <3>2 DEF StartsLike
      <4> QED BY <2>1, <3>3, <4>1
    <3>4. CASE Len(log) > KeepFirst
      <4> DEFINE d == Depth(log)
      <4>1. d >= 1 /\ d \in 0..(Len(log) - KeepFirst)
        BY <2>1, <3>1, <3>4, LastIsRecent, DepthFacts
      <4>2. /\ d \in 0..Len(messages)
            /\ \A i \in 1..d : messages[Len(messages) - d + i] = log[Len(log) - d + i]
        BY <3>1 DEF SameEnd
      <4> HIDE DEF d
      <4>3. /\ d \in 1..d /\ Len(messages) - d + d = Len(messages)
            /\ Len(log) - d + d = Len(log) /\ Len(messages) \in 1..Len(messages)
        BY <2>1, <4>1, <4>2
      <4>4. messages[Len(messages)] = log[Len(log)]
        BY <4>2, <4>3
      <4> QED BY <2>1, <4>3, <4>4
    <3> QED BY <2>1, <3>1, <3>3, <3>4
  <2> QED BY <2>2, <2>3
<1> QED BY <1>1, InductiveInvariant, RecentAlways, PTL

-----------------------------------------------------------------------------
(* What is still told *)

LEMMA KnownIn ==
  ASSUME NEW msgs, NEW P, NEW n
  PROVE  n \in KnownAt(msgs, P)
           <=> \E i \in P : n = msgs[i].id \/ n \in msgs[i].covers
BY DEF KnownAt

Failed == \E k \in DOMAIN compressions : compressions[k].kind = "summary_failed"

\* What the strategy owes the reader: everything, or what no digest caps.
Owed(l) == {n \in 1..Len(l) : strategy = "model" \/ FitsDigest(l[n])}

\* Summaries in the history that a digest tells whole.
SummariesFit ==
  \A i \in DOMAIN messages : messages[i].form = "summary" => FitsDigest(messages[i])

\* Everything owed is told by the history.
Told == strategy \in {"model", "cliff"} /\ ~Failed
            /\ (strategy = "cliff" => DigestsFit)
          => Owed(log) \subseteq Known(messages)

\* A history behind its head starts with the system message and the task.
LEMMA FirstTwo ==
  ASSUME IInv, Len(messages) >= 2
  PROVE  /\ messages[1] = Plain("system", 1, 1)
         /\ messages[2] = Plain("user", 2, 1)
<1>1. log[1] = Plain("system", 1, 1) /\ log[2] = Plain("user", 2, 1)
  BY DEF IInv, Logged
<1>2. CASE messages = log
  BY <1>1, <1>2
<1>3. CASE messages # log
  <2> DEFINE n == IF strategy = "subtask" THEN 2 ELSE KeepFirst
  <2>1. StartsLike(n, messages, log) /\ n \in Nat \ {0, 1}
    BY <1>3, AgentAssumption DEF IInv, HeadInv
  <2> HIDE DEF n
  <2>2. 1 \in 1..n /\ 2 \in 1..n
    BY <2>1
  <2> QED BY <1>1, <2>1, <2>2 DEF StartsLike
<1> QED BY <1>2, <1>3

\* A message a digest cuts short tells nothing that is owed and not told
\* elsewhere.
LEMMA OwedIsWhole ==
  ASSUME IInv, strategy = "cliff", SummariesFit,
         NEW i \in DOMAIN messages, NEW n \in Owed(log),
         n = messages[i].id \/ n \in messages[i].covers
  PROVE  FitsDigest(messages[i])
<1> DEFINE m == messages[i]
<1>1. m \in Genuine(strategy, log) /\ m.form \in {"verbatim", "masked", "summary"}
  <2>1. m \in Genuine(strategy, log)
    BY DEF IInv
  <2> HIDE DEF m
  <2>2. m \in Message
    BY <2>1 DEF Genuine
  <2> QED BY <2>1, <2>2 DEF Message
<1>2. CASE m.form = "summary"
  BY <1>2 DEF SummariesFit
<1>3. CASE m.form = "verbatim"
  <2> HIDE DEF m
  <2>1. m.id \in 1..Len(log) /\ m = log[m.id]
    BY <1>1, <1>3 DEF Genuine
  <2>2. m.covers = {}
    BY <2>1 DEF IInv, Logged
  <2>3. n = m.id
    BY <2>2 DEF m
  <2> QED BY <2>1, <2>3 DEF Owed, m
<1>4. CASE m.form = "masked"
  <2> HIDE DEF m
  <2> QED BY <1>1, <1>4 DEF Genuine
<1> QED BY <1>1, <1>2, <1>3, <1>4

\* A summary tells what is owed of the messages it replaces.
LEMMA ResultTells ==
  ASSUME IInv, Len(messages) > KeepFirst + 2,
         strategy \in {"model", "cliff"},
         strategy = "cliff" => SummariesFit,
         NEW r \in Compactions, r.kind # "summary_failed",
         Owed(log) \subseteq Known(messages)
  PROVE  Owed(log) \subseteq Known(r.messages)
<1>1. /\ messages \in Seq(Message) /\ strategy \in Strategies
      /\ Message \in SUBSET Message
  <2>1. Genuine(strategy, log) \in SUBSET Message
    BY GenuineType
  <2> QED BY <2>1 DEF IInv
<1>2. /\ KeepFirst \in Nat \ {0, 1} /\ KeepLastTurns \in Nat
      /\ Len(messages) \in Nat /\ Len(messages) >= KeepFirst
      /\ Len(messages) >= 2 /\ DOMAIN messages = 1..Len(messages)
  BY <1>1, AgentAssumption
<1>3. CASE r.messages = messages
  BY <1>3
<1>4. ASSUME NEW x, Inserted(x, r.kind),
             r.messages = (Split.head \o x) \o Split.tail
      PROVE  Owed(log) \subseteq Known(r.messages)
  <2> DEFINE h == Split.head
             t == Split.tail
             w == r.messages
             m == Split.middle
             f == KeepFirst
  <2>1. x \in Seq(Message)
    <3>1. Closed(Message, strategy)
      <4>1. \A a \in Message : Masked(a) \in Message
        BY CompactionAssumption DEF Masked, Message
      <4> QED BY <4>1 DEF Closed
    <3> QED BY <1>1, <1>2, <1>4, <3>1, InsertedIn
  <2>2. /\ h \in Seq(Message) /\ t \in Seq(Message) /\ m \in Seq(Message)
        /\ Len(h) = f /\ StartsLike(f, h, messages)
    BY <1>1, <1>2, PartsIn DEF Split
  <2>3. /\ Cut \in f..Len(messages) /\ Len(m) = Cut - f
        /\ \A i \in 1..(Cut - f) : m[i] = messages[f + i]
        /\ t = From(messages, Cut)
    BY <1>1, <1>2, CutFacts DEF Holds
  <2> HIDE DEF h, t, m
  <2>4. Len(t) = Len(messages) - Cut
        /\ \A i \in 1..(Len(messages) - Cut) : t[i] = messages[Cut + i]
    <3>1. Cut \in 0..Len(messages)
      BY <1>2, <2>3
    <3> QED BY <1>1, <2>3, <3>1, FromType
  <2>5. w = (h \o x) \o t
    BY <1>4 DEF h, t
  <2>6. /\ w \in Seq(Message) /\ Len(w) = f + Len(x) + Len(t)
        /\ \A i \in 1..f : w[i] = h[i]
        /\ \A i \in 1..Len(x) : w[f + i] = x[i]
        /\ \A i \in 1..Len(t) : w[f + Len(x) + i] = t[i]
    <3> HIDE DEF w
    <3>1. w \in Seq(Message) /\ StartsLike(Len(h), w, h)
      BY <2>1, <2>2, <2>5, FrontKept
    <3>2. Holds(w, Len(h), x)
      BY <2>1, <2>2, <2>5, MiddleKept
    <3>3. EndsIn(w, Len(h) + Len(x), t)
      BY <2>1, <2>2, <2>5, TailKept
    <3> QED BY <2>2, <3>1, <3>2, <3>3 DEF StartsLike, Holds, EndsIn
  <2> HIDE DEF w
  <2>7. Len(x) \in Nat /\ Len(t) \in Nat /\ Cut \in Nat /\ Len(w) \in Nat
        /\ DOMAIN w = 1..Len(w)
    BY <1>2, <2>1, <2>2, <2>3, <2>6
  <2> SUFFICES ASSUME NEW n \in Owed(log), NEW i \in 1..Len(messages),
                      n = messages[i].id \/ n \in messages[i].covers
               PROVE  \E j \in 1..Len(w) : n = w[j].id \/ n \in w[j].covers
    BY <1>2, <2>7, KnownIn DEF Known, w
  <2>8. CASE i <= f
    <3>1. i \in 1..f /\ i \in 1..Len(w)
      BY <1>2, <2>6, <2>7, <2>8
    <3>2. w[i] = messages[i]
      BY <2>2, <2>6, <3>1 DEF StartsLike
    <3> QED BY <3>1, <3>2
  <2>9. CASE i > Cut
    <3> DEFINE k == i - Cut
    <3>1. /\ k \in 1..Len(t) /\ k \in 1..(Len(messages) - Cut) /\ i = Cut + k
          /\ f + Len(x) + k \in 1..Len(w)
      BY <1>2, <2>4, <2>6, <2>7, <2>9
    <3> HIDE DEF k
    <3>2. w[f + Len(x) + k] = messages[i]
      BY <2>4, <2>6, <3>1
    <3> QED BY <3>1, <3>2
  <2>10. CASE f < i /\ i <= Cut /\ strategy = "cliff"
    <3>1. PICK z \in SummarySizes : x = <<Digest("user", z, Digested(m))>>
      BY <1>4, <2>10 DEF Inserted, m
    <3>2. Digested(m) \in SUBSET Nat /\ z \in Nat /\ "user" \in Roles
      BY <2>2, DigestedType, CompactionAssumption DEF Roles
    <3>3. Len(x) = 1 /\ x[1].covers = Digested(m)
      <4>1. Digest("user", z, Digested(m)).covers = Digested(m)
        BY <3>2, InsertedType
      <4> QED BY <3>1, <4>1
    <3> DEFINE k == i - f
    <3>4. k \in 1..(Cut - f) /\ i = f + k /\ k \in DOMAIN m
      BY <1>2, <2>2, <2>3, <2>7, <2>10
    <3> HIDE DEF k
    <3>5. m[k] = messages[i]
      BY <2>3, <3>4
    <3>6. n \in Digested(m)
      <4>1. FitsDigest(messages[i])
        BY <1>2, <2>10, OwedIsWhole
      <4>2. k \in {j \in DOMAIN m : FitsDigest(m[j])}
        BY <3>4, <3>5, <4>1
      <4> QED BY <3>5, <4>2, KnownIn DEF Digested
    <3>7. f + 1 \in 1..Len(w) /\ w[f + 1] = x[1]
      BY <1>2, <2>6, <2>7, <3>3
    <3> QED BY <3>3, <3>6, <3>7
  <2>11. CASE f < i /\ i <= Cut /\ strategy = "model"
    <3> DEFINE known == KnownAt(messages, StepPositions(messages))
    <3>1. PICK z \in SummarySizes : x = SummaryAsToolTurn(z, known)
      BY <1>4, <2>11 DEF Inserted
    <3>2. known \in SUBSET Nat /\ z \in Nat /\ "tool" \in Roles
      <4>1. StepPositions(messages) \in SUBSET (DOMAIN messages)
        BY DEF StepPositions
      <4> QED BY <1>1, <4>1, KnownType, CompactionAssumption DEF Roles
    <3> HIDE DEF known
    <3>3. Len(x) = 2 /\ x[2].covers = known
      <4>1. Digest("tool", z, known).covers = known
        BY <3>2, InsertedType
      <4>2. x = <<SummaryCall, Digest("tool", z, known)>>
        BY <3>1 DEF SummaryAsToolTurn, SummaryCall, Digest
      <4> QED BY <4>1, <4>2
    <3>4. f + 2 \in 1..Len(w) /\ w[f + 2] = x[2]
      BY <1>2, <2>6, <2>7, <3>3
    <3>5. CASE i \in StepPositions(messages)
      <4>1. n \in known
        BY <3>5, KnownIn DEF known
      <4> QED BY <3>3, <3>4, <4>1
    <3>6. CASE i \notin StepPositions(messages)
      <4>1. /\ messages[1] = Plain("system", 1, 1)
            /\ messages[2] = Plain("user", 2, 1)
        BY <1>2, FirstTwo
      <4>2. Plain("user", 2, 1).role = "user" /\ Plain("system", 1, 1).id = 1
        BY DEF Plain
      <4>3. 2 \in At(messages, "user") /\ 2 < i
        BY <1>2, <2>11, <4>1, <4>2 DEF At
      <4>4. messages[i].role = "system"
        BY <1>2, <3>6, <4>3 DEF StepPositions
      <4>5. messages[i] \in Genuine(strategy, log)
        BY <1>2 DEF IInv
      <4>6. n = 1
        BY <4>4, <4>5 DEF Genuine
      <4>7. 1 \in 1..f /\ 1 \in 1..Len(w)
        BY <1>2, <2>6, <2>7
      <4>8. w[1].id = 1
        BY <2>2, <2>6, <4>1, <4>2, <4>7 DEF StartsLike
      <4> QED BY <4>6, <4>7, <4>8
    <3> QED BY <3>5, <3>6
  <2> QED BY <1>2, <2>7, <2>8, <2>9, <2>10, <2>11
<1>5. \/ r.messages = messages
      \/ \E x : Inserted(x, r.kind) /\ r.messages = (Split.head \o x) \o Split.tail
  BY <1>1, <1>2, Shapes
<1> QED BY <1>3, <1>4, <1>5

\* Compaction records are never dropped or changed.
LEMMA RecordsKept ==
  ASSUME IInv, [Next]_vars
  PROVE  \A k \in DOMAIN compressions :
           k \in DOMAIN compressions' /\ compressions'[k] = compressions[k]
<1>1. CASE Compact
  <2>1. PICK e : compressions' = Append(compressions, e)
    BY <1>1 DEF Compact
  <2>2. compressions \in Seq(CompactionRecord)
    BY DEF IInv, StoreOK
  <2> QED BY <2>1, <2>2
<1>2. CASE \/ SkipCompaction \/ SaveRecord \/ SaveCount \/ ModelAnswers
           \/ ModelFormatError \/ ExecuteActions \/ Finish \/ UNCHANGED vars
  BY <1>2 DEF SkipCompaction, SaveRecord, SaveCount, ModelAnswers,
              ModelFormatError, ExecuteActions, Finish, vars, store
<1> QED BY <1>1, <1>2 DEF Next

LEMMA StepTold ==
  ASSUME IInv, Told, [Next]_vars
  PROVE  Told'
<1>0. messages \in Seq(Message) /\ log \in Seq(Message)
  <2>1. Genuine(strategy, log) \in SUBSET Message
    BY GenuineType
  <2> QED BY <2>1 DEF IInv, Logged
<1>1. strategy' = strategy /\ (Failed => Failed') /\ (DigestsFit' => DigestsFit)
  BY HistoryStep, RecordsKept DEF Failed, DigestsFit
<1> SUFFICES ASSUME strategy \in {"model", "cliff"}, ~Failed,
                    strategy = "cliff" => DigestsFit
             PROVE  Owed(log)' \subseteq Known(messages')
  BY <1>1 DEF Told
<1>2. Owed(log) \subseteq Known(messages)
  BY DEF Told
<1>3. CASE UNCHANGED <<messages, log>>
  BY <1>1, <1>2, <1>3 DEF Owed
<1>4. CASE Replaces
  <2>1. /\ pending[1] \in Compactions /\ Len(messages) > KeepFirst + 2
        /\ Len(compressions) \in DOMAIN compressions
        /\ compressions[Len(compressions)].kind = pending[1].kind
        /\ compressions[Len(compressions)].input_messages = messages
        /\ messages' = pending[1].messages /\ log' = log
    BY <1>4 DEF Replaces, IInv, PendingInv, StoreOK
  <2>2. pending[1].kind # "summary_failed"
    BY <2>1 DEF Failed
  <2>3. strategy = "cliff" => SummariesFit
    BY <2>1 DEF DigestsFit, SummariesFit
  <2>4. Owed(log) \subseteq Known(messages')
    BY <1>2, <2>1, <2>2, <2>3, ResultTells
  <2> QED BY <1>1, <2>1, <2>4 DEF Owed
<1>5. CASE Appends
  <2>1. PICK x : /\ Appendable(log, x)
                 /\ messages' = messages \o x /\ log' = log \o x
    BY <1>5 DEF Appends
  <2>2. x \in Seq(Message)
    BY <2>1 DEF Appendable
  <2>3. /\ Len(messages') = Len(messages) + Len(x) /\ Len(messages) \in Nat
        /\ Len(x) \in Nat /\ DOMAIN messages' = 1..Len(messages')
        /\ \A i \in 1..Len(messages) : messages'[i] = messages[i]
        /\ \A i \in 1..Len(x) : messages'[Len(messages) + i] = x[i]
    <3>1. messages \o x \in Seq(Message)
      BY <1>0, <2>2, TwoParts
    <3> QED BY <1>0, <2>1, <2>2, <3>1, TwoParts
  <2>4. /\ Len(log') = Len(log) + Len(x) /\ Len(log) \in Nat
        /\ \A i \in 1..Len(log) : log'[i] = log[i]
        /\ \A i \in 1..Len(x) : log'[Len(log) + i] = x[i]
    BY <1>0, <2>1, <2>2, TwoParts
  <2> SUFFICES ASSUME NEW n \in 1..Len(log'),
                      strategy = "model" \/ FitsDigest(log'[n])
               PROVE  \E j \in 1..Len(messages') :
                        n = messages'[j].id \/ n \in messages'[j].covers
    <3>1. SUFFICES ASSUME NEW n \in Owed(log)'
                   PROVE  n \in KnownAt(messages', DOMAIN messages')
      BY DEF Known
    <3>2. n \in 1..Len(log') /\ (strategy = "model" \/ FitsDigest(log'[n]))
      BY <1>1 DEF Owed
    <3> QED BY <2>3, <3>2, KnownIn
  <2>5. CASE n \in 1..Len(log)
    <3>1. n \in Owed(log)
      BY <2>4, <2>5 DEF Owed
    <3>2. PICK j \in 1..Len(messages) :
            n = messages[j].id \/ n \in messages[j].covers
      BY <1>0, <1>2, <3>1, KnownIn DEF Known
    <3>3. j \in 1..Len(messages') /\ messages'[j] = messages[j]
      BY <2>3
    <3> QED BY <3>2, <3>3
  <2>6. CASE n \notin 1..Len(log)
    <3> DEFINE k == n - Len(log)
    <3>1. k \in 1..Len(x) /\ n = Len(log) + k
      BY <2>3, <2>4, <2>6
    <3> HIDE DEF k
    <3>2. messages'[Len(messages) + k] = x[k] /\ x[k].id = n
      BY <2>1, <2>3, <3>1 DEF Appendable
    <3>3. Len(messages) + k \in 1..Len(messages')
      BY <2>3, <3>1
    <3> QED BY <3>2, <3>3
  <2> QED BY <2>5, <2>6
<1> QED BY <1>3, <1>4, <1>5, HistoryStep

\* What compaction removed is still told by some summary in the context,
\* through summaries of summaries, as long as no summarizer call failed: all of
\* it under the model strategy, under cliff what no digest caps, while no digest
\* that is digested again outgrew its own cap (NoContextLost).
THEOREM NothingForgotten == Spec => []NoContextLost
<1>1. Init => Told
  <2> SUFFICES ASSUME Init PROVE Owed(log) \subseteq Known(messages)
    BY DEF Told
  <2>1. messages = log /\ DOMAIN messages = 1..Len(log)
    BY DEF Init
  <2>2. \A n \in 1..Len(log) : log[n].id = n
    BY InitIInv DEF IInv, Logged
  <2> QED BY <2>1, <2>2, KnownIn DEF Owed, Known
<1>2. IInv /\ Told /\ [Next]_vars => Told'
  BY StepTold
<1>3. IInv /\ Told => NoContextLost
  <2> SUFFICES ASSUME IInv, Told, strategy \in {"model", "cliff"}, NoneFailed,
                      strategy = "cliff" => DigestsFit,
                      NEW i \in DOMAIN log,
                      strategy = "model" \/ FitsDigest(log[i])
               PROVE  log[i].id \in Known(messages)
    BY DEF NoContextLost
  <2>1. i \in 1..Len(log) /\ log[i].id = i
    <3>1. log \in Seq(Message)
      BY DEF IInv, Logged
    <3> QED BY <3>1 DEF IInv, Logged
  <2>2. i \in Owed(log)
    BY <2>1 DEF Owed
  <2> QED BY <2>1, <2>2 DEF Told, Failed, NoneFailed
<1> QED BY <1>1, <1>2, <1>3, InductiveInvariant, PTL DEF Spec

-----------------------------------------------------------------------------
(* The history as the chat API takes it *)

\* The recursion of MapThenSumSet on the sizes of a history.
LEMMA TokenSums ==
  ASSUME NEW m \in Seq(Message)
  PROVE  LET g == [i \in DOMAIN m |-> m[i].size]
         IN  /\ g \in [DOMAIN m -> Nat] /\ IsFiniteSet(DOMAIN m)
             /\ \E h : Sums(h, g, DOMAIN m) /\ Tokens(m) = h[DOMAIN m]
<1> DEFINE S == DOMAIN m
<1>1. IsFiniteSet(S)
  <2>1. S = 1..Len(m) /\ Len(m) \in Nat
    OBVIOUS
  <2> QED BY <2>1, FS_Interval
<1>2. \A i \in S : m[i].size \in Nat
  <2>1. \A i \in S : m[i] \in Message
    OBVIOUS
  <2>2. \A x \in Message : x.size \in Nat
    BY DEF Message
  <2> QED BY <2>1, <2>2
<1>3. Tokens(m) = SizeSum(m, S)
  BY DEF Tokens, SizeSum
<1> HIDE DEF S
<1>4. LET g == [i \in S |-> m[i].size]
      IN  g \in [S -> Nat] /\ \E h : Sums(h, g, S) /\ SizeSum(m, S) = h[S]
  BY <1>1, <1>2, SizeSums
<1> QED BY <1>1, <1>3, <1>4 DEF S

\* Inserting messages into a history makes it no smaller.
LEMMA InsertAdds ==
  ASSUME NEW h \in Seq(Message), NEW x \in Seq(Message), NEW t \in Seq(Message),
         NEW m \in Seq(Message), m = h \o t
  PROVE  LET w == (h \o x) \o t
         IN  ~(Len(w) < Len(m)) /\ ~(Tokens(w) < Tokens(m))
<1> DEFINE w == (h \o x) \o t
           b == [i \in DOMAIN m |-> IF i <= Len(h) THEN i ELSE i + Len(x)]
           g == [i \in DOMAIN w |-> w[i].size]
           k == [i \in DOMAIN m |-> m[i].size]
<1>1. /\ w \in Seq(Message) /\ Len(w) = Len(h) + Len(x) + Len(t)
      /\ \A i \in 1..Len(h) : w[i] = h[i]
      /\ \A i \in 1..Len(t) : w[Len(h) + Len(x) + i] = t[i]
  BY ThreeParts
<1>2. /\ Len(m) = Len(h) + Len(t) /\ DOMAIN m = 1..Len(m)
      /\ \A i \in 1..Len(h) : m[i] = h[i]
      /\ \A i \in 1..Len(t) : m[Len(h) + i] = t[i]
  BY TwoParts
<1>3. Len(h) \in Nat /\ Len(x) \in Nat /\ Len(t) \in Nat
  OBVIOUS
<1> HIDE DEF w
<1>4. DOMAIN w = 1..Len(w)
  BY <1>1
<1>5. b \in [DOMAIN m -> DOMAIN w] /\ \A i, j \in DOMAIN m : b[i] = b[j] => i = j
  BY <1>1, <1>2, <1>3, <1>4
<1>6. \A i \in DOMAIN m : w[b[i]] = m[i]
  <2> SUFFICES ASSUME NEW i \in DOMAIN m PROVE w[b[i]] = m[i]
    OBVIOUS
  <2>1. CASE i <= Len(h)
    BY <1>1, <1>2, <1>3, <2>1
  <2>2. CASE i > Len(h)
    <3> DEFINE j == i - Len(h)
    <3>1. j \in 1..Len(t) /\ i = Len(h) + j /\ b[i] = Len(h) + Len(x) + j
      BY <1>2, <1>3, <2>2
    <3> HIDE DEF j, b
    <3> QED BY <1>1, <1>2, <3>1
  <2> QED BY <1>2, <1>3, <2>1, <2>2
<1>7. /\ g \in [DOMAIN w -> Nat] /\ IsFiniteSet(DOMAIN w)
      /\ \E s : Sums(s, g, DOMAIN w) /\ Tokens(w) = s[DOMAIN w]
  BY <1>1, TokenSums
<1>8. /\ k \in [DOMAIN m -> Nat] /\ IsFiniteSet(DOMAIN m)
      /\ \E l : Sums(l, k, DOMAIN m) /\ Tokens(m) = l[DOMAIN m]
  BY TokenSums
<1>9. \A i \in DOMAIN m : k[i] \in Nat /\ k[i] <= g[b[i]]
  <2>1. \A i \in DOMAIN m : k[i] = g[b[i]]
    BY <1>5, <1>6
  <2>2. \A i \in DOMAIN m : k[i] \in Nat
    BY <1>8
  <2>3. \A i \in DOMAIN m : g[b[i]] \in Nat
    BY <2>1, <2>2
  <2> HIDE DEF g, k
  <2>4. \A n \in Nat : n <= n
    OBVIOUS
  <2> QED BY <2>1, <2>2, <2>4
<1>10. PICK s : Sums(s, g, DOMAIN w) /\ Tokens(w) = s[DOMAIN w]
  BY <1>7
<1>11. PICK l : Sums(l, k, DOMAIN m) /\ Tokens(m) = l[DOMAIN m]
  BY <1>8
<1> HIDE DEF b, g, k
<1>12. Tokens(m) <= Tokens(w)
  <2> DEFINE S == DOMAIN w
             R == DOMAIN m
  <2>1. g \in [S -> Nat] /\ IsFiniteSet(S) /\ Sums(s, g, S)
    BY <1>7, <1>10
  <2>2. k \in [R -> Nat] /\ IsFiniteSet(R) /\ Sums(l, k, R)
    BY <1>8, <1>11
  <2>3. /\ b \in [R -> S] /\ \A i, j \in R : b[i] = b[j] => i = j
        /\ \A i \in R : k[i] <= g[b[i]]
    BY <1>5, <1>9
  <2>4. Tokens(w) = s[S] /\ Tokens(m) = l[R]
    BY <1>10, <1>11
  <2> HIDE DEF S, R
  <2>5. l[R] <= s[S]
    BY <2>1, <2>2, <2>3, SumsInto
  <2> QED BY <2>4, <2>5
<1>13. Tokens(m) \in Int /\ Tokens(w) \in Int
  <2>1. \A T \in SUBSET (DOMAIN w) : s[T] \in Int
    <3>1. g \in [DOMAIN w -> Int]
      BY <1>7
    <3> QED BY <1>7, <1>10, <3>1, SumsInt
  <2>2. \A T \in SUBSET (DOMAIN m) : l[T] \in Int
    <3>1. k \in [DOMAIN m -> Int]
      BY <1>8
    <3> QED BY <1>8, <1>11, <3>1, SumsInt
  <2> QED BY <1>10, <1>11, <2>1, <2>2
<1>14. ~(Tokens(w) < Tokens(m))
  BY <1>12, <1>13
<1>15. ~(Len(w) < Len(m))
  BY <1>1, <1>2, <1>3
<1> QED BY <1>14, <1>15 DEF w

\* The history with some observations masked.
Masks(w, m) ==
  /\ Len(w) = Len(m)
  /\ \A i \in 1..Len(m) :
       \/ w[i] = m[i]
       \/ m[i].role = "tool" /\ w[i] = Masked(m[i])

\* What comes to stand for messages that were folded away: nothing, a digest,
\* or a call with its result.
Filler(x) ==
  \/ Len(x) = 0
  \/ Len(x) = 1 /\ x[1].role = "user" /\ x[1].id = 0
  \/ /\ Len(x) = 2 /\ x[1] = SummaryCall
     /\ x[2].role = "tool" /\ x[2].id = 0 /\ x[2].of = 0

\* The history with x for what lies between its head and c.
Folds(w, m, c, x) ==
  /\ Len(w) = KeepFirst + Len(x) + (Len(m) - c)
  /\ StartsLike(KeepFirst, w, m) /\ Holds(w, KeepFirst, x)
  /\ \A i \in 1..(Len(m) - c) : w[KeepFirst + Len(x) + i] = m[c + i]

\* Unless a history is wholly kept, the turns that are begin behind a tool
\* observation.
LEMMA CutBehindTool ==
  ASSUME messages \in Seq(Message), Len(messages) >= KeepFirst, Cut > KeepFirst
  PROVE  Cut = Len(messages) \/ messages[Cut].role = "tool"
<1> DEFINE d == Depth(messages)
<1>1. /\ KeepFirst \in Nat /\ KeepLastTurns \in Nat /\ Len(messages) \in Nat
      /\ d \in 0..(Len(messages) - KeepFirst) /\ Cut = Len(messages) - d
  BY AgentAssumption, DepthFacts DEF Cut, Depth
<1>2. CASE KeepLastTurns = 0
  <2>1. d = 0
    BY <1>2, DepthFacts
  <2> QED BY <1>1, <2>1
<1>3. CASE KeepLastTurns # 0
  <2> SUFFICES ASSUME messages[Cut].role # "tool" PROVE FALSE
    OBVIOUS
  <2>1. \A e \in 0..(Len(messages) - KeepFirst) :
          ToolsIn(messages, e) <= KeepLastTurns <=> e <= d
    BY <1>3, DepthFacts
  <2>2. d + 1 \in 0..(Len(messages) - KeepFirst)
    <3> HIDE DEF d
    <3> QED BY <1>1
  <2> HIDE DEF d
  <2>3. ToolsIn(messages, d) <= KeepLastTurns /\ ~(ToolsIn(messages, d + 1) <= KeepLastTurns)
    BY <1>1, <2>1, <2>2
  <2>4. \A i \in At(messages, "tool") : i > Len(messages) - (d + 1) <=> i > Len(messages) - d
    <3> SUFFICES ASSUME NEW i \in At(messages, "tool")
                 PROVE  i > Len(messages) - (d + 1) <=> i > Len(messages) - d
      OBVIOUS
    <3>1. i \in Nat /\ i # Cut
      BY DEF At
    <3> QED BY <1>1, <3>1
  <2>5. ToolsIn(messages, d + 1) = ToolsIn(messages, d)
    <3>1. {i \in At(messages, "tool") : i > Len(messages) - (d + 1)}
            = {i \in At(messages, "tool") : i > Len(messages) - d}
      BY <2>4
    <3> QED BY <3>1 DEF ToolsIn
  <2> QED BY <2>3, <2>5
<1> QED BY <1>2, <1>3

\* What a compaction that is applied does to the history.
LEMMA ResultShapes ==
  ASSUME IInv, Len(messages) > KeepFirst + 2, strategy # "subtask",
         NEW r \in Compactions, Reduces(r)
  PROVE  /\ strategy \notin {"none", "mask"} =>
              /\ KeepFirst < Cut /\ Cut <= Len(messages)
              /\ \E x \in Seq(Message) :
                   Filler(x) /\ Folds(r.messages, messages, Cut, x)
         /\ strategy \in {"none", "mask"} => Masks(r.messages, messages)
<1>1. /\ messages \in Seq(Message) /\ strategy \in Strategies
      /\ Message \in SUBSET Message
  <2>1. Genuine(strategy, log) \in SUBSET Message
    BY GenuineType
  <2> QED BY <2>1 DEF IInv
<1>2. /\ KeepFirst \in Nat /\ KeepLastTurns \in Nat /\ Len(messages) \in Nat
      /\ Len(messages) >= KeepFirst
  BY <1>1, AgentAssumption
<1>3. r.messages # messages
  <2>1. ASSUME r.messages = messages PROVE FALSE
    <3>1. << >> \in Seq(Message) /\ messages = << >> \o messages
          /\ (<< >> \o << >>) \o messages = messages
      BY <1>1
    <3>2. ~(Len(messages) < Len(messages)) /\ ~(Tokens(messages) < Tokens(messages))
      BY <1>1, <3>1, InsertAdds
    <3> QED BY <2>1, <3>2 DEF Reduces
  <2> QED BY <2>1
<1>4. PICK x : Inserted(x, r.kind) /\ r.messages = (Split.head \o x) \o Split.tail
  BY <1>1, <1>2, <1>3, Shapes
<1> DEFINE h == Split.head
           t == Split.tail
           m == Split.middle
           w == (h \o x) \o t
<1>5. x \in Seq(Message)
  <2>1. Closed(Message, strategy)
    <3>1. \A y \in Message : Masked(y) \in Message
      BY CompactionAssumption DEF Masked, Message
    <3> QED BY <3>1 DEF Closed
  <2> QED BY <1>1, <1>2, <1>4, <2>1, InsertedIn
<1>6. /\ h \in Seq(Message) /\ t \in Seq(Message) /\ Len(h) = KeepFirst
      /\ StartsLike(KeepFirst, h, messages)
  BY <1>1, <1>2, PartsIn DEF Split
<1>7. /\ Cut \in KeepFirst..Len(messages) /\ m \in Seq(Message)
      /\ Len(m) = Cut - KeepFirst /\ Holds(messages, KeepFirst, m)
      /\ t = From(messages, Cut)
  BY <1>1, <1>2, CutFacts
<1>8. /\ Len(t) = Len(messages) - Cut
      /\ \A i \in 1..(Len(messages) - Cut) : t[i] = messages[Cut + i]
  BY <1>1, <1>2, <1>7, FromType
<1>9. r.messages = w
  BY <1>4
<1>10. /\ w \in Seq(Message) /\ StartsLike(KeepFirst, w, h) /\ Holds(w, KeepFirst, x)
       /\ Len(w) = KeepFirst + Len(x) + Len(t)
       /\ \A i \in 1..Len(t) : w[KeepFirst + Len(x) + i] = t[i]
  <2> HIDE DEF h, t
  <2>1. w \in Seq(Message) /\ EndsIn(w, Len(h) + Len(x), t)
    BY <1>5, <1>6, TailKept
  <2>2. StartsLike(Len(h), w, h)
    BY <1>5, <1>6, FrontKept
  <2>3. Holds(w, Len(h), x)
    BY <1>5, <1>6, MiddleKept
  <2> QED BY <1>6, <2>1, <2>2, <2>3 DEF EndsIn
<1> HIDE DEF w
<1>11. Cut > KeepFirst
  <2> SUFFICES ASSUME Cut = KeepFirst PROVE FALSE
    BY <1>2, <1>7
  <2> HIDE DEF h, t
  <2>1. messages = h \o t
    <3> DEFINE v == h \o t
    <3>1. /\ v \in Seq(Message) /\ Len(v) = Len(h) + Len(t)
          /\ \A i \in 1..Len(h) : v[i] = h[i]
          /\ \A i \in 1..Len(t) : v[Len(h) + i] = t[i]
      <4>1. h \in Seq(Message) /\ t \in Seq(Message)
        BY <1>6
      <4> QED BY <4>1, TwoParts
    <3> HIDE DEF v
    <3>2. Len(v) = Len(messages)
      BY <1>2, <1>6, <1>7, <1>8, <3>1
    <3>3. ASSUME NEW i \in 1..Len(messages) PROVE messages[i] = v[i]
      <4>1. CASE i <= KeepFirst
        BY <1>2, <1>6, <3>1, <4>1 DEF StartsLike
      <4>2. CASE i > KeepFirst
        <5> DEFINE j == i - KeepFirst
        <5>1. j \in 1..Len(t) /\ i = KeepFirst + j /\ j \in 1..(Len(messages) - Cut)
          BY <1>2, <1>8, <4>2
        <5> HIDE DEF j
        <5> QED BY <1>6, <1>8, <3>1, <5>1
      <4> QED BY <1>2, <4>1, <4>2
    <3>4. \A i \in 1..Len(messages) : messages[i] = v[i]
      BY <3>3
    <3>5. messages = v
      BY <1>1, <3>1, <3>2, <3>4, SeqEqual
    <3> QED BY <3>5 DEF v
  <2>2. ~(Len(w) < Len(messages)) /\ ~(Tokens(w) < Tokens(messages))
    BY <1>1, <1>5, <1>6, <2>1, InsertAdds DEF w
  <2> QED BY <1>9, <2>2 DEF Reduces
<1>12. ASSUME Filler(x)
       PROVE  /\ KeepFirst < Cut /\ Cut <= Len(messages)
              /\ \E y \in Seq(Message) :
                   Filler(y) /\ Folds(r.messages, messages, Cut, y)
  <2>1. StartsLike(KeepFirst, w, messages)
    BY <1>6, <1>10 DEF StartsLike
  <2>2. Folds(w, messages, Cut, x)
    <3> HIDE DEF t, h
    <3> QED BY <1>8, <1>10, <2>1 DEF Folds
  <2> QED BY <1>5, <1>7, <1>9, <1>11, <1>12, <2>2
<1>13. ASSUME x = << >> PROVE Filler(x)
  BY <1>13 DEF Filler
<1>14. ASSUME strategy = "mask", x = MaskEnv(m) PROVE Masks(r.messages, messages)
  <2> HIDE DEF h, t, m
  <2>1. /\ Len(x) = Len(m)
        /\ \A i \in DOMAIN m : \/ x[i] = m[i]
                               \/ m[i].role = "tool" /\ x[i] = Masked(m[i])
    <3>1. Closed(Message, "mask")
      <4>1. \A y \in Message : Masked(y) \in Message
        BY CompactionAssumption DEF Masked, Message
      <4> QED BY <4>1 DEF Closed
    <3> QED BY <1>1, <1>7, <1>14, <3>1, MaskType
  <2>2. DOMAIN m = 1..Len(m)
    BY <1>7
  <2>3. Len(w) = Len(messages)
    BY <1>2, <1>7, <1>8, <1>10, <2>1
  <2>4. ASSUME NEW i \in 1..Len(messages)
        PROVE  \/ w[i] = messages[i]
               \/ messages[i].role = "tool" /\ w[i] = Masked(messages[i])
    <3>1. CASE i <= KeepFirst
      BY <1>2, <1>6, <1>10, <3>1 DEF StartsLike
    <3>2. CASE i > KeepFirst /\ i <= Cut
      <4> DEFINE j == i - KeepFirst
      <4>1. j \in 1..Len(m) /\ i = KeepFirst + j /\ j \in 1..Len(x)
        BY <1>2, <1>7, <2>1, <3>2
      <4> HIDE DEF j
      <4>2. w[i] = x[j] /\ messages[i] = m[j]
        BY <1>7, <1>10, <4>1 DEF Holds
      <4> QED BY <2>1, <2>2, <4>1, <4>2
    <3>3. CASE i > Cut
      <4> DEFINE j == i - Cut
      <4>1. /\ j \in 1..Len(t) /\ i = Cut + j /\ i = KeepFirst + Len(x) + j
            /\ j \in 1..(Len(messages) - Cut)
        BY <1>2, <1>7, <1>8, <2>1, <3>3
      <4> HIDE DEF j
      <4> QED BY <1>8, <1>10, <4>1
    <3> QED BY <1>2, <1>7, <3>1, <3>2, <3>3
  <2>5. Masks(w, messages)
    BY <2>3, <2>4 DEF Masks
  <2> QED BY <1>9, <2>5
<1>15. ASSUME NEW z \in SummarySizes,
              x = SummaryAsToolTurn(z, KnownAt(messages, StepPositions(messages)))
       PROVE  Filler(x)
  <2> DEFINE known == KnownAt(messages, StepPositions(messages))
             y == Digest("tool", z, known)
  <2>1. x = <<SummaryCall, y>>
    BY <1>15 DEF SummaryAsToolTurn, SummaryCall, Digest
  <2>2. y.role = "tool" /\ y.id = 0 /\ y.of = 0
    BY DEF Digest, Plain
  <2> HIDE DEF y
  <2> QED BY <2>1, <2>2 DEF Filler
<1>16. ASSUME NEW z \in SummarySizes, x = <<Digest("user", z, Digested(m))>>
       PROVE  Filler(x)
  <2> DEFINE y == Digest("user", z, Digested(m))
  <2>1. y.role = "user" /\ y.id = 0
    BY DEF Digest, Plain
  <2>2. x = <<y>>
    BY <1>16
  <2> HIDE DEF y
  <2> QED BY <2>1, <2>2 DEF Filler
<1> QED BY <1>4, <1>12, <1>13, <1>14, <1>15, <1>16 DEF Inserted

\* The messages of the run that are left are in the order they were made in.
InOrder(m) ==
  \A i, j \in 1..Len(m) :
    i < j /\ m[i].id # 0 /\ m[j].id # 0 => m[i].id < m[j].id

\* Every call is a single one, and every result has its call before it.
Turns(m) ==
  /\ \A i \in 1..Len(m) : m[i].role = "assistant" => m[i].calls = 1
  /\ \A i \in 1..Len(m) :
       m[i].role = "tool" => /\ i > 1 /\ m[i - 1].role = "assistant"
                             /\ m[i - 1].id = m[i].of

\* Every call but one at the end has its result behind it.
Answered(m) ==
  \A i \in 1..(Len(m) - 1) :
    m[i].role = "assistant" => m[i + 1].role = "tool" /\ m[i + 1].of = m[i].id

\* A result and the call it answers, with only results in between.
Belongs(m, i) ==
  \E j \in 1..(i - 1) :
    /\ m[j].role = "assistant" /\ m[j].id = m[i].of /\ i - j <= m[j].calls
    /\ \A k \in (j + 1)..i : m[k].role = "tool"

\* A call with all its results right behind it.
Complete(m, j) ==
  \A i \in (j + 1)..(j + m[j].calls) :
    i <= Len(m) /\ m[i].role = "tool" /\ m[i].of = m[j].id

\* Every result belongs to its call; every call is complete, or the last one
\* may still be open.
WholeTurns(m, open) ==
  /\ \A i \in 1..Len(m) : m[i].role = "tool" => Belongs(m, i)
  /\ \A j \in 1..Len(m) :
       m[j].role = "assistant" => Complete(m, j) \/ (open /\ j = Len(m))

\* Masking touches none of these.
LEMMA MaskedChat ==
  ASSUME NEW m \in Seq(Message), NEW w, Masks(w, m)
  PROVE  /\ InOrder(m) => InOrder(w)
         /\ \A i \in 1..Len(m) :
              /\ w[i].id = m[i].id /\ w[i].of = m[i].of /\ w[i].calls = m[i].calls
         /\ Turns(m) => Turns(w)
         /\ Answered(m) => Answered(w)
         /\ \A i \in 1..Len(m) : w[i].role = m[i].role
<1>1. Len(w) = Len(m) /\ Len(m) \in Nat
  BY DEF Masks
<1>2. ASSUME NEW i \in 1..Len(m)
      PROVE  /\ w[i].id = m[i].id /\ w[i].role = m[i].role
             /\ w[i].of = m[i].of /\ w[i].calls = m[i].calls
  <2>1. m[i] \in Message /\ (w[i] = m[i] \/ w[i] = Masked(m[i]))
    BY DEF Masks
  <2>2. \A y \in Message : /\ Masked(y).id = y.id /\ Masked(y).role = y.role
                           /\ Masked(y).of = y.of /\ Masked(y).calls = y.calls
    BY DEF Masked, Message
  <2> QED BY <2>1, <2>2
<1>3. InOrder(m) => InOrder(w)
  BY <1>1, <1>2 DEF InOrder
<1>4. Turns(m) => Turns(w)
  <2> SUFFICES ASSUME Turns(m) PROVE Turns(w)
    OBVIOUS
  <2>1. ASSUME NEW i \in 1..Len(m), w[i].role = "tool"
        PROVE  i > 1 /\ w[i - 1].role = "assistant" /\ w[i - 1].id = w[i].of
    <3>1. i > 1 /\ m[i - 1].role = "assistant" /\ m[i - 1].id = m[i].of
      BY <1>2, <2>1 DEF Turns
    <3>2. i - 1 \in 1..Len(m)
      BY <1>1, <3>1
    <3> QED BY <1>2, <3>1, <3>2
  <2>2. \A i \in 1..Len(m) : w[i].role = "assistant" => w[i].calls = 1
    BY <1>2 DEF Turns
  <2> QED BY <1>1, <2>1, <2>2 DEF Turns
<1>5. Answered(m) => Answered(w)
  <2> SUFFICES ASSUME Answered(m), NEW i \in 1..(Len(m) - 1),
                      w[i].role = "assistant"
               PROVE  w[i + 1].role = "tool" /\ w[i + 1].of = w[i].id
    BY <1>1 DEF Answered
  <2>1. i \in 1..Len(m) /\ i + 1 \in 1..Len(m)
    BY <1>1
  <2> QED BY <1>2, <2>1 DEF Answered
<1> QED BY <1>2, <1>3, <1>4, <1>5

\* The places of a folded history, whose filler ends at k.
Places(w, m, c, x, k) ==
  /\ k = KeepFirst + Len(x) /\ Len(w) = k + (Len(m) - c)
  /\ \A i \in 1..KeepFirst : w[i] = m[i] /\ i \in 1..Len(m)
  /\ \A i \in (KeepFirst + 1)..k : w[i] = x[i - KeepFirst]
  /\ \A i \in (k + 1)..Len(w) :
       (i - k) + c \in (c + 1)..Len(m) /\ w[i] = m[(i - k) + c]

LEMMA FoldPlaces ==
  ASSUME NEW m \in Seq(Message), NEW w, NEW c, c \in KeepFirst..Len(m),
         NEW x \in Seq(Message), Folds(w, m, c, x)
  PROVE  Places(w, m, c, x, KeepFirst + Len(x))
<1>1. KeepFirst \in Nat /\ Len(x) \in Nat /\ Len(m) \in Nat
  BY AgentAssumption
<1>2. Len(w) = KeepFirst + Len(x) + (Len(m) - c) /\ Len(w) \in Nat
  BY <1>1 DEF Folds
<1>3. \A i \in 1..KeepFirst : w[i] = m[i] /\ i \in 1..Len(m)
  BY <1>1 DEF Folds, StartsLike
<1>4. ASSUME NEW i \in (KeepFirst + 1)..(KeepFirst + Len(x))
      PROVE  w[i] = x[i - KeepFirst]
  <2> DEFINE j == i - KeepFirst
  <2>1. j \in 1..Len(x) /\ i = KeepFirst + j
    BY <1>1
  <2> HIDE DEF j
  <2>2. w[i] = x[j]
    BY <2>1 DEF Folds, Holds
  <2> QED BY <2>2 DEF j
<1>5. ASSUME NEW i \in (KeepFirst + Len(x) + 1)..Len(w)
      PROVE  /\ (i - (KeepFirst + Len(x))) + c \in (c + 1)..Len(m)
             /\ w[i] = m[(i - (KeepFirst + Len(x))) + c]
  <2> DEFINE j == i - (KeepFirst + Len(x))
  <2>1. j \in 1..(Len(m) - c) /\ i = KeepFirst + Len(x) + j
    BY <1>1, <1>2
  <2> HIDE DEF j
  <2>2. w[i] = m[c + j]
    BY <2>1 DEF Folds
  <2>3. c + j = j + c /\ j + c \in (c + 1)..Len(m)
    BY <1>1, <2>1
  <2> QED BY <2>2, <2>3 DEF j
<1> QED BY <1>2, <1>3, <1>4, <1>5 DEF Places

\* Folding keeps the order.
LEMMA FoldedOrder ==
  ASSUME NEW m \in Seq(Message), NEW w, NEW c, c \in KeepFirst..Len(m),
         NEW x \in Seq(Message), Filler(x), Folds(w, m, c, x), InOrder(m)
  PROVE  InOrder(w)
<1> DEFINE k == KeepFirst + Len(x)
           pos(i) == IF i <= KeepFirst THEN i ELSE (i - k) + c
<1>0. Places(w, m, c, x, k)
  BY FoldPlaces
<1> HIDE DEF k
<1>1. /\ KeepFirst \in Nat \ {0} /\ Len(x) \in Nat /\ Len(m) \in Nat
      /\ Len(w) \in Nat /\ k = KeepFirst + Len(x) /\ Len(w) = k + (Len(m) - c)
      /\ \A i \in 1..KeepFirst : w[i] = m[i] /\ i \in 1..Len(m)
      /\ \A i \in (KeepFirst + 1)..k : w[i] = x[i - KeepFirst]
      /\ \A i \in (k + 1)..Len(w) :
           (i - k) + c \in (c + 1)..Len(m) /\ w[i] = m[(i - k) + c]
  BY <1>0, AgentAssumption DEF Places
<1>2. k \in Nat /\ k >= KeepFirst
  BY <1>1
<1>3. \A i \in (KeepFirst + 1)..k : w[i].id = 0
  <2> SUFFICES ASSUME NEW i \in (KeepFirst + 1)..k PROVE w[i].id = 0
    OBVIOUS
  <2>1. w[i] = x[i - KeepFirst] /\ i - KeepFirst \in 1..Len(x)
    BY <1>1
  <2>2. \A j \in 1..Len(x) : x[j].id = 0
    BY SummaryCallType DEF Filler
  <2> QED BY <2>1, <2>2
<1> HIDE DEF k
<1>4. ASSUME NEW i \in 1..Len(w), w[i].id # 0
      PROVE  /\ pos(i) \in 1..Len(m) /\ w[i].id = m[pos(i)].id
             /\ i <= KeepFirst \/ i > k
  <2>1. CASE i <= KeepFirst
    BY <1>1, <2>1
  <2>2. CASE i > k
    <3>1. i \in (k + 1)..Len(w) /\ pos(i) = (i - k) + c
      BY <1>1, <1>2, <2>2
    <3>2. (i - k) + c \in 1..Len(m) /\ w[i] = m[(i - k) + c]
      <4>1. (i - k) + c \in (c + 1)..Len(m) /\ w[i] = m[(i - k) + c]
        BY <1>1, <3>1
      <4> QED BY <1>1, <4>1
    <3> HIDE DEF pos
    <3> QED BY <2>2, <3>1, <3>2
  <2>3. CASE i > KeepFirst /\ i <= k
    BY <1>1, <1>2, <1>3, <1>4, <2>3
  <2> QED BY <1>1, <1>2, <2>1, <2>2, <2>3
<1>5. ASSUME NEW i \in 1..Len(w), NEW j \in 1..Len(w), i < j,
             i <= KeepFirst \/ i > k, j <= KeepFirst \/ j > k
      PROVE  pos(i) < pos(j)
  BY <1>1, <1>2, <1>5
<1> HIDE DEF pos
<1> SUFFICES ASSUME NEW i \in 1..Len(w), NEW j \in 1..Len(w), i < j,
                    w[i].id # 0, w[j].id # 0
             PROVE  w[i].id < w[j].id
  BY DEF InOrder
<1>6. pos(i) \in 1..Len(m) /\ pos(j) \in 1..Len(m) /\ pos(i) < pos(j)
      /\ w[i].id = m[pos(i)].id /\ w[j].id = m[pos(j)].id
  BY <1>4, <1>5
<1> QED BY <1>6 DEF InOrder

\* Folding up to a result, or the whole history, keeps calls and results
\* together.
LEMMA FoldedTurns ==
  ASSUME NEW m \in Seq(Message), NEW w, NEW c, c \in KeepFirst..Len(m),
         NEW x \in Seq(Message), Filler(x), Folds(w, m, c, x),
         c = Len(m) \/ m[c].role = "tool", c > KeepFirst, Turns(m)
  PROVE  Turns(w)
<1> DEFINE k == KeepFirst + Len(x)
<1>0. Places(w, m, c, x, k)
  BY FoldPlaces
<1> HIDE DEF k
<1>1. /\ KeepFirst \in Nat \ {0} /\ Len(x) \in Nat /\ Len(m) \in Nat
      /\ Len(w) \in Nat /\ k = KeepFirst + Len(x) /\ Len(w) = k + (Len(m) - c)
      /\ \A i \in 1..KeepFirst : w[i] = m[i] /\ i \in 1..Len(m)
      /\ \A i \in (KeepFirst + 1)..k : w[i] = x[i - KeepFirst]
      /\ \A i \in (k + 1)..Len(w) :
           (i - k) + c \in (c + 1)..Len(m) /\ w[i] = m[(i - k) + c]
  BY <1>0, AgentAssumption DEF Places
<1>2. k \in Nat /\ k >= KeepFirst /\ k = KeepFirst + Len(x) /\ c \in Nat
  BY <1>1
<1>3. SummaryCall.role = "assistant" /\ SummaryCall.calls = 1 /\ SummaryCall.id = 0
  BY SummaryCallType
<1> HIDE DEF k
<1>4. ASSUME NEW i \in 1..Len(w)
      PROVE  /\ w[i].role = "assistant" => w[i].calls = 1
             /\ w[i].role = "tool" => /\ i > 1 /\ w[i - 1].role = "assistant"
                                      /\ w[i - 1].id = w[i].of
  <2>1. CASE i <= KeepFirst
    <3>1. w[i] = m[i] /\ i \in 1..Len(m)
      BY <1>1, <2>1
    <3>2. i > 1 => w[i - 1] = m[i - 1]
      <4>1. i > 1 => i - 1 \in 1..KeepFirst
        BY <1>1, <2>1
      <4> QED BY <1>1, <4>1
    <3> QED BY <3>1, <3>2 DEF Turns
  <2>2. CASE i > KeepFirst /\ i <= k
    <3>1. w[i] = x[i - KeepFirst] /\ i - KeepFirst \in 1..Len(x)
      BY <1>1, <1>2, <2>2
    <3>2. CASE Len(x) = 1
      <4>1. i - KeepFirst = 1 /\ x[1].role = "user"
        BY <3>1, <3>2 DEF Filler
      <4> QED BY <3>1, <4>1
    <3>3. CASE Len(x) = 2 /\ i - KeepFirst = 1
      <4>1. w[i] = SummaryCall
        BY <3>1, <3>3 DEF Filler
      <4> QED BY <1>3, <4>1
    <3>4. CASE Len(x) = 2 /\ i - KeepFirst = 2
      <4>1. /\ w[i] = x[2] /\ i - 1 = KeepFirst + 1 /\ x[1] = SummaryCall
            /\ x[2].role = "tool" /\ x[2].of = 0
        BY <1>1, <3>1, <3>4 DEF Filler
      <4>2. i - 1 \in (KeepFirst + 1)..k /\ (i - 1) - KeepFirst = 1
        <5>1. i \in Nat /\ k \in Nat /\ KeepFirst \in Nat
          BY <1>1, <1>2
        <5> QED BY <2>2, <4>1, <5>1
      <4>3. w[i - 1] = SummaryCall
        BY <1>1, <4>1, <4>2
      <4>4. i > 1
        BY <1>1, <3>4
      <4> QED BY <1>3, <4>1, <4>3, <4>4
    <3>5. Len(x) # 0 /\ Len(x) \in {0, 1, 2}
      BY <3>1 DEF Filler
    <3>6. Len(x) = 2 => i - KeepFirst = 1 \/ i - KeepFirst = 2
      BY <3>1
    <3> QED BY <3>2, <3>3, <3>4, <3>5, <3>6
  <2>3. CASE i > k
    <3> DEFINE j == (i - k) + c
    <3>1. j \in (c + 1)..Len(m) /\ w[i] = m[j] /\ i \in (k + 1)..Len(w)
      BY <1>1, <1>2, <2>3
    <3>2. j \in 1..Len(m) /\ j - 1 >= c /\ j - 1 \in 1..Len(m) /\ i > 1
      BY <1>1, <1>2, <2>3, <3>1
    <3>3. j - 1 > c => w[i - 1] = m[j - 1]
      <4> SUFFICES ASSUME j - 1 > c PROVE w[i - 1] = m[j - 1]
        OBVIOUS
      <4>1. i - 1 \in (k + 1)..Len(w) /\ ((i - 1) - k) + c = j - 1
        BY <1>1, <1>2, <2>3
      <4> HIDE DEF j
      <4> QED BY <1>1, <4>1
    <3> HIDE DEF j
    <3>4. m[j].role = "assistant" => m[j].calls = 1
      BY <3>2 DEF Turns
    <3>5. m[j].role = "tool" => m[j - 1].role = "assistant" /\ m[j - 1].id = m[j].of
      BY <3>2 DEF Turns
    <3>6. CASE j - 1 > c
      BY <3>1, <3>2, <3>3, <3>4, <3>5, <3>6
    <3>7. CASE j - 1 = c
      <4>1. c # Len(m)
        BY <1>1, <1>2, <3>1, <3>7
      <4>2. m[j].role # "tool"
        BY <3>5, <3>7, <4>1
      <4> QED BY <3>1, <3>4, <4>2
    <3> QED BY <1>1, <1>2, <3>2, <3>6, <3>7
  <2> QED BY <1>1, <1>2, <2>1, <2>2, <2>3
<1> QED BY <1>4 DEF Turns

\* When the head does not end in a call, folding keeps the calls answered.
LEMMA FoldedAnswers ==
  ASSUME NEW m \in Seq(Message), NEW w, NEW c, c \in KeepFirst..Len(m),
         NEW x \in Seq(Message), Filler(x), Folds(w, m, c, x),
         m[KeepFirst].role # "assistant", Answered(m)
  PROVE  /\ Answered(w)
         /\ w[Len(w)].role = "assistant" => m[Len(m)].role = "assistant"
<1> DEFINE k == KeepFirst + Len(x)
<1>0. Places(w, m, c, x, k)
  BY FoldPlaces
<1> HIDE DEF k
<1>1. /\ KeepFirst \in Nat \ {0} /\ Len(x) \in Nat /\ Len(m) \in Nat
      /\ Len(w) \in Nat /\ k = KeepFirst + Len(x) /\ Len(w) = k + (Len(m) - c)
      /\ \A i \in 1..KeepFirst : w[i] = m[i] /\ i \in 1..Len(m)
      /\ \A i \in (KeepFirst + 1)..k : w[i] = x[i - KeepFirst]
      /\ \A i \in (k + 1)..Len(w) :
           (i - k) + c \in (c + 1)..Len(m) /\ w[i] = m[(i - k) + c]
  BY <1>0, AgentAssumption DEF Places
<1>2. k \in Nat /\ k >= KeepFirst /\ k = KeepFirst + Len(x) /\ c \in Nat
  BY <1>1
<1>3. SummaryCall.id = 0
  BY SummaryCallType
<1>4. k > KeepFirst => w[k].role # "assistant"
  <2> SUFFICES ASSUME k > KeepFirst PROVE w[k].role # "assistant"
    OBVIOUS
  <2>1. w[k] = x[Len(x)]
    <3>1. k \in (KeepFirst + 1)..k /\ k - KeepFirst = Len(x)
      BY <1>1, <1>2
    <3> QED BY <1>1, <3>1
  <2>2. Len(x) # 0
    BY <1>1, <1>2
  <2> QED BY <2>1, <2>2 DEF Filler
<1> HIDE DEF k
<1>5. w[KeepFirst].role # "assistant"
  BY <1>1
<1>6. ASSUME NEW i \in 1..(Len(w) - 1), w[i].role = "assistant"
      PROVE  w[i + 1].role = "tool" /\ w[i + 1].of = w[i].id
  <2>1. CASE i < KeepFirst
    <3>1. i \in 1..KeepFirst /\ i + 1 \in 1..KeepFirst
      BY <1>1, <2>1
    <3>2. w[i] = m[i] /\ w[i + 1] = m[i + 1] /\ i \in 1..(Len(m) - 1)
      BY <1>1, <3>1
    <3> QED BY <1>6, <3>2 DEF Answered
  <2>2. CASE i > KeepFirst /\ i < k
    <3>0. Len(x) \in {0, 1, 2}
      BY DEF Filler
    <3>1. Len(x) = 2 /\ i - KeepFirst = 1 /\ (i + 1) - KeepFirst = 2
          /\ i \in (KeepFirst + 1)..k /\ i + 1 \in (KeepFirst + 1)..k
      <4>1. KeepFirst \in Nat /\ k = KeepFirst + Len(x) /\ i \in Nat
        BY <1>1, <1>2
      <4>2. i > KeepFirst /\ i < KeepFirst + Len(x)
        BY <2>2, <4>1
      <4>3. \A n, a, b \in Nat : n \in {0, 1, 2} /\ b > a /\ b < a + n => n = 2 /\ b = a + 1
        OBVIOUS
      <4>4. Len(x) = 2 /\ i = KeepFirst + 1
        BY <3>0, <4>1, <4>2, <4>3
      <4> QED BY <4>1, <4>4
    <3>2. w[i] = x[1] /\ w[i + 1] = x[2]
      BY <1>1, <3>1
    <3>3. x[1] = SummaryCall /\ x[2].role = "tool" /\ x[2].of = 0
      BY <3>1 DEF Filler
    <3> QED BY <1>3, <3>2, <3>3
  <2>3. CASE i > k
    <3> DEFINE j == (i - k) + c
    <3>1. j \in (c + 1)..Len(m) /\ w[i] = m[j]
      BY <1>1, <1>2, <2>3
    <3>2. i + 1 \in (k + 1)..Len(w) /\ ((i + 1) - k) + c = j + 1
      BY <1>1, <1>2, <2>3
    <3> HIDE DEF j
    <3>3. w[i + 1] = m[j + 1] /\ j + 1 \in (c + 1)..Len(m)
      BY <1>1, <3>2
    <3>4. j \in 1..(Len(m) - 1)
      BY <1>1, <1>2, <3>1, <3>3
    <3> QED BY <1>6, <3>1, <3>3, <3>4 DEF Answered
  <2>4. i # KeepFirst /\ (k > KeepFirst => i # k)
    BY <1>4, <1>5, <1>6
  <2> QED BY <1>1, <1>2, <2>1, <2>2, <2>3, <2>4
<1>7. w[Len(w)].role = "assistant" => m[Len(m)].role = "assistant"
  <2>1. CASE Len(m) > c
    <3>1. Len(w) \in (k + 1)..Len(w) /\ (Len(w) - k) + c = Len(m)
      BY <1>1, <1>2, <2>1
    <3> QED BY <1>1, <3>1
  <2>2. CASE Len(m) = c
    <3>1. Len(w) = k
      BY <1>1, <1>2, <2>2
    <3>2. k = KeepFirst \/ k > KeepFirst
      BY <1>1, <1>2
    <3> QED BY <1>4, <1>5, <3>1, <3>2
  <2> QED BY <1>1, <2>1, <2>2
<1> QED BY <1>6, <1>7 DEF Answered

\* Messages of the run that are appended come after those that are there.
LEMMA OrderGrows ==
  ASSUME NEW m, NEW l, NEW x, m \in Seq(Genuine(strategy, l)), Logged(l),
         Appendable(l, x), InOrder(m)
  PROVE  InOrder(m \o x)
<1> DEFINE w == m \o x
<1>1. m \in Seq(Message) /\ x \in Seq(Message) /\ Len(l) \in Nat
  <2>1. Genuine(strategy, l) \in SUBSET Message
    BY GenuineType
  <2> QED BY <2>1 DEF Logged, Appendable
<1>2. /\ Len(w) = Len(m) + Len(x) /\ Len(m) \in Nat /\ Len(x) \in Nat
      /\ \A i \in 1..Len(m) : w[i] = m[i]
      /\ \A i \in 1..Len(x) : w[Len(m) + i] = x[i]
  BY <1>1, TwoParts
<1> HIDE DEF w
<1>3. ASSUME NEW i \in 1..Len(m)
      PROVE  m[i].id = 0 \/ m[i].id \in 1..Len(l)
  <2>1. m[i] \in Genuine(strategy, l)
    BY ElementOfSeq
  <2>2. \A y \in Message : y.form \in {"verbatim", "masked", "summary"}
    BY DEF Message
  <2> QED BY <2>1, <2>2 DEF Genuine
<1>4. ASSUME NEW i \in 1..Len(w), i > Len(m)
      PROVE  /\ i - Len(m) \in 1..Len(x)
             /\ w[i].id = Len(l) + (i - Len(m))
  <2> DEFINE j == i - Len(m)
  <2>1. j \in 1..Len(x) /\ i = Len(m) + j
    BY <1>2, <1>4
  <2> HIDE DEF j
  <2>2. w[i] = x[j] /\ x[j].id = Len(l) + j
    BY <1>2, <2>1 DEF Appendable
  <2> QED BY <2>1, <2>2 DEF j
<1> SUFFICES ASSUME NEW i \in 1..Len(w), NEW j \in 1..Len(w), i < j,
                    w[i].id # 0, w[j].id # 0
             PROVE  w[i].id < w[j].id
  BY DEF InOrder, w
<1>5. CASE j <= Len(m)
  <2>1. i \in 1..Len(m) /\ j \in 1..Len(m)
    BY <1>2, <1>5
  <2> QED BY <1>2, <2>1 DEF InOrder
<1>6. CASE i <= Len(m) /\ j > Len(m)
  <2>1. i \in 1..Len(m)
    BY <1>2, <1>6
  <2>2. w[i].id \in 1..Len(l)
    BY <1>2, <1>3, <2>1
  <2>3. w[j].id = Len(l) + (j - Len(m)) /\ j - Len(m) \in 1..Len(x)
    BY <1>4, <1>6
  <2> QED BY <1>1, <1>2, <2>2, <2>3
<1>7. CASE i > Len(m)
  <2>1. j > Len(m)
    BY <1>2, <1>7
  <2>2. /\ w[i].id = Len(l) + (i - Len(m)) /\ w[j].id = Len(l) + (j - Len(m))
    BY <1>4, <1>7, <2>1
  <2> QED BY <1>1, <1>2, <2>2
<1> QED BY <1>2, <1>5, <1>6, <1>7

\* A result appended behind its call keeps calls and results together, and so
\* does any message that is no result.
LEMMA TurnsGrow ==
  ASSUME NEW m \in Seq(Message), NEW x \in Seq(Message), Len(x) = 1, Turns(m),
         x[1].role = "assistant" => x[1].calls = 1,
         x[1].role = "tool" =>
           /\ Len(m) >= 1 /\ m[Len(m)].role = "assistant"
           /\ m[Len(m)].id = x[1].of
  PROVE  Turns(m \o x)
<1> DEFINE w == m \o x
<1>1. /\ Len(w) = Len(m) + 1 /\ Len(m) \in Nat
      /\ \A i \in 1..Len(m) : w[i] = m[i]
      /\ w[Len(m) + 1] = x[1]
  <2>1. /\ Len(w) = Len(m) + Len(x) /\ Len(m) \in Nat
        /\ \A i \in 1..Len(m) : w[i] = m[i]
        /\ \A i \in 1..Len(x) : w[Len(m) + i] = x[i]
    BY TwoParts
  <2> HIDE DEF w
  <2> QED BY <2>1
<1> HIDE DEF w
<1>2. ASSUME NEW i \in 1..Len(w)
      PROVE  /\ w[i].role = "assistant" => w[i].calls = 1
             /\ w[i].role = "tool" => /\ i > 1 /\ w[i - 1].role = "assistant"
                                      /\ w[i - 1].id = w[i].of
  <2>1. CASE i <= Len(m)
    <3>1. i \in 1..Len(m) /\ (i > 1 => i - 1 \in 1..Len(m))
      BY <1>1, <2>1
    <3> QED BY <1>1, <3>1 DEF Turns
  <2>2. CASE i = Len(m) + 1
    <3>1. i - 1 = Len(m) /\ w[i] = x[1]
      BY <1>1, <2>2
    <3>2. Len(m) >= 1 => i > 1 /\ w[i - 1] = m[Len(m)]
      BY <1>1, <2>2, <3>1
    <3> QED BY <3>1, <3>2
  <2> QED BY <1>1, <2>1, <2>2
<1> QED BY <1>2 DEF Turns, w

\* Calls stay answered when what follows a call is its result.
LEMMA AnswersGrow ==
  ASSUME NEW m \in Seq(Message), NEW x \in Seq(Message), Len(x) = 1, Answered(m),
         Len(m) >= 1 /\ m[Len(m)].role = "assistant" =>
           x[1].role = "tool" /\ x[1].of = m[Len(m)].id
  PROVE  Answered(m \o x)
<1>0. /\ Len(m \o x) = Len(m) + Len(x) /\ Len(m) \in Nat
      /\ \A i \in 1..Len(m) : (m \o x)[i] = m[i]
      /\ \A i \in 1..Len(x) : (m \o x)[Len(m) + i] = x[i]
  <2>1. m \in Seq(Message) /\ x \in Seq(Message)
    OBVIOUS
  <2> QED BY ONLY <2>1, TwoParts
<1> DEFINE w == m \o x
<1>1. /\ Len(w) = Len(m) + 1 /\ Len(m) \in Nat
      /\ \A i \in 1..Len(m) : w[i] = m[i]
      /\ w[Len(m) + 1] = x[1]
  BY <1>0
<1> HIDE DEF w
<1>2. ASSUME NEW i \in 1..(Len(w) - 1), w[i].role = "assistant"
      PROVE  w[i + 1].role = "tool" /\ w[i + 1].of = w[i].id
  <2>1. CASE i < Len(m)
    <3>1. i \in 1..(Len(m) - 1) /\ i \in 1..Len(m) /\ i + 1 \in 1..Len(m)
      BY <1>1, <2>1
    <3> QED BY <1>1, <1>2, <3>1 DEF Answered
  <2>2. CASE i = Len(m)
    BY <1>1, <1>2, <2>2
  <2> QED BY <1>1, <2>1, <2>2
<1> QED BY <1>2 DEF Answered, w

\* One turn of the loop: an answer, a format error, or the results of the
\* calls of the last answer.
TurnOf(x) ==
  /\ x \in Seq(Message) /\ messages' = messages \o x /\ log' = log \o x
  /\ strategy' = strategy
  /\ \/ /\ pc = "call" /\ pc' = "act" /\ Len(x) = 1
        /\ x[1].role = "assistant" /\ x[1].id = Len(log) + 1
        /\ x[1].calls \in Nat \ {0}
     \/ pc = "call" /\ pc' = "query" /\ Len(x) = 1 /\ x[1].role = "user"
     \/ /\ pc = "act" /\ pc' = "query" /\ Len(x) = messages[Len(messages)].calls
        /\ \A i \in 1..Len(x) : x[i].role = "tool" /\ x[i].of = Len(log)

LEMMA LoopTurns ==
  ASSUME IInv, ModelAnswers \/ ModelFormatError \/ ExecuteActions
  PROVE  \E x : TurnOf(x)
<1>0. /\ log \in Seq(Message) /\ messages \in Seq(Message) /\ Len(log) \in Nat
      /\ Len(messages) \in 1..Len(messages)
  <2>1. Genuine(strategy, log) \in SUBSET Message
    BY GenuineType
  <2>2. log \in Seq(Message) /\ messages \in Seq(Message) /\ Len(log) >= 2
    BY <2>1 DEF IInv, Logged
  <2>3. Len(messages) >= 1
    BY <2>2, AgentAssumption DEF IInv, HeadInv, StartsLike
  <2> QED BY <2>2, <2>3
<1>1. ASSUME NEW m \in Message,
             messages' = Append(messages, m), log' = Append(log, m)
      PROVE  /\ <<m>> \in Seq(Message) /\ Len(<<m>>) = 1 /\ <<m>>[1] = m
             /\ messages' = messages \o <<m>> /\ log' = log \o <<m>>
  <2>1. Append(messages, m) = messages \o <<m>> /\ Append(log, m) = log \o <<m>>
    BY <1>0, AppendIsConcat
  <2> QED BY <1>1, <2>1
<1>2. CASE ModelAnswers
  <2> DEFINE m(k) == [Plain("assistant", Len(log) + 1, 1) EXCEPT !.calls = k]
  <2>1. PICK k \in 1..MaxParallel :
          messages' = Append(messages, m(k)) /\ log' = Append(log, m(k))
    BY <1>2 DEF ModelAnswers
  <2>2. /\ m(k) \in Message /\ m(k).id = Len(log) + 1
        /\ m(k).role = "assistant" /\ m(k).calls \in Nat \ {0}
    <3>1. Len(log) + 1 \in Nat /\ k \in Nat \ {0}
      BY <1>0, <2>1, AgentAssumption
    <3> QED BY <3>1 DEF Plain, Message, Roles
  <2> HIDE DEF m
  <2>3. pc = "call" /\ pc' = "act" /\ strategy' = strategy
    BY <1>2 DEF ModelAnswers
  <2>4. TurnOf(<<m(k)>>)
    BY <1>1, <2>1, <2>2, <2>3 DEF TurnOf
  <2> QED BY <2>4
<1>3. CASE ModelFormatError
  <2> DEFINE m == Plain("user", Len(log) + 1, 1)
  <2>1. messages' = Append(messages, m) /\ log' = Append(log, m)
    BY <1>3 DEF ModelFormatError
  <2>2. m \in Message /\ m.role = "user"
    <3>1. Len(log) + 1 \in Nat
      BY <1>0
    <3> QED BY <3>1 DEF Plain, Message, Roles
  <2> HIDE DEF m
  <2>3. pc = "call" /\ pc' = "query" /\ strategy' = strategy
    BY <1>3 DEF ModelFormatError
  <2>4. TurnOf(<<m>>)
    BY <1>1, <2>1, <2>2, <2>3 DEF TurnOf
  <2> QED BY <2>4
<1>4. CASE ExecuteActions
  <2> DEFINE n == messages[Len(messages)].calls
             result(o, k) == [Plain("tool", Len(log) + k, o[k].size) EXCEPT
               !.lines = o[k].lines, !.bug = o[k].bug, !.of = Len(log)]
             obs(o) == [k \in 1..n |-> result(o, k)]
  <2>1. pc = "act" /\ pc' = "query" /\ strategy' = strategy
    BY <1>4 DEF ExecuteActions
  <2>2. PICK o \in [1..n -> Outputs] :
          messages' = messages \o obs(o) /\ log' = log \o obs(o)
    BY <1>4 DEF ExecuteActions, Last
  <2>3. n \in Nat
    <3>1. messages[Len(messages)] \in Message
      BY <1>0, ElementOfSeq
    <3> QED BY <3>1 DEF Message
  <2> HIDE DEF n
  <2>4. ASSUME NEW k \in 1..n
        PROVE  /\ result(o, k) \in Message /\ result(o, k).role = "tool"
               /\ result(o, k).of = Len(log)
    <3>1. o[k] \in [size : Nat, lines : Nat, bug : BOOLEAN]
      BY AgentAssumption
    <3>2. Len(log) + k \in Nat
      BY <1>0, <2>3
    <3> QED BY <1>0, <3>1, <3>2 DEF Plain, Message, Roles
  <2> HIDE DEF result
  <2>5. obs(o) \in [1..n -> Message] /\ \A k \in 1..n : obs(o)[k] = result(o, k)
    BY <2>4
  <2> HIDE DEF obs
  <2>6. obs(o) \in Seq(Message) /\ Len(obs(o)) = n
    BY <2>3, <2>5
  <2>7. TurnOf(obs(o))
    <3>1. \A i \in 1..Len(obs(o)) : obs(o)[i].role = "tool" /\ obs(o)[i].of = Len(log)
      BY <2>4, <2>5, <2>6
    <3> QED BY <2>1, <2>2, <2>6, <3>1 DEF TurnOf, n
  <2> QED BY <2>7
<1> QED BY <1>2, <1>3, <1>4

\* No answer of the run makes more than one call.
SingleCalls == \A i \in 1..Len(log) : log[i].calls <= 1

\* One turn of the loop in such a run.
Says(x) ==
  /\ x \in Seq(Message) /\ Len(x) = 1
  /\ messages' = messages \o x /\ log' = log \o x
  /\ \/ pc = "call" /\ pc' = "act" /\ x[1].role = "assistant"
          /\ x[1].calls = 1 /\ x[1].id = Len(log) + 1
     \/ pc = "call" /\ pc' = "query" /\ x[1].role = "user"
     \/ pc = "act" /\ pc' = "query" /\ x[1].role = "tool" /\ x[1].of = Len(log)

-----------------------------------------------------------------------------
(* The chat *)

\* The head does not end in a call.
Unsplit == Len(log) >= KeepFirst => log[KeepFirst].role # "assistant"

EndsInCall == messages[Len(messages)].role = "assistant"

\* The order and the pairing of the messages in every reachable state.
Ordered == strategy # "subtask" => InOrder(messages)

Paired ==
  strategy # "subtask" /\ SingleCalls =>
    /\ Turns(messages)
    /\ pc = "act" => EndsInCall /\ messages[Len(messages)].id = Len(log)

Settled ==
  strategy # "subtask" /\ SingleCalls /\ Unsplit =>
    Answered(messages) /\ (EndsInCall => pc \in {"act", "done"})

\* Masking drops no message: every result belongs to its call, and every call
\* but the one being executed is complete, however many an answer makes.
Whole ==
  strategy \in {"none", "mask"} =>
    /\ WholeTurns(messages, pc \in {"act", "done"})
    /\ pc = "act" => EndsInCall /\ messages[Len(messages)].id = Len(log)

LEMMA HistoriesTyped ==
  ASSUME IInv
  PROVE  /\ log \in Seq(Message) /\ messages \in Seq(Message)
         /\ Len(log) \in Nat /\ Len(messages) \in Nat /\ Len(messages) >= 1
         /\ Len(log) >= 2
<1>1. Genuine(strategy, log) \in SUBSET Message
  BY GenuineType
<1>2. log \in Seq(Message) /\ messages \in Seq(Message) /\ Len(log) >= 2
  BY <1>1 DEF IInv, Logged
<1>3. Len(messages) >= 1
  BY <1>2, AgentAssumption DEF IInv, HeadInv, StartsLike
<1> QED BY <1>2, <1>3

LEMMA InitChat == Init => Ordered /\ Paired /\ Settled /\ Whole
<1> SUFFICES ASSUME Init PROVE Ordered /\ Paired /\ Settled /\ Whole
  OBVIOUS
<1>1. /\ Len(messages) = 2 /\ messages[1] = Plain("system", 1, 1)
      /\ messages[2] = Plain("user", 2, 1) /\ pc = "query"
  BY DEF Init
<1>2. /\ messages[1].role = "system" /\ messages[2].role = "user"
      /\ messages[1].id = 1 /\ messages[2].id = 2
  BY <1>1 DEF Plain
<1>3. \A i \in 1..Len(messages) : i = 1 \/ i = 2
  BY <1>1
<1>4. Ordered
  BY <1>2, <1>3 DEF Ordered, InOrder
<1>5. Paired
  BY <1>1, <1>2, <1>3 DEF Paired, Turns
<1>6. Settled
  <2>1. \A i \in 1..(Len(messages) - 1) : i = 1
    BY <1>1
  <2> QED BY <1>1, <1>2, <2>1 DEF Settled, Answered, EndsInCall
<1>7. Whole
  <2>1. \A i \in 1..Len(messages) : messages[i].role \notin {"tool", "assistant"}
    BY <1>2, <1>3
  <2> QED BY <1>1, <2>1 DEF Whole, WholeTurns
<1> QED BY <1>4, <1>5, <1>6, <1>7

\* What a step does to the chat, when the model makes one call at a time.
Stays ==
  /\ UNCHANGED <<messages, log>>
  /\ pc' = "act" => pc = "act"
  /\ pc \in {"act", "done"} => pc' \in {"act", "done"}

LEMMA TurnStep ==
  ASSUME IInv, [Next]_vars
  PROVE  strategy' = strategy /\ ((\E x : TurnOf(x)) \/ Replaces \/ Stays)
<1>1. strategy' = strategy
  BY HistoryStep
<1>2. CASE SkipCompaction \/ Compact \/ SaveRecord \/ Finish \/ UNCHANGED vars
  BY <1>1, <1>2 DEF SkipCompaction, Compact, SaveRecord, Finish, vars, Stays
<1>3. CASE SaveCount
  BY <1>1, <1>3 DEF SaveCount, Replaces
<1>4. CASE ModelAnswers \/ ModelFormatError \/ ExecuteActions
  BY <1>1, <1>4, LoopTurns
<1> QED BY <1>1, <1>2, <1>3, <1>4 DEF Next

\* A message appended to the log is its last one.
LEMMA LogEnd ==
  ASSUME IInv, NEW x \in Seq(Message), messages' = messages \o x, log' = log \o x
  PROVE  /\ Len(messages') = Len(messages) + Len(x) /\ Len(log') = Len(log) + Len(x)
         /\ Len(x) \in Nat
         /\ \A i \in 1..Len(messages) : messages'[i] = messages[i]
         /\ \A i \in 1..Len(x) : messages'[Len(messages) + i] = x[i]
         /\ \A i \in 1..Len(log) : log'[i] = log[i]
         /\ \A i \in 1..Len(x) : log'[Len(log) + i] = x[i]
<1>1. /\ messages \in Seq(Message) /\ log \in Seq(Message)
      /\ x \in Seq(Message) /\ Len(messages) \in Nat /\ Len(log) \in Nat
  BY HistoriesTyped
<1>2. /\ Len(messages \o x) = Len(messages) + Len(x)
      /\ \A i \in 1..Len(messages) : (messages \o x)[i] = messages[i]
      /\ \A i \in 1..Len(x) : (messages \o x)[Len(messages) + i] = x[i]
  BY <1>1, TwoParts
<1>3. /\ Len(log \o x) = Len(log) + Len(x)
      /\ \A i \in 1..Len(log) : (log \o x)[i] = log[i]
      /\ \A i \in 1..Len(x) : (log \o x)[Len(log) + i] = x[i]
  BY <1>1, TwoParts
<1> QED BY <1>1, <1>2, <1>3

\* A run without parallel calls had none before.
LEMMA SingleBefore ==
  ASSUME IInv, [Next]_vars, SingleCalls'
  PROVE  SingleCalls
<1>1. CASE Appends
  <2>1. PICK x \in Seq(Message) : messages' = messages \o x /\ log' = log \o x
    BY <1>1 DEF Appends, Appendable
  <2>2. /\ Len(log') = Len(log) + Len(x) /\ Len(x) \in Nat /\ Len(log) \in Nat
        /\ \A i \in 1..Len(log) : log'[i] = log[i]
    BY <2>1, LogEnd, HistoriesTyped
  <2>3. \A i \in 1..Len(log) : i \in 1..Len(log')
    BY <2>2
  <2> QED BY <2>2, <2>3 DEF SingleCalls
<1>2. CASE log' = log
  BY <1>2 DEF SingleCalls
<1> QED BY <1>1, <1>2, HistoryStep DEF Replaces

LEMMA ChatStep ==
  ASSUME IInv, [Next]_vars, Paired, strategy # "subtask", SingleCalls'
  PROVE  (\E x : Says(x)) \/ Replaces \/ Stays
<1>1. \/ \E x : TurnOf(x) \/ Replaces \/ Stays
  BY TurnStep
<1>2. ASSUME NEW x, TurnOf(x) PROVE Says(x)
  <2>1. x \in Seq(Message) /\ messages' = messages \o x /\ log' = log \o x
    BY <1>2 DEF TurnOf
  <2>2. CASE pc = "call" /\ pc' = "act" /\ Len(x) = 1 /\ x[1].role = "assistant"
             /\ x[1].id = Len(log) + 1 /\ x[1].calls \in Nat \ {0}
    <3>1. log'[Len(log) + 1] = x[1] /\ Len(log) + 1 \in 1..Len(log')
      <4>1. /\ Len(log') = Len(log) + 1 /\ Len(log) \in Nat
            /\ \A i \in 1..1 : log'[Len(log) + i] = x[i]
        BY <2>1, <2>2, LogEnd, HistoriesTyped
      <4> QED BY <4>1
    <3>2. x[1].calls <= 1
      BY <3>1 DEF SingleCalls
    <3>3. x[1].calls = 1
      BY <2>2, <3>2
    <3> QED BY <2>1, <2>2, <3>3 DEF Says
  <2>3. CASE pc = "call" /\ pc' = "query" /\ Len(x) = 1 /\ x[1].role = "user"
    BY <2>1, <2>3 DEF Says
  <2>4. CASE /\ pc = "act" /\ pc' = "query" /\ Len(x) = messages[Len(messages)].calls
             /\ \A i \in 1..Len(x) : x[i].role = "tool" /\ x[i].of = Len(log)
    <3>1. Len(messages) \in 1..Len(messages)
      BY HistoriesTyped
    <3>2. Len(x) = 1
      BY <2>4, <3>1, SingleBefore DEF Paired, Turns, EndsInCall
    <3>3. 1 \in 1..Len(x)
      BY <3>2
    <3> QED BY <2>1, <2>4, <3>2, <3>3 DEF Says
  <2> QED BY <1>2, <2>2, <2>3, <2>4 DEF TurnOf
<1> QED BY <1>1, <1>2

\* What a compaction that is applied does to the chat.
LEMMA ReplacedChat ==
  ASSUME IInv, Replaces, strategy # "subtask"
  PROVE  /\ strategy \in {"none", "mask"} => Masks(messages', messages)
         /\ InOrder(messages) => InOrder(messages')
         /\ Turns(messages) => Turns(messages')
         /\ messages[KeepFirst].role # "assistant" /\ Answered(messages) =>
              /\ Answered(messages')
              /\ EndsInCall' => EndsInCall
         /\ Len(messages) > KeepFirst + 2
<1> DEFINE r == pending[1]
<1>1. /\ r \in Compactions /\ Len(messages) > KeepFirst + 2 /\ Reduces(r)
      /\ messages' = r.messages
  BY DEF Replaces, IInv, PendingInv
<1> HIDE DEF r
<1>2. messages \in Seq(Message) /\ Len(messages) \in Nat /\ KeepFirst \in Nat
  BY HistoriesTyped, AgentAssumption
<1>3. CASE strategy \in {"none", "mask"} /\ Masks(r.messages, messages)
  <2>1. Len(r.messages) = Len(messages) /\ Len(messages) \in 1..Len(messages)
    BY <1>1, <1>2, <1>3 DEF Masks
  <2> QED BY <1>1, <1>2, <1>3, <2>1, MaskedChat DEF EndsInCall
<1>4. CASE /\ strategy \notin {"none", "mask"}
           /\ KeepFirst < Cut /\ Cut <= Len(messages)
           /\ \E x \in Seq(Message) :
                Filler(x) /\ Folds(r.messages, messages, Cut, x)
  <2>1. PICK x \in Seq(Message) : Filler(x) /\ Folds(r.messages, messages, Cut, x)
    BY <1>4
  <2>2. Cut \in KeepFirst..Len(messages) /\ Cut > KeepFirst
    <3>1. Cut \in Nat
      BY <1>1, <1>2, CutFacts, AgentAssumption
    <3> QED BY <1>2, <1>4, <3>1
  <2>3. Cut = Len(messages) \/ messages[Cut].role = "tool"
    BY <1>1, <1>2, <2>2, CutBehindTool
  <2>4. InOrder(messages) => InOrder(r.messages)
    BY <1>2, <2>1, <2>2, FoldedOrder
  <2>5. Turns(messages) => Turns(r.messages)
    BY <1>2, <2>1, <2>2, <2>3, FoldedTurns
  <2>6. messages[KeepFirst].role # "assistant" /\ Answered(messages) =>
          /\ Answered(r.messages)
          /\ r.messages[Len(r.messages)].role = "assistant"
               => messages[Len(messages)].role = "assistant"
    BY <1>2, <2>1, <2>2, FoldedAnswers
  <2> QED BY <1>1, <1>4, <2>4, <2>5, <2>6 DEF EndsInCall
<1> QED BY <1>1, <1>3, <1>4, ResultShapes

LEMMA StepOrdered ==
  ASSUME IInv, Ordered, [Next]_vars
  PROVE  Ordered'
<1> SUFFICES ASSUME strategy # "subtask" PROVE InOrder(messages')
  BY HistoryStep DEF Ordered
<1>1. InOrder(messages)
  BY DEF Ordered
<1>2. CASE Appends
  <2>1. PICK x : Appendable(log, x) /\ messages' = messages \o x
    BY <1>2 DEF Appends
  <2> QED BY <1>1, <2>1, OrderGrows DEF IInv
<1>3. CASE Replaces
  BY <1>1, <1>3, ReplacedChat
<1>4. CASE UNCHANGED <<messages, log>>
  BY <1>1, <1>4
<1> QED BY <1>2, <1>3, <1>4, HistoryStep

LEMMA StepPaired ==
  ASSUME IInv, Paired, [Next]_vars
  PROVE  Paired'
<1>0. strategy' = strategy
  BY HistoryStep
<1> SUFFICES ASSUME strategy # "subtask", SingleCalls'
             PROVE  /\ Turns(messages')
                    /\ pc' = "act" => EndsInCall' /\ messages'[Len(messages')].id = Len(log')
  BY <1>0 DEF Paired
<1>1. /\ Turns(messages)
      /\ pc = "act" => EndsInCall /\ messages[Len(messages)].id = Len(log)
  BY SingleBefore DEF Paired
<1>2. CASE \E x : Says(x)
  <2>1. PICK x : Says(x)
    BY <1>2
  <2>2. /\ x \in Seq(Message) /\ Len(x) = 1
        /\ messages' = messages \o x /\ log' = log \o x
    BY <2>1 DEF Says
  <2>3. /\ Len(messages') = Len(messages) + 1
        /\ messages'[Len(messages) + 1] = x[1]
        /\ Len(log') = Len(log) + 1
    BY <2>2, LogEnd, 1 \in 1..1
  <2>4. Turns(messages')
    <3>1. /\ x[1].role = "assistant" => x[1].calls = 1
          /\ x[1].role = "tool" => /\ Len(messages) >= 1 /\ EndsInCall
                                   /\ messages[Len(messages)].id = x[1].of
      BY <1>1, <2>1, HistoriesTyped DEF Says
    <3> QED BY <1>1, <2>2, <3>1, HistoriesTyped, TurnsGrow DEF EndsInCall
  <2>5. pc' = "act" => x[1].role = "assistant" /\ x[1].id = Len(log) + 1
    BY <2>1 DEF Says
  <2> QED BY <2>3, <2>4, <2>5 DEF EndsInCall
<1>3. CASE Replaces
  BY <1>1, <1>3, ReplacedChat DEF Replaces
<1>4. CASE Stays
  BY <1>1, <1>4 DEF Stays, EndsInCall
<1> QED BY <1>2, <1>3, <1>4, ChatStep

LEMMA StepSettled ==
  ASSUME IInv, Paired, Settled, [Next]_vars
  PROVE  Settled'
<1>0. strategy' = strategy
  BY HistoryStep
<1> SUFFICES ASSUME strategy # "subtask", SingleCalls', Unsplit'
             PROVE  Answered(messages') /\ (EndsInCall' => pc' \in {"act", "done"})
  BY <1>0 DEF Settled
<1>a. SingleCalls
  BY SingleBefore
<1>1. CASE \E x : Says(x)
  <2>1. PICK x : Says(x)
    BY <1>1
  <2>2. /\ x \in Seq(Message) /\ Len(x) = 1
        /\ messages' = messages \o x /\ log' = log \o x
    BY <2>1 DEF Says
  <2>3. /\ Len(messages') = Len(messages) + 1
        /\ messages'[Len(messages) + 1] = x[1]
        /\ Len(log') = Len(log) + 1
        /\ \A i \in 1..Len(log) : log'[i] = log[i]
    BY <2>2, LogEnd, 1 \in 1..1
  <2>4. Unsplit
    <3>1. Len(log) >= KeepFirst => KeepFirst \in 1..Len(log)
      BY HistoriesTyped, AgentAssumption
    <3>2. Len(log) >= KeepFirst => Len(log') >= KeepFirst
      BY <2>3, HistoriesTyped, AgentAssumption
    <3> QED BY <2>3, <3>1, <3>2 DEF Unsplit
  <2>5. Answered(messages) /\ (EndsInCall => pc \in {"act", "done"})
    BY <1>a, <2>4 DEF Settled
  <2>6. Answered(messages')
    <3>1. EndsInCall => x[1].role = "tool" /\ x[1].of = messages[Len(messages)].id
      BY <1>a, <2>1, <2>5 DEF Says, Paired
    <3> QED BY <2>2, <2>5, <3>1, HistoriesTyped, AnswersGrow DEF EndsInCall
  <2>7. pc' = "act" \/ x[1].role # "assistant"
    BY <2>1 DEF Says
  <2> QED BY <2>3, <2>6, <2>7 DEF EndsInCall
<1>2. CASE Replaces
  <2>1. log' = log /\ pc = "count"
    BY <1>2 DEF Replaces
  <2>2. Unsplit
    BY <2>1 DEF Unsplit
  <2>3. Answered(messages) /\ ~EndsInCall
    BY <1>a, <2>1, <2>2 DEF Settled
  <2>4. messages[KeepFirst].role # "assistant"
    <3>1. Len(messages) > KeepFirst + 2 /\ KeepFirst \in Nat \ {0, 1}
      BY <1>2, ReplacedChat, AgentAssumption
    <3>2. Len(log) >= KeepFirst /\ messages[KeepFirst] = log[KeepFirst]
      <4>1. CASE messages = log
        BY <3>1, <4>1, HistoriesTyped
      <4>2. CASE messages # log
        BY <3>1, <4>2 DEF IInv, HeadInv, StartsLike
      <4> QED BY <4>1, <4>2
    <3> QED BY <2>2, <3>2 DEF Unsplit
  <2> QED BY <1>2, <2>3, <2>4, ReplacedChat
<1>3. CASE Stays
  <2>1. Unsplit /\ messages' = messages
    BY <1>3 DEF Stays, Unsplit
  <2> QED BY <1>a, <1>3, <2>1 DEF Stays, Settled, EndsInCall
<1> QED BY <1>1, <1>2, <1>3, ChatStep

\* What is appended changes no turn that is whole already.
LEMMA WholeGrows ==
  ASSUME NEW m \in Seq(Message), NEW w, NEW n \in Nat, Len(w) = Len(m) + n,
         \A i \in 1..Len(m) : w[i] = m[i]
  PROVE  /\ \A i \in 1..Len(m) : Belongs(m, i) => Belongs(w, i)
         /\ \A j \in 1..Len(m) : Complete(m, j) => Complete(w, j)
<1>0. Len(m) \in Nat /\ Len(w) \in Nat
  OBVIOUS
<1>1. ASSUME NEW i \in 1..Len(m), Belongs(m, i) PROVE Belongs(w, i)
  <2>1. PICK j \in 1..(i - 1) :
          /\ m[j].role = "assistant" /\ m[j].id = m[i].of /\ i - j <= m[j].calls
          /\ \A k \in (j + 1)..i : m[k].role = "tool"
    BY <1>1 DEF Belongs
  <2>2. j \in 1..Len(m) /\ \A k \in (j + 1)..i : k \in 1..Len(m)
    BY <1>0
  <2>3. w[j] = m[j] /\ w[i] = m[i] /\ \A k \in (j + 1)..i : w[k] = m[k]
    BY <2>2
  <2> QED BY <2>1, <2>3 DEF Belongs
<1>2. ASSUME NEW j \in 1..Len(m), Complete(m, j) PROVE Complete(w, j)
  <2> SUFFICES ASSUME NEW i \in (j + 1)..(j + w[j].calls)
               PROVE  i <= Len(w) /\ w[i].role = "tool" /\ w[i].of = w[j].id
    BY DEF Complete
  <2>1. w[j] = m[j]
    OBVIOUS
  <2>2. i <= Len(m) /\ m[i].role = "tool" /\ m[i].of = m[j].id
    BY <1>2, <2>1 DEF Complete
  <2>3. i \in 1..Len(m)
    BY <1>0, <2>2
  <2> QED BY <1>0, <2>1, <2>2, <2>3
<1> QED BY <1>1, <1>2

\* Masking leaves whole turns whole.
LEMMA WholeMasked ==
  ASSUME NEW m \in Seq(Message), NEW w, Masks(w, m), WholeTurns(m, FALSE)
  PROVE  WholeTurns(w, FALSE)
<1>1. Len(w) = Len(m) /\ Len(m) \in Nat
  BY DEF Masks
<1>2. \A i \in 1..Len(m) : /\ w[i].id = m[i].id /\ w[i].role = m[i].role
                           /\ w[i].of = m[i].of /\ w[i].calls = m[i].calls
  BY MaskedChat
<1>3. ASSUME NEW i \in 1..Len(w), w[i].role = "tool" PROVE Belongs(w, i)
  <2>1. Belongs(m, i)
    BY <1>1, <1>2, <1>3 DEF WholeTurns
  <2>2. PICK j \in 1..(i - 1) :
          /\ m[j].role = "assistant" /\ m[j].id = m[i].of /\ i - j <= m[j].calls
          /\ \A k \in (j + 1)..i : m[k].role = "tool"
    BY <2>1 DEF Belongs
  <2>3. j \in 1..Len(m) /\ i \in 1..Len(m) /\ \A k \in (j + 1)..i : k \in 1..Len(m)
    BY <1>1
  <2> QED BY <1>2, <2>2, <2>3 DEF Belongs
<1>4. ASSUME NEW j \in 1..Len(w), w[j].role = "assistant" PROVE Complete(w, j)
  <2>1. j \in 1..Len(m) /\ m[j].role = "assistant"
    BY <1>1, <1>2, <1>4
  <2>2. Complete(m, j)
    BY <2>1 DEF WholeTurns
  <2> SUFFICES ASSUME NEW i \in (j + 1)..(j + w[j].calls)
               PROVE  i <= Len(w) /\ w[i].role = "tool" /\ w[i].of = w[j].id
    BY DEF Complete
  <2>3. i <= Len(m) /\ m[i].role = "tool" /\ m[i].of = m[j].id
    BY <1>2, <2>1, <2>2 DEF Complete
  <2>4. i \in 1..Len(m)
    BY <1>1, <2>1, <2>3
  <2> QED BY <1>1, <1>2, <2>1, <2>3, <2>4
<1> QED BY <1>3, <1>4 DEF WholeTurns

LEMMA StepWhole ==
  ASSUME IInv, Whole, [Next]_vars
  PROVE  Whole'
<1>0. strategy' = strategy
  BY HistoryStep
<1> SUFFICES ASSUME strategy \in {"none", "mask"}
             PROVE  /\ WholeTurns(messages', (pc \in {"act", "done"})')
                    /\ pc' = "act" => EndsInCall' /\ messages'[Len(messages')].id = Len(log')
  BY <1>0 DEF Whole
<1>a. /\ messages \in Seq(Message) /\ Len(messages) \in Nat /\ Len(messages) >= 1
      /\ Len(messages) \in 1..Len(messages)
  BY HistoriesTyped
<1>b. /\ WholeTurns(messages, pc \in {"act", "done"})
      /\ pc = "act" => EndsInCall /\ messages[Len(messages)].id = Len(log)
  BY DEF Whole
<1>1. ASSUME NEW x, TurnOf(x)
      PROVE  /\ WholeTurns(messages', (pc \in {"act", "done"})')
             /\ pc' = "act" => EndsInCall' /\ messages'[Len(messages')].id = Len(log')
  <2>1. x \in Seq(Message) /\ messages' = messages \o x /\ log' = log \o x
    BY <1>1 DEF TurnOf
  <2>2. /\ Len(messages') = Len(messages) + Len(x) /\ Len(x) \in Nat
        /\ Len(log') = Len(log) + Len(x)
        /\ \A i \in 1..Len(messages) : messages'[i] = messages[i]
        /\ \A i \in 1..Len(x) : messages'[Len(messages) + i] = x[i]
    BY <2>1, LogEnd
  <2>3. /\ \A i \in 1..Len(messages) : Belongs(messages, i) => Belongs(messages', i)
        /\ \A j \in 1..Len(messages) : Complete(messages, j) => Complete(messages', j)
    BY <1>a, <2>2, WholeGrows
  <2>4. CASE pc = "call" /\ Len(x) = 1 /\ x[1].role \in {"assistant", "user"}
             /\ (x[1].role = "assistant" => pc' = "act" /\ x[1].id = Len(log) + 1)
             /\ (pc' = "act" => x[1].role = "assistant")
    <3>1. messages'[Len(messages) + 1] = x[1] /\ Len(messages') = Len(messages) + 1
      BY <2>2, <2>4
    <3>2. \A i \in 1..Len(messages') : i \in 1..Len(messages) \/ i = Len(messages')
      BY <1>a, <3>1
    <3>3. ~(pc \in {"act", "done"})
      BY <2>4
    <3>4. ASSUME NEW i \in 1..Len(messages'), messages'[i].role = "tool"
          PROVE  Belongs(messages', i)
      <4>1. i \in 1..Len(messages)
        BY <2>4, <3>1, <3>2, <3>4
      <4> QED BY <1>b, <2>2, <2>3, <3>4, <4>1 DEF WholeTurns
    <3>5. ASSUME NEW j \in 1..Len(messages'), messages'[j].role = "assistant"
          PROVE  Complete(messages', j) \/ (pc' \in {"act", "done"} /\ j = Len(messages'))
      <4>1. CASE j \in 1..Len(messages)
        BY <1>b, <2>2, <2>3, <3>3, <3>5, <4>1 DEF WholeTurns
      <4>2. CASE j = Len(messages')
        BY <2>4, <3>1, <3>5, <4>2
      <4> QED BY <3>2, <4>1, <4>2
    <3>6. WholeTurns(messages', (pc \in {"act", "done"})')
      BY <3>4, <3>5 DEF WholeTurns
    <3>7. pc' = "act" => EndsInCall' /\ messages'[Len(messages')].id = Len(log')
      BY <2>2, <2>4, <3>1 DEF EndsInCall
    <3> QED BY <3>6, <3>7
  <2>5. CASE /\ pc = "act" /\ pc' = "query" /\ Len(x) = messages[Len(messages)].calls
             /\ \A i \in 1..Len(x) : x[i].role = "tool" /\ x[i].of = Len(log)
    <3> DEFINE e == Len(messages)
    <3>1. /\ messages[e].role = "assistant" /\ messages[e].id = Len(log)
          /\ messages'[e] = messages[e]
      BY <1>a, <1>b, <2>2, <2>5 DEF EndsInCall
    <3>2. ASSUME NEW i \in (e + 1)..Len(messages')
          PROVE  messages'[i].role = "tool" /\ messages'[i].of = Len(log)
      <4>1. i - e \in 1..Len(x) /\ e + (i - e) = i
        BY <1>a, <2>2
      <4> QED BY <2>2, <2>5, <4>1
    <3>3. \A i \in 1..Len(messages') :
            i \in 1..Len(messages) \/ i \in (e + 1)..Len(messages')
      BY <1>a, <2>2
    <3>4. ASSUME NEW i \in (e + 1)..Len(messages') PROVE Belongs(messages', i)
      <4>1. e \in 1..(i - 1) /\ i - e <= messages'[e].calls
        BY <1>a, <2>2, <2>5, <3>1
      <4>2. \A k \in (e + 1)..i : k \in (e + 1)..Len(messages')
        BY <1>a, <2>2
      <4>3. \A k \in (e + 1)..i : messages'[k].role = "tool"
        BY <3>2, <4>2
      <4>4. messages'[e].role = "assistant" /\ messages'[e].id = messages'[i].of
        BY <3>1, <3>2
      <4> QED BY <4>1, <4>3, <4>4 DEF Belongs
    <3>5. ASSUME NEW i \in 1..Len(messages'), messages'[i].role = "tool"
          PROVE  Belongs(messages', i)
      BY <1>b, <2>2, <2>3, <3>3, <3>4, <3>5 DEF WholeTurns
    <3>6. Complete(messages', e)
      <4> SUFFICES ASSUME NEW i \in (e + 1)..(e + messages'[e].calls)
                   PROVE  /\ i <= Len(messages') /\ messages'[i].role = "tool"
                          /\ messages'[i].of = messages'[e].id
        BY DEF Complete
      <4>1. i \in (e + 1)..Len(messages')
        BY <1>a, <2>2, <2>5, <3>1
      <4> QED BY <1>a, <2>2, <3>1, <3>2, <4>1
    <3>7. ASSUME NEW j \in 1..Len(messages'), messages'[j].role = "assistant"
          PROVE  Complete(messages', j)
      <4>1. j \in 1..Len(messages)
        BY <3>2, <3>3, <3>7
      <4>2. CASE j = e
        BY <3>6, <4>2
      <4>3. CASE j # e
        BY <1>b, <2>2, <2>3, <3>7, <4>1, <4>3 DEF WholeTurns
      <4> QED BY <4>2, <4>3
    <3>8. WholeTurns(messages', (pc \in {"act", "done"})')
      BY <3>5, <3>7 DEF WholeTurns
    <3> QED BY <2>5, <3>8
  <2> QED BY <1>1, <2>4, <2>5 DEF TurnOf
<1>2. CASE Replaces
  <2>1. Masks(messages', messages)
    BY <1>2, ReplacedChat
  <2>2. pc = "count" /\ pc' = "call"
    BY <1>2 DEF Replaces
  <2>3. WholeTurns(messages, FALSE)
    BY <1>b, <2>2 DEF WholeTurns
  <2>4. WholeTurns(messages', FALSE)
    BY <1>a, <2>1, <2>3, WholeMasked
  <2> QED BY <2>2, <2>4 DEF WholeTurns
<1>3. CASE Stays
  BY <1>b, <1>3 DEF Stays, WholeTurns, EndsInCall
<1> QED BY <1>1, <1>2, <1>3, TurnStep

\* The messages of the run that survive any number of compactions are in the
\* order they were made in and none is there twice, however many calls the
\* model makes at a time (Chronological; the subtask strategy's order is that
\* of the model's themes).
THEOREM StaysInOrder == Spec => [](strategy # "subtask" => Chronological)
<1>1. Init => Ordered
  BY InitChat
<1>2. IInv /\ Ordered /\ [Next]_vars => Ordered'
  BY StepOrdered
<1>3. IInv /\ Ordered => (strategy # "subtask" => Chronological)
  <2> SUFFICES ASSUME IInv, Ordered, strategy # "subtask" PROVE Chronological
    OBVIOUS
  <2>1. DOMAIN messages = 1..Len(messages)
    BY HistoriesTyped
  <2> QED BY <2>1 DEF Ordered, InOrder, Chronological
<1> QED BY <1>1, <1>2, <1>3, InductiveInvariant, PTL DEF Spec

\* A chat whose calls and results are paired satisfies the API.
LEMMA PairedChat ==
  ASSUME IInv, Ordered, Paired, Settled, Whole
  PROVE  WellFormed
<1> SUFFICES ASSUME strategy # "subtask"
             PROVE  /\ Chronological
                    /\ ~MayCutMidTurn => NeverCutMidTurn /\ CallsAnswered
  BY DEF WellFormed
<1>0. /\ messages \in Seq(Message) /\ Len(messages) \in Nat
      /\ DOMAIN messages = 1..Len(messages)
  BY HistoriesTyped
<1>1. Chronological
  BY <1>0 DEF Ordered, InOrder, Chronological
<1>2. CASE strategy \in {"none", "mask"}
  <2>1. NeverCutMidTurn
    <3> SUFFICES ASSUME NEW i \in At(messages, "tool") PROVE AnswersCall(i)
      BY DEF NeverCutMidTurn
    <3>1. i \in 1..Len(messages) /\ messages[i].role = "tool"
      BY <1>0 DEF At
    <3>2. Belongs(messages, i)
      BY <1>2, <3>1 DEF Whole, WholeTurns
    <3> QED BY <3>2 DEF Belongs, AnswersCall
  <2>2. CallsAnswered
    <3> SUFFICES ASSUME pc = "call", NEW j \in At(messages, "assistant")
                 PROVE  Complete(messages, j)
      BY DEF CallsAnswered, Complete
    <3>1. j \in 1..Len(messages) /\ messages[j].role = "assistant"
      BY <1>0 DEF At
    <3> QED BY <1>2, <3>1 DEF Whole, WholeTurns
  <2> QED BY <1>1, <2>1, <2>2
<1>3. CASE SingleCalls
  <2>1. NeverCutMidTurn
    <3> SUFFICES ASSUME NEW i \in At(messages, "tool") PROVE AnswersCall(i)
      BY DEF NeverCutMidTurn
    <3>1. i \in 1..Len(messages) /\ messages[i].role = "tool"
      BY <1>0 DEF At
    <3>2. i > 1 /\ messages[i - 1].role = "assistant" /\ messages[i - 1].id = messages[i].of
      BY <1>3, <3>1 DEF Paired, Turns
    <3>3. i - 1 \in 1..Len(messages) /\ i - 1 \in 1..(i - 1) /\ i - (i - 1) = 1
      BY <1>0, <3>1, <3>2
    <3>4. messages[i - 1].calls = 1
      BY <1>3, <3>2, <3>3 DEF Paired, Turns
    <3>5. \A k \in ((i - 1) + 1)..i : messages[k].role = "tool"
      <4>1. \A k \in ((i - 1) + 1)..i : k = i
        BY <3>1
      <4> QED BY <3>1, <4>1
    <3>6. i - (i - 1) <= messages[i - 1].calls
      BY <3>3, <3>4
    <3> QED BY <3>2, <3>3, <3>5, <3>6 DEF AnswersCall
  <2>2. CallsAnswered
    <3> SUFFICES ASSUME pc = "call", Unsplit,
                        NEW j \in At(messages, "assistant"),
                        NEW i \in (j + 1)..(j + messages[j].calls)
                 PROVE  /\ i <= Len(messages) /\ messages[i].role = "tool"
                        /\ messages[i].of = messages[j].id
      BY DEF CallsAnswered, Unsplit
    <3>1. j \in 1..Len(messages) /\ messages[j].role = "assistant"
      BY <1>0 DEF At
    <3>2. messages[j].calls = 1
      BY <1>3, <3>1 DEF Paired, Turns
    <3>3. i = j + 1
      BY <3>1, <3>2
    <3>4. Answered(messages) /\ ~EndsInCall
      BY <1>3 DEF Settled
    <3>5. j # Len(messages)
      BY <3>1, <3>4 DEF EndsInCall
    <3>6. j \in 1..(Len(messages) - 1)
      <4>1. Len(messages) \in Nat /\ j \in Nat
        BY <1>0, <3>1
      <4> QED BY <3>1, <3>5, <4>1
    <3> QED BY <1>0, <3>1, <3>3, <3>4, <3>6 DEF Answered
  <2> QED BY <1>1, <2>1, <2>2
<1>4. ~MayCutMidTurn => strategy \in {"none", "mask"} \/ SingleCalls
  <2> SUFFICES ASSUME ~MayCutMidTurn, strategy \notin {"none", "mask"},
                      NEW i \in 1..Len(log)
               PROVE  log[i].calls <= 1
    BY DEF SingleCalls
  <2>1. log \in Seq(Message) /\ DOMAIN log = 1..Len(log)
    BY HistoriesTyped
  <2>2. log[i].calls \in Nat
    <3>1. log[i] \in Message
      BY <2>1
    <3> QED BY <3>1 DEF Message
  <2>3. ~(log[i].calls > 1)
    BY <2>1 DEF MayCutMidTurn
  <2> QED BY <2>2, <2>3
<1> QED BY <1>1, <1>2, <1>3, <1>4

\* What the chat API is sent is well formed, through any number of compactions:
\* nothing is out of order or twice, and no result is without its call and no
\* call without its results, in every run that masks and in every run of the
\* other strategies whose answers make one call at a time (WellFormed).  The
\* results of parallel calls are turns of their own for last_n_turns, and the
\* split may come between them.
THEOREM ChatIsWellFormed == Spec => []WellFormed
<1> DEFINE Chat == Ordered /\ Paired /\ Settled /\ Whole
<1>1. Init => Chat
  BY InitChat
<1>2. IInv /\ Chat /\ [Next]_vars => Chat'
  BY StepOrdered, StepPaired, StepSettled, StepWhole
<1>3. IInv /\ Chat => WellFormed
  BY PairedChat
<1> QED BY <1>1, <1>2, <1>3, InductiveInvariant, PTL DEF Spec
=============================================================================
