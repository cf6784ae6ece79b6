------------------------- MODULE ScoringUnitProofs -------------------------
(***************************************************************************)
(* Proofs about ScoringUnit: its four safety properties, for all recorded  *)
(* runs and all parameters the code accepts.  What is compared does not    *)
(* depend on a context (SameTokens); a run alternates calls and results,   *)
(* so that cutting behind an even number of steps parts none (WholeTurns); *)
(* what precedes an action is the kept prefix and the history between      *)
(* (SamePast); the tokens of turns add up (FitsWindow).                    *)
(***************************************************************************)
EXTENDS ScoringUnit, CompactionFacts

-----------------------------------------------------------------------------
(* Steps and tokens *)

\* The messages of recorded runs and of the contexts made from them.
Thinking == [role : Roles, id : Nat, size : Nat, lines : Nat, bug : BOOLEAN,
             form : {"verbatim", "masked", "summary"}, claim : Nat,
             calls : Nat, of : Nat, covers : SUBSET Nat, reasoning : BOOLEAN]

Step == Message \union Thinking

\* Tokens, by message, kind and place.
TokenNames == {"why", "verbatim", "masked", "summary", "think", "newline",
               "im_end", "two_newlines", "sampled"}

Token == Nat \X TokenNames \X Nat

-----------------------------------------------------------------------------
(* Tokens *)

\* The fields that every step has.
LEMMA StepFields ==
  ASSUME NEW m \in Step
  PROVE  /\ m.id \in Nat /\ m.size \in Nat /\ m.calls \in Nat
         /\ m.form \in {"verbatim", "masked", "summary"}
         /\ m.role \in Roles /\ m.covers \in SUBSET Nat
<1>1. CASE m \in Message
  BY <1>1 DEF Message
<1>2. CASE m \in Thinking
  BY <1>2 DEF Thinking
<1> QED BY <1>1, <1>2 DEF Step

\* Tokens that belong to no message.
LEMMA SpecialType ==
  ASSUME NEW name \in TokenNames
  PROVE  Special(name) \in Token
BY DEF Special, Token

\* A message renders to tokens.
LEMMA BodyType ==
  ASSUME NEW m \in Step
  PROVE  /\ Body(m) \in Seq(Token)
         /\ Reasons(m) => Len(Body(m)) >= 1 /\ Body(m)[1] = <<m.id, "why", 0>>
<1> DEFINE b == [k \in 1..m.size |-> <<m.id, m.form, k>>]
           w == <<m.id, "why", 0>>
<1>1. b \in Seq(Token)
  <2>1. m.size \in Nat /\ \A k \in 1..m.size : <<m.id, m.form, k>> \in Token
    BY StepFields DEF Token, TokenNames
  <2>2. b \in [1..m.size -> Token]
    BY <2>1
  <2> HIDE DEF b
  <2> QED BY <2>1, <2>2
<1>2. w \in Token
  BY StepFields DEF Token, TokenNames
<1> HIDE DEF b, w
<1>3. CASE Reasons(m)
  <2>1. Body(m) = <<w>> \o b
    BY <1>3 DEF Body, b, w
  <2> QED BY <1>1, <1>2, <2>1 DEF w
<1>4. CASE ~Reasons(m)
  <2>1. Body(m) = << >> \o b
    BY <1>4 DEF Body, b
  <2> QED BY <1>1, <1>4, <2>1
<1> QED BY <1>3, <1>4

\* Sequences flattened are a sequence of what they hold.
LEMMA FlattenType ==
  ASSUME NEW S, NEW g \in Seq(Seq(S))
  PROVE  FlattenSeq(g) \in Seq(S)
<1> DEFINE n == Len(g)
           Round(h) == [i \in 1..n |-> IF i = 1 THEN g[i] ELSE h[i - 1] \o g[i]]
           flat == CHOOSE h : h = Round(h)
<1>1. n \in Nat /\ \A k \in 1..n : g[k] \in Seq(S)
  OBVIOUS
<1>2. CASE n = 0
  <2>1. g = << >>
    BY <1>2
  <2>2. FlattenSeq(g) = g
    BY <1>2 DEF FlattenSeq
  <2>3. << >> \in Seq(S)
    OBVIOUS
  <2> QED BY <2>1, <2>2, <2>3
<1>3. CASE n # 0
  <2>1. \E h : h = Round(h)
    <3>1. PICK f : Concats(f, g, n)
      <4> HIDE DEF n
      <4> QED BY <1>1, ConcatsExist
    <3> DEFINE h == [i \in 1..n |-> f[i]]
    <3>2. \A i \in 0..n : f[i] = IF i = 0 THEN << >> ELSE f[i - 1] \o g[i]
      BY <3>1 DEF Concats
    <3>3. \A i \in 1..n : h[i] = IF i = 1 THEN g[i] ELSE h[i - 1] \o g[i]
      <4> SUFFICES ASSUME NEW i \in 1..n
                   PROVE  h[i] = IF i = 1 THEN g[i] ELSE h[i - 1] \o g[i]
        OBVIOUS
      <4>1. i \in 0..n /\ 0 \in 0..n /\ h[i] = f[i] /\ i # 0
        BY <1>1
      <4>2. CASE i = 1
        <5>1. f[0] = << >>
          BY <3>2, <4>1
        <5>2. f[1] = << >> \o g[1]
          <6>1. 1 \in 0..n /\ 1 - 1 = 0
            BY <4>1, <4>2
          <6>2. f[1] = IF 1 = 0 THEN << >> ELSE f[1 - 1] \o g[1]
            BY <3>2, <6>1
          <6>3. f[1] = f[0] \o g[1]
            BY <6>1, <6>2
          <6> QED BY <5>1, <6>3
        <5>3. g[1] \in Seq(S)
          BY <1>1, <4>2
        <5>4. << >> \o g[1] = g[1]
          BY <5>3
        <5> QED BY <4>1, <4>2, <5>2, <5>4
      <4>3. CASE i # 1
        <5>1. i - 1 \in 1..n
          BY <1>1, <4>3
        <5>2. h[i - 1] = f[i - 1]
          BY <5>1
        <5> QED BY <3>2, <4>1, <4>3, <5>2
      <4> QED BY <4>2, <4>3
    <3>4. h = Round(h)
      BY <3>3
    <3> QED BY <3>4
  <2>2. flat = Round(flat)
    <3> HIDE DEF Round
    <3> QED BY <2>1
  <2>3. FlattenSeq(g) = flat[n]
    BY <1>3 DEF FlattenSeq
  <2> HIDE DEF flat
  <2>4. \A i \in 1..n : flat[i] = IF i = 1 THEN g[i] ELSE flat[i - 1] \o g[i]
    BY <2>2
  <2> DEFINE Bad == {i \in 1..n : flat[i] \notin Seq(S)}
  <2>5. Bad = {}
    <3> SUFFICES ASSUME Bad # {} PROVE FALSE
      OBVIOUS
    <3>1. PICK i \in Bad : \A j \in Bad : i <= j
      <4>1. Bad \in SUBSET Nat
        OBVIOUS
      <4> HIDE DEF Bad
      <4> QED BY <4>1, Least
    <3>2. i # 1
      BY <1>1, <2>4, <3>1
    <3>3. i - 1 \in 1..n /\ ~(i <= i - 1) /\ i \in 1..n
      BY <1>1, <3>1, <3>2
    <3>4. flat[i - 1] \in Seq(S) /\ g[i] \in Seq(S)
      BY <1>1, <3>1, <3>3
    <3>5. flat[i - 1] \o g[i] \in Seq(S)
      BY <3>4
    <3> QED BY <2>4, <3>1, <3>2, <3>3, <3>5
  <2>6. n \in 1..n
    BY <1>1, <1>3
  <2> HIDE DEF n
  <2> QED BY <2>3, <2>5, <2>6
<1> QED BY <1>2, <1>3

\* A prompt is not empty and ends in a newline.
LEMMA PromptType ==
  ASSUME NEW msgs \in Seq(Step)
  PROVE  /\ Prompt(msgs) \in Seq(Token) /\ Len(Prompt(msgs)) >= 1
         /\ Last(Prompt(msgs)) = Special("newline")
<1> DEFINE g == [i \in DOMAIN msgs |-> Body(msgs[i])]
           end == << Special("think"), Special("newline") >>
<1>1. g \in Seq(Seq(Token))
  <2>1. DOMAIN msgs = 1..Len(msgs) /\ Len(msgs) \in Nat
    OBVIOUS
  <2>2. \A i \in 1..Len(msgs) : Body(msgs[i]) \in Seq(Token)
    <3>1. \A i \in 1..Len(msgs) : msgs[i] \in Step
      OBVIOUS
    <3> QED BY <3>1, BodyType
  <2>3. g \in [1..Len(msgs) -> Seq(Token)]
    BY <2>1, <2>2
  <2> HIDE DEF g
  <2> QED BY <2>1, <2>3
<1>2. Render(msgs) \in Seq(Token)
  <2> HIDE DEF g
  <2>1. FlattenSeq(g) \in Seq(Token)
    BY <1>1, FlattenType
  <2> QED BY <2>1 DEF Render, g
<1>3. end \in Seq(Token) /\ Len(end) = 2 /\ end[2] = Special("newline")
  <2>1. Special("think") \in Token /\ Special("newline") \in Token
    BY SpecialType DEF TokenNames
  <2> QED BY <2>1
<1>4. Prompt(msgs) = Render(msgs) \o end
  BY DEF Prompt
<1> HIDE DEF end
<1>5. /\ Prompt(msgs) \in Seq(Token) /\ Len(Prompt(msgs)) = Len(Render(msgs)) + 2
      /\ Prompt(msgs)[Len(Render(msgs)) + 2] = end[2]
  <2>1. Render(msgs) \in Seq(Token) /\ end \in Seq(Token) /\ 2 \in 1..Len(end)
    BY <1>2, <1>3
  <2>2. /\ Render(msgs) \o end \in Seq(Token)
        /\ Len(Render(msgs) \o end) = Len(Render(msgs)) + Len(end)
        /\ \A i \in 1..Len(end) :
             (Render(msgs) \o end)[Len(Render(msgs)) + i] = end[i]
    BY <2>1, TwoParts
  <2> QED BY <1>3, <1>4, <2>1, <2>2
<1> QED BY <1>2, <1>3, <1>5 DEF Last

\* What is compared of an action, behind any prompt.
LEMMA JoinedTokens ==
  ASSUME NEW p \in Seq(Token), Len(p) >= 1, Last(p) = Special("newline"),
         NEW action \in Step
  PROVE  LET y == Generation(action)
             c == ComparedTokens(action)
             j == Joined(p, y)
         IN  /\ c \in Seq(Token) /\ j \in Seq(Token) /\ Len(j) = Len(p) + Len(c)
             /\ \A i \in 1..Len(c) : j[Len(p) + i] = c[i]
<1> DEFINE y == Generation(action)
           c == ComparedTokens(action)
           j == Joined(p, y)
           b == Body(action)
           nl == Special("newline")
           end == Special("im_end")
           two == Special("two_newlines")
<1>1. nl \in Token /\ end \in Token /\ two \in Token
  BY SpecialType DEF TokenNames
<1>2. b \in Seq(Token) /\ (Reasons(action) => Len(b) >= 1 /\ b[1] # nl)
  <2>1. <<action.id, "why", 0>> # nl
    BY DEF Special
  <2> QED BY <2>1, BodyType
<1> HIDE DEF b, nl, end, two
<1>3. /\ b \o <<end>> \in Seq(Token) /\ Len(b \o <<end>>) = Len(b) + 1
      /\ \A i \in 1..Len(b) : (b \o <<end>>)[i] = b[i]
  BY <1>1, <1>2
<1> DEFINE be == b \o <<end>>
<1>4. be \in Seq(Token) /\ Len(be) >= 1 /\ (Reasons(action) => be[1] # nl)
  BY <1>2, <1>3
<1>5. y = (IF Reasons(action) THEN << >> ELSE <<nl>>) \o b \o <<end>>
  BY DEF Generation, b, nl, end
<1>6. CASE Reasons(action)
  <2>1. y = be
    BY <1>2, <1>3, <1>5, <1>6
  <2>2. c = be
    BY <1>6, <2>1 DEF ComparedTokens
  <2> HIDE DEF be
  <2>3. j = p \o be
    <3>1. Head(be) = be[1]
      BY <1>4
    <3> QED BY <1>4, <1>6, <2>1, <3>1 DEF Joined, nl
  <2> HIDE DEF j, c, y
  <2> QED BY <1>4, <2>2, <2>3, TwoParts DEF j, c, y
<1>7. CASE ~Reasons(action)
  <2>1. y = <<nl>> \o be
    <3>1. y = (<<nl>> \o b) \o <<end>>
      BY <1>5, <1>7
    <3>2. <<nl>> \in Seq(Token) /\ <<end>> \in Seq(Token)
      BY <1>1
    <3> QED BY <1>2, <3>1, <3>2
  <2> HIDE DEF be
  <2>2. Head(y) = nl /\ Tail(y) = be
    BY <1>1, <1>4, <2>1
  <2>3. c = be
    BY <1>7, <2>2 DEF ComparedTokens
  <2> DEFINE q == SubSeq(p, 1, Len(p) - 1)
             r == q \o <<two>>
  <2>4. j = r \o be
    BY <2>2 DEF Joined, Front, nl, two
  <2>5. q \in Seq(Token) /\ Len(q) = Len(p) - 1
    <3>1. \A m \in 0..Len(p) :
            SubSeq(p, 1, m) \in Seq(Token) /\ Len(SubSeq(p, 1, m)) = m
      OBVIOUS
    <3>2. Len(p) - 1 \in 0..Len(p)
      OBVIOUS
    <3> QED BY <3>1, <3>2
  <2> HIDE DEF q
  <2>6. r \in Seq(Token) /\ Len(r) = Len(p)
    BY <1>1, <2>5
  <2> HIDE DEF r
  <2>7. /\ r \o be \in Seq(Token) /\ Len(r \o be) = Len(p) + Len(be)
        /\ \A i \in 1..Len(be) : (r \o be)[Len(p) + i] = be[i]
    <3>1. r \in Seq(Token) /\ be \in Seq(Token)
      BY <1>4, <2>6
    <3> HIDE DEF be
    <3>2. /\ r \o be \in Seq(Token) /\ Len(r \o be) = Len(r) + Len(be)
          /\ \A i \in 1..Len(be) : (r \o be)[Len(r) + i] = be[i]
      BY <3>1, TwoParts
    <3>3. Len(r) = Len(p)
      BY <2>6
    <3> QED BY <3>2, <3>3
  <2> QED BY <1>4, <2>3, <2>4, <2>7
<1> QED BY <1>6, <1>7

\* The tokens of two sequences that agree on a stretch.
LEMMA Stretch ==
  ASSUME NEW S, NEW j \in Seq(S), NEW k \in Nat, NEW c \in Seq(S),
         Len(j) >= k + Len(c), \A i \in 1..Len(c) : j[k + i] = c[i]
  PROVE  SubSeq(j, k + 1, k + Len(c)) = c
<1> DEFINE s == SubSeq(j, k + 1, k + Len(c))
<1>1. s \in Seq(S) /\ Len(s) = Len(c) /\ \A i \in 1..Len(c) : s[i] = j[k + i]
  <2>1. /\ k + 1 \in Nat /\ k + Len(c) \in Nat /\ Len(c) \in Nat /\ Len(j) \in Nat
        /\ \A i \in (k + 1)..(k + Len(c)) : i \in 1..Len(j)
    OBVIOUS
  <2> QED BY <2>1
<1> HIDE DEF s
<1>2. \A i \in 1..Len(c) : s[i] = c[i]
  BY <1>1
<1> QED BY <1>1, <1>2, SeqEqual DEF s

\* Whatever the two contexts are, the differences are between the tokens that
\* are compared, each with itself.
LEMMA SameDifferences ==
  ASSUME NEW x \in Seq(Step), NEW z \in Seq(Step), NEW action \in Step
  PROVE  LET y == Generation(action)
             c == ComparedTokens(action)
         IN  Differences(XLogprobs(x, y), z, y) = [t \in DOMAIN c |-> <<c[t], c[t]>>]
<1> DEFINE y == Generation(action)
           c == ComparedTokens(action)
           p == Prompt(x)
           q == Prompt(z)
           js == Joined(p, y) \o << Special("sampled") >>
           ks == Joined(q, y) \o << Special("sampled") >>
<1>1. /\ c \in Seq(Token) /\ Joined(p, y) \in Seq(Token)
      /\ Len(Joined(p, y)) = Len(p) + Len(c) /\ Len(p) \in Nat
      /\ \A i \in 1..Len(c) : Joined(p, y)[Len(p) + i] = c[i]
  <2>1. p \in Seq(Token) /\ Len(p) >= 1 /\ Last(p) = Special("newline")
    BY PromptType
  <2> HIDE DEF p
  <2>2. /\ c \in Seq(Token) /\ Joined(p, y) \in Seq(Token)
        /\ Len(Joined(p, y)) = Len(p) + Len(c)
        /\ \A i \in 1..Len(c) : Joined(p, y)[Len(p) + i] = c[i]
    BY <2>1, JoinedTokens
  <2> QED BY <2>1, <2>2
<1>2. /\ Joined(q, y) \in Seq(Token) /\ Len(q) \in Nat
      /\ Len(Joined(q, y)) = Len(q) + Len(c)
      /\ \A i \in 1..Len(c) : Joined(q, y)[Len(q) + i] = c[i]
  <2>1. q \in Seq(Token) /\ Len(q) >= 1 /\ Last(q) = Special("newline")
    BY PromptType
  <2> HIDE DEF q
  <2> QED BY <2>1, JoinedTokens
<1>3. << Special("sampled") >> \in Seq(Token) /\ Len(<< Special("sampled") >>) = 1
  BY SpecialType DEF TokenNames
<1>4. XLogprobs(x, y) = [n_x_ctx |-> Len(p), n_completion |-> Len(p) + Len(c) - Len(p),
                         x_tok |-> SubSeq(js, Len(p) + 1, Len(p) + Len(c))]
  BY <1>1 DEF XLogprobs, Echo
<1> HIDE DEF y, c, p, q
<1>5. Len(p) + Len(c) - Len(p) = Len(c) /\ Len(c) \in Nat
  BY <1>1
<1>6. SubSeq(js, Len(p) + 1, Len(p) + Len(c)) = c
  <2>1. /\ js \in Seq(Token) /\ Len(js) = Len(p) + Len(c) + 1
        /\ \A i \in 1..(Len(p) + Len(c)) : js[i] = Joined(p, y)[i]
    BY <1>1, <1>3, TwoParts
  <2> HIDE DEF js
  <2>2. \A i \in 1..Len(c) : js[Len(p) + i] = c[i]
    <3>1. \A i \in 1..Len(c) : Len(p) + i \in 1..(Len(p) + Len(c))
      BY <1>1, <1>5
    <3> QED BY <1>1, <2>1, <3>1
  <2>3. Len(js) >= Len(p) + Len(c)
    BY <1>1, <1>5, <2>1
  <2> QED BY <1>1, <2>1, <2>2, <2>3, Stretch
<1> DEFINE m == Len(q) + Len(c)
           tk == Take(ks, m)
<1>7. tk \in Seq(Token) /\ Len(tk) = m /\ \A i \in 1..Len(c) : tk[Len(q) + i] = c[i]
  <2>1. /\ ks \in Seq(Token) /\ Len(ks) = Len(q) + Len(c) + 1
        /\ \A i \in 1..(Len(q) + Len(c)) : ks[i] = Joined(q, y)[i]
    BY <1>2, <1>3, <1>5, TwoParts
  <2> HIDE DEF ks
  <2>2. m \in Nat /\ m <= Len(ks)
    BY <1>2, <1>5, <2>1
  <2> HIDE DEF m
  <2>3. tk \in Seq(Token) /\ Len(tk) = m /\ \A i \in 1..m : tk[i] = ks[i]
    BY <2>1, <2>2, TakeType
  <2>4. \A i \in 1..Len(c) : Len(q) + i \in 1..m
    BY <1>2, <1>5 DEF m
  <2> QED BY <1>2, <2>1, <2>3, <2>4 DEF m
<1>8. From(tk, Len(q)) = c
  <2>1. From(tk, Len(q)) = SubSeq(tk, Len(q) + 1, Len(q) + Len(c))
    BY <1>7 DEF From
  <2> HIDE DEF tk
  <2>2. Len(tk) >= Len(q) + Len(c)
    BY <1>2, <1>5, <1>7
  <2> QED BY <1>1, <1>2, <1>7, <2>1, <2>2, Stretch
<1> DEFINE xl == XLogprobs(x, y)
<1>9. xl.x_tok = c /\ xl.n_completion = Len(c)
  <2> HIDE DEF js
  <2>1. /\ xl.x_tok = SubSeq(js, Len(p) + 1, Len(p) + Len(c))
        /\ xl.n_completion = Len(p) + Len(c) - Len(p)
    BY <1>4
  <2> QED BY <1>5, <1>6, <2>1
<1> HIDE DEF xl, tk
<1>10. ZTokens(xl, z, y) = c
  BY <1>8, <1>9 DEF ZTokens, Echo, tk, q
<1>11. Min({Len(c), Len(c)}) = Len(c)
  BY <1>5, MinOfTwo
<1>12. DOMAIN c = 1..Len(c)
  BY <1>1
<1>13. Differences(xl, z, y) = [t \in 1..Len(c) |-> <<c[t], c[t]>>]
  BY <1>9, <1>10, <1>11 DEF Differences
<1> QED BY <1>12, <1>13 DEF xl, y, c

-----------------------------------------------------------------------------
(* Trajectories and contexts are made of steps *)

\* A step without its reasoning is the same message.
LEMMA UnreasonedType ==
  ASSUME NEW m \in Step
  PROVE  /\ Unreasoned(m) \in Message /\ ~Reasons(Unreasoned(m))
         /\ Unreasoned(m).id = m.id /\ Unreasoned(m).covers = m.covers
<1>1. CASE m \in Message
  <2>1. Unreasoned(m) = m /\ ~Reasons(m)
    BY <1>1 DEF Unreasoned, Reasons, Message
  <2> QED BY <1>1, <2>1
<1>2. CASE m \in Thinking
  BY <1>2 DEF Thinking, Message, Unreasoned, Reasons
<1> QED BY <1>1, <1>2 DEF Step

\* A masked step is a step.
LEMMA MaskedType ==
  ASSUME NEW m \in Step
  PROVE  /\ Masked(m) \in Step
         /\ Masked(m).id = m.id /\ Masked(m).covers = m.covers
<1>0. PlaceholderSize \in Nat
  BY CompactionAssumption
<1>1. CASE m \in Message
  BY <1>0, <1>1 DEF Message, Masked, Step
<1>2. CASE m \in Thinking
  BY <1>0, <1>2 DEF Thinking, Masked, Step
<1> QED BY <1>1, <1>2 DEF Step

\* Stripping keeps the steps in their places.
LEMMA StripType ==
  ASSUME NEW msgs \in Seq(Step)
  PROVE  /\ StripReasoning(msgs) \in Seq(Step)
         /\ Len(StripReasoning(msgs)) = Len(msgs)
<1>1. DOMAIN msgs = 1..Len(msgs) /\ Len(msgs) \in Nat
  OBVIOUS
<1>2. \A i \in 1..Len(msgs) : msgs[i] \in Step
  OBVIOUS
<1>3. StripReasoning(msgs) = [i \in 1..Len(msgs) |-> Unreasoned(msgs[i])]
  BY <1>1 DEF StripReasoning
<1>4. StripReasoning(msgs) \in [1..Len(msgs) -> Step]
  BY <1>2, <1>3, UnreasonedType DEF Step
<1> HIDE DEF StripReasoning
<1> QED BY <1>1, <1>3, <1>4

\* So does masking.
LEMMA MaskEnvType ==
  ASSUME NEW msgs \in Seq(Step)
  PROVE  /\ MaskEnv(msgs) \in Seq(Step) /\ Len(MaskEnv(msgs)) = Len(msgs)
         /\ \A i \in 1..Len(msgs) : MaskEnv(msgs)[i] \in {msgs[i], Masked(msgs[i])}
<1>1. DOMAIN msgs = 1..Len(msgs) /\ Len(msgs) \in Nat
  OBVIOUS
<1>2. \A i \in 1..Len(msgs) : MaskEnv(msgs)[i] \in {msgs[i], Masked(msgs[i])}
  BY <1>1 DEF MaskEnv
<1>3. \A i \in 1..Len(msgs) : MaskEnv(msgs)[i] \in Step
  <2>1. \A i \in 1..Len(msgs) : msgs[i] \in Step
    OBVIOUS
  <2> QED BY <1>2, <2>1, MaskedType
<1>4. MaskEnv(msgs) = [i \in 1..Len(msgs) |-> MaskEnv(msgs)[i]]
  BY <1>1 DEF MaskEnv
<1>5. MaskEnv(msgs) \in [1..Len(msgs) -> Step]
  BY <1>3, <1>4
<1>6. \A f \in [1..Len(msgs) -> Step] : f \in Seq(Step) /\ Len(f) = Len(msgs)
  BY <1>1
<1> QED BY <1>2, <1>5, <1>6

\* Trajectories.
Trail == [sys : Seq(Step), task : Seq(Step), steps : Seq(Step),
          continuation : Seq(Step)]

\* The prefix as messages.
LEMMA PartialType ==
  ASSUME NEW t \in Trail
  PROVE  StepsToMessages(t.steps, t.sys, t.task) \in Seq(Step)
<1> DEFINE a == AgentSystemPrompt
           g == t.sys \o <<a>>
<1>1. a \in Step
  BY PlainType DEF AgentSystemPrompt, Step, Roles
<1> HIDE DEF a
<1>2. t.sys \in Seq(Step) /\ t.task \in Seq(Step) /\ t.steps \in Seq(Step)
  BY DEF Trail
<1>3. Head(g) \in Step
  <2>1. <<a>> \in Seq(Step) /\ Len(<<a>>) = 1
    BY <1>1
  <2>2. g \in Seq(Step) /\ Len(g) = Len(t.sys) + 1
    BY <1>2, <2>1, TwoParts
  <2>3. g # << >>
    BY <1>2, <2>2
  <2> HIDE DEF g
  <2> QED BY <2>2, <2>3
<1> HIDE DEF g
<1>4. <<Head(g)>> \in Seq(Step)
  BY <1>3
<1>5. (<<Head(g)>> \o t.task) \o t.steps \in Seq(Step)
  BY <1>2, <1>4, ThreeParts
<1> QED BY <1>5 DEF StepsToMessages, g, a

\* The actions to predict are steps, each behind others.
LEMMA TurnsType ==
  ASSUME NEW c \in Seq(Step), NEW n \in Nat
  PROVE  ContinuationTurns(c, n) \in Seq([history : Seq(Step), action : Step])
<1> DEFINE actions == At(c, "assistant")
           nth(d) == Nth(actions, d)
           m == Min({n, Cardinality(actions)})
<1>1. Len(c) \in Nat /\ DOMAIN c = 1..Len(c)
  OBVIOUS
<1>2. actions \in SUBSET (1..Len(c)) /\ actions \in SUBSET Nat
  BY <1>1 DEF At
<1>3. IsFiniteSet(actions) /\ Cardinality(actions) \in Nat
  <2> HIDE DEF actions
  <2> QED BY <1>1, <1>2, PositionsBound
<1>4. \A d \in 1..Cardinality(actions) : nth(d) \in actions
  <2> HIDE DEF actions
  <2> QED BY <1>2, <1>3, Ranked DEF Nth
<1> HIDE DEF actions
<1>5. m \in Nat /\ m <= Cardinality(actions)
  BY <1>3, MinOfTwo
<1> HIDE DEF m, nth
<1>6. \A d \in 1..m : nth(d) \in 1..Len(c)
  <2>1. \A d \in 1..m : d \in 1..Cardinality(actions)
    BY <1>3, <1>5
  <2> QED BY <1>2, <1>4, <2>1
<1>7. \A i \in 1..Len(c) : SubSeq(c, 1, i - 1) \in Seq(Step) /\ c[i] \in Step
  OBVIOUS
<1>8. ContinuationTurns(c, n)
        = [d \in 1..m |-> [history |-> SubSeq(c, 1, nth(d) - 1), action |-> c[nth(d)]]]
  BY DEF ContinuationTurns, m, nth, actions
<1> DEFINE T == [history : Seq(Step), action : Step]
<1>9. \A d \in 1..m :
        [history |-> SubSeq(c, 1, nth(d) - 1), action |-> c[nth(d)]] \in T
  BY <1>6, <1>7
<1> HIDE DEF T
<1>10. ContinuationTurns(c, n) \in [1..m -> T]
  BY <1>8, <1>9
<1>11. \A f \in [1..m -> T] : f \in Seq(T)
  BY <1>5
<1>12. ContinuationTurns(c, n) \in Seq(T)
  BY <1>10, <1>11
<1> QED BY <1>12 DEF T

-----------------------------------------------------------------------------
(* Cuts *)

\* A recorded run loads as a trajectory with one system prompt and one task.
LEMMA LoadedType ==
  ASSUME NEW run, Recorded(run)
  PROVE  /\ FromCollect(run) \in Trail
         /\ FromCollect(run).continuation = << >>
         /\ Len(FromCollect(run).sys) = 1 /\ Len(FromCollect(run).task) = 1
<1>1. run \in Seq(Step) /\ Len(run) \in Nat /\ DOMAIN run = 1..Len(run)
  <2>1. Thought \subseteq Thinking
    BY DEF Thought, Thinking
  <2>2. Message \union Thought \subseteq Step
    BY <2>1 DEF Step
  <2> HIDE DEF Step
  <2>3. run \in Seq(Message \union Thought)
    BY DEF Recorded
  <2>4. run \in Seq(Step)
    BY <2>2, <2>3
  <2> QED BY <2>4
<1>2. Selected(run, KeptPositions(run)) \in Seq(Step)
  <2>1. KeptPositions(run) \in SUBSET (DOMAIN run)
    BY DEF KeptPositions, At
  <2> QED BY <1>1, <2>1, SelectedType
<1>3. ASSUME NEW role, NEW i \in DOMAIN run, run[i].role = role
      PROVE  FirstOf(run, role) \in Seq(Step) /\ Len(FirstOf(run, role)) = 1
  <2> DEFINE P == At(run, role)
  <2>1. P # {} /\ P \subseteq 1..Len(run) /\ P \in SUBSET Nat
    BY <1>1, <1>3 DEF At
  <2>2. Min(P) \in P
    <3> HIDE DEF P
    <3>1. \E n \in P : \A m \in P : n <= m
      BY <2>1, Least
    <3> QED BY <3>1 DEF Min
  <2>3. FirstOf(run, role) = << run[Min(P)] >>
    BY <2>1 DEF FirstOf
  <2> HIDE DEF P
  <2>4. run[Min(P)] \in Step
    <3>1. Min(P) \in 1..Len(run)
      BY <2>1, <2>2
    <3> QED BY <1>1, <3>1
  <2> QED BY <2>3, <2>4
<1>4. 1 \in DOMAIN run /\ 2 \in DOMAIN run
  BY <1>1 DEF Recorded
<1>5. run[1].role = "system" /\ run[2].role = "user"
  BY DEF Recorded
<1>6. /\ FirstOf(run, "system") \in Seq(Step) /\ Len(FirstOf(run, "system")) = 1
      /\ FirstOf(run, "user") \in Seq(Step) /\ Len(FirstOf(run, "user")) = 1
  BY <1>3, <1>4, <1>5
<1>7. << >> \in Seq(Step)
  OBVIOUS
<1> QED BY <1>2, <1>6, <1>7 DEF FromCollect, Trail

\* A prefix and what is behind it.
LEMMA PrefixType ==
  ASSUME NEW t \in Trail, NEW n \in Nat, t.continuation = << >>
  PROVE  LET u == WithPrefix(t, n)
         IN  /\ u \in Trail /\ u.sys = << >> /\ u.task = t.task
             /\ u.steps = Take(t.steps, n) /\ u.continuation = From(t.steps, n)
<1>1. t.steps \in Seq(Step) /\ t.task \in Seq(Step)
  BY DEF Trail
<1>2. Take(t.steps, n) \in Seq(Step) /\ From(t.steps, n) \in Seq(Step)
  BY <1>1, TakeType, FromAny
<1>3. From(t.steps, n) \o t.continuation = From(t.steps, n)
  BY <1>2
<1>4. WithPrefix(t, n) = [t EXCEPT !.sys = << >>, !.steps = Take(t.steps, n),
                                   !.continuation = From(t.steps, n)]
  BY <1>3 DEF WithPrefix
<1>5. << >> \in Seq(Step)
  OBVIOUS
<1> QED BY <1>1, <1>2, <1>4, <1>5 DEF Trail

\* What ThresholdSplit leaves of the continuation: an even number of steps.
LEMMA CappedType ==
  ASSUME NEW t \in Trail, t.sys = << >>, NEW max \in Nat,
         NEW u \in ToSet(TruncateContinuation(t, max))
  PROVE  /\ u \in Trail /\ u.sys = << >> /\ u.task = t.task /\ u.steps = t.steps
         /\ \E k \in Nat : /\ k = TurnsThatFit(TurnLens(t.continuation), max)
                           /\ 2 * k <= Len(t.continuation)
                           /\ u.continuation = Take(t.continuation, 2 * k)
<1> DEFINE c == t.continuation
           lens == TurnLens(c)
           fit == {k \in DOMAIN lens : Reach(lens, k) <= max}
           kept == 2 * TurnsThatFit(lens, max)
<1>1. c \in Seq(Step) /\ Len(c) \in Nat /\ Len(c) \div 2 \in Nat /\ t.task \in Seq(Step)
      /\ t.steps \in Seq(Step)
  BY DEF Trail
<1>2. DOMAIN lens = 1..(Len(c) \div 2)
  BY DEF TurnLens
<1>3. fit \in SUBSET (1..(Len(c) \div 2))
  BY <1>2
<1>4. Cardinality(fit) \in 0..(Len(c) \div 2)
  <2> HIDE DEF fit
  <2> QED BY <1>1, <1>3, PositionsBound
<1>5. TurnsThatFit(lens, max) = Cardinality(fit)
  BY DEF TurnsThatFit
<1> DEFINE k == TurnsThatFit(lens, max)
<1>6. k \in Nat /\ 2 * k <= Len(c) /\ kept = 2 * k
  <2>1. \A n \in Nat : \A j \in 0..(n \div 2) : j \in Nat /\ 2 * j <= n
    OBVIOUS
  <2> HIDE DEF fit, lens
  <2>2. k \in 0..(Len(c) \div 2)
    BY <1>4, <1>5
  <2> QED BY <1>1, <2>1, <2>2
<1>7. Take(c, 2 * k) \in Seq(Step)
  <2> HIDE DEF k
  <2> QED BY <1>1, <1>6, TakeType
<1>8. kept # 0
  BY DEF TruncateContinuation, ToSet
<1>9. CASE kept = Len(c)
  <2>1. TruncateContinuation(t, max) = << t >>
    BY <1>8, <1>9 DEF TruncateContinuation
  <2>2. u = t
    BY <2>1 DEF ToSet
  <2>3. Take(c, 2 * k) = c
    <3> DEFINE w == Take(c, 2 * k)
    <3> HIDE DEF k
    <3>1. w \in Seq(Step) /\ Len(w) = Len(c) /\ \A i \in 1..Len(w) : w[i] = c[i]
      BY <1>1, <1>6, <1>9, TakeType
    <3> HIDE DEF w
    <3> QED BY <1>1, <3>1, SeqEqual DEF w
  <2> HIDE DEF k
  <2> QED BY <1>6, <2>2, <2>3 DEF k
<1>10. CASE kept # Len(c)
  <2> DEFINE v == [t EXCEPT !.sys = << >>, !.continuation = Take(c, kept)]
  <2>1. TruncateContinuation(t, max) = << v >>
    BY <1>8, <1>10 DEF TruncateContinuation
  <2>2. u = v
    <3> HIDE DEF v
    <3> QED BY <2>1 DEF ToSet
  <2>3. Take(c, kept) = Take(c, 2 * k)
    BY <1>6
  <2> HIDE DEF k, kept
  <2>4. << >> \in Seq(Step)
    OBVIOUS
  <2>5. v \in Trail /\ v.sys = << >> /\ v.task = t.task /\ v.steps = t.steps
        /\ v.continuation = Take(c, kept)
    BY <1>1, <1>7, <2>3, <2>4 DEF Trail
  <2> QED BY <1>6, <2>2, <2>3, <2>5 DEF k
<1> QED BY <1>9, <1>10

\* u is a cut of t behind n turns, its continuation all the rest or k turns.
CutOf(u, t, n, k) ==
  /\ u.steps = Take(t.steps, 2 * n)
  /\ LET rest == From(t.steps, 2 * n)
     IN  \/ u.continuation = rest
         \/ 2 * k <= Len(rest) /\ u.continuation = Take(rest, 2 * k)

\* The turns that reach the threshold.
ReachedAt(t) ==
  {j \in DOMAIN TurnLens(t.steps) : Reach(TurnLens(t.steps), j) >= SplitAt}

\* The trainer cuts behind the first of them and caps the rest.
LEMMA ThresholdCut ==
  ASSUME NEW t \in Trail, t.continuation = << >>,
         NEW u \in ToSet(ThresholdSplit(t, SplitAt, MinPrefix, MinSuffix,
                                       SplitAt - Budget))
  PROVE  \E n \in ReachedAt(t) :
           LET rest == From(t.steps, 2 * n)
           IN  /\ \A j \in ReachedAt(t) : n <= j
               /\ u \in Trail /\ u.sys = << >> /\ u.task = t.task
               /\ u.steps = Take(t.steps, 2 * n)
               /\ \E k \in Nat : /\ k = TurnsThatFit(TurnLens(rest), SplitAt - Budget)
                                 /\ 2 * k <= Len(rest)
                                 /\ u.continuation = Take(rest, 2 * k)
<1> DEFINE lens == TurnLens(t.steps)
           reached == {j \in DOMAIN lens : Reach(lens, j) >= SplitAt}
           n == Min(reached)
           w == WithPrefix(t, 2 * n)
           max == SplitAt - Budget
<1>1. max \in Nat /\ max > 0
  BY ScoringAssumption
<1>2. /\ reached # {}
      /\ ThresholdSplit(t, SplitAt, MinPrefix, MinSuffix, max) = TruncateContinuation(w, max)
  <2>1. CASE reached = {}
    BY <2>1 DEF ThresholdSplit, ToSet
  <2>2. CASE reached # {} /\ (n < MinPrefix \/ Len(lens) - n < MinSuffix)
    BY <2>2 DEF ThresholdSplit, ToSet
  <2>3. CASE reached # {} /\ ~(n < MinPrefix \/ Len(lens) - n < MinSuffix)
    <3> HIDE DEF w
    <3>1. ThresholdSplit(t, SplitAt, MinPrefix, MinSuffix, max)
            = IF max > 0 THEN TruncateContinuation(w, max) ELSE <<w>>
      BY <2>3 DEF ThresholdSplit, w
    <3> QED BY <1>1, <2>3, <3>1
  <2> QED BY <2>1, <2>2, <2>3
<1>3. reached \in SUBSET Nat
  <2>1. DOMAIN lens = 1..(Len(t.steps) \div 2) /\ Len(t.steps) \div 2 \in Nat
    <3>1. \A m \in Nat : m \div 2 \in Nat
      OBVIOUS
    <3>2. Len(t.steps) \in Nat
      BY DEF Trail
    <3> QED BY <3>1, <3>2 DEF TurnLens
  <2>2. reached \subseteq DOMAIN lens
    OBVIOUS
  <2>3. \A j \in DOMAIN lens : j \in Nat
    BY <2>1
  <2> HIDE DEF lens, reached
  <2> QED BY <2>2, <2>3
<1>4. n \in reached /\ \A j \in reached : n <= j
  <2> HIDE DEF reached
  <2> QED BY <1>2, <1>3, MinIn
<1>5. reached = ReachedAt(t)
  BY DEF ReachedAt
<1> HIDE DEF n, reached
<1>6. 2 * n \in Nat
  BY <1>3, <1>4
<1>7. /\ w \in Trail /\ w.sys = << >> /\ w.task = t.task
      /\ w.steps = Take(t.steps, 2 * n) /\ w.continuation = From(t.steps, 2 * n)
  BY <1>6, PrefixType
<1> HIDE DEF w
<1>8. u \in ToSet(TruncateContinuation(w, max))
  BY <1>2
<1> HIDE DEF max
<1>9. /\ u \in Trail /\ u.sys = << >> /\ u.task = w.task /\ u.steps = w.steps
      /\ \E k \in Nat : /\ k = TurnsThatFit(TurnLens(w.continuation), max)
                        /\ 2 * k <= Len(w.continuation)
                        /\ u.continuation = Take(w.continuation, 2 * k)
  BY <1>1, <1>7, <1>8, CappedType
<1> QED BY <1>4, <1>5, <1>7, <1>9 DEF max

\* Wherever a caller cuts, between turns.
LEMMA CutType ==
  ASSUME NEW t \in Trail, t.continuation = << >>, t = FromCollect(log),
         caller \in Callers, NEW u \in Cuts
  PROVE  /\ u \in Trail /\ u.task = t.task
         /\ u.sys = IF caller = "sweep" THEN t.sys ELSE << >>
         /\ \E n, k \in Nat : CutOf(u, t, n, k)
<1>1. /\ MinPrefix \in Nat /\ MinSuffix \in Nat /\ SplitAt - Budget \in Nat
      /\ SplitAt - Budget > 0 /\ caller \in {"random", "threshold", "sweep"}
  BY ScoringAssumption
<1>2. /\ t.steps \in Seq(Step) /\ Len(t.steps) \in Nat /\ t.sys \in Seq(Step)
      /\ Len(t.steps) \div 2 \in Nat
  <2>1. \A m \in Nat : m \div 2 \in Nat
    OBVIOUS
  <2> QED BY <2>1 DEF Trail
<1>3. ASSUME NEW n \in Nat
      PROVE  LET w == WithPrefix(t, 2 * n)
             IN  /\ w \in Trail /\ w.sys = << >> /\ w.task = t.task
                 /\ w.steps = Take(t.steps, 2 * n)
                 /\ w.continuation = From(t.steps, 2 * n)
  <2>1. 2 * n \in Nat
    OBVIOUS
  <2> QED BY <2>1, PrefixType
<1>4. CASE caller = "random"
  <2>1. PICK n \in Nat : u = WithPrefix(t, 2 * n)
    <3> DEFINE half == Len(t.steps) \div 2
               hi == IF MinPrefix > half - MinSuffix
                     THEN Max({MinPrefix, half \div 2}) ELSE half - MinSuffix
    <3>1. half \in Nat /\ half \div 2 \in Nat
      <4>1. \A m \in Nat : m \div 2 \in Nat
        OBVIOUS
      <4> QED BY <1>2, <4>1
    <3> HIDE DEF half
    <3>2. hi \in Int
      BY <1>1, <3>1, MaxOfTwo
    <3>3. \A n \in MinPrefix..hi : n \in Nat
      <4> HIDE DEF hi
      <4> QED BY <1>1, <3>2
    <3>4. u \in {WithPrefix(t, n) : n \in SampleCuts(t, MinPrefix, MinSuffix)}
      BY <1>4 DEF Cuts
    <3>5. PICK c \in SampleCuts(t, MinPrefix, MinSuffix) : u = WithPrefix(t, c)
      BY <3>4
    <3> HIDE DEF hi
    <3>6. PICK n \in MinPrefix..hi : c = 2 * n
      BY <3>5 DEF SampleCuts, half, hi
    <3> QED BY <3>3, <3>5, <3>6
  <2>2. CutOf(u, t, n, 0)
    BY <1>3, <2>1 DEF CutOf
  <2> QED BY <1>3, <1>4, <2>1, <2>2
<1>5. CASE caller = "threshold"
  <2>1. u \in ToSet(ThresholdSplit(t, SplitAt, MinPrefix, MinSuffix, SplitAt - Budget))
    BY <1>5 DEF Cuts
  <2>2. PICK n \in ReachedAt(t) :
          LET rest == From(t.steps, 2 * n)
          IN  /\ u \in Trail /\ u.sys = << >> /\ u.task = t.task
              /\ u.steps = Take(t.steps, 2 * n)
              /\ \E k \in Nat : /\ k = TurnsThatFit(TurnLens(rest), SplitAt - Budget)
                                /\ 2 * k <= Len(rest)
                                /\ u.continuation = Take(rest, 2 * k)
    BY <2>1, ThresholdCut
  <2>3. PICK k \in Nat : /\ 2 * k <= Len(From(t.steps, 2 * n))
                         /\ u.continuation = Take(From(t.steps, 2 * n), 2 * k)
    BY <2>2
  <2>4. n \in Nat
    BY <1>2 DEF ReachedAt, TurnLens
  <2>5. CutOf(u, t, n, k)
    BY <2>2, <2>3 DEF CutOf
  <2> QED BY <1>5, <2>2, <2>4, <2>5
<1>6. CASE caller = "sweep"
  <2> DEFINE cuts == SplitTurns(t, WindowMin, WindowMax, MinPrefix, MinSuffix)
  <2>1. \A n \in cuts : n \in Nat
    BY <1>2 DEF SplitTurns, TurnLens
  <2>2. PICK n \in cuts : u = [WithPrefix(t, 2 * n) EXCEPT !.sys = t.sys]
    BY <1>6 DEF Cuts
  <2> HIDE DEF cuts
  <2> DEFINE w == WithPrefix(t, 2 * n)
  <2>3. /\ w \in Trail /\ w.sys = << >> /\ w.task = t.task
        /\ w.steps = Take(t.steps, 2 * n) /\ w.continuation = From(t.steps, 2 * n)
    BY <1>3, <2>1
  <2> HIDE DEF w
  <2>4. /\ u \in Trail /\ u.task = w.task /\ u.sys = t.sys
        /\ u.steps = w.steps /\ u.continuation = w.continuation
    BY <1>2, <2>2, <2>3 DEF Trail, w
  <2>5. CutOf(u, t, n, 0)
    BY <2>3, <2>4 DEF CutOf
  <2> QED BY <1>6, <2>1, <2>3, <2>4, <2>5
<1> QED BY <1>1, <1>4, <1>5, <1>6

-----------------------------------------------------------------------------
(* The same tokens behind every context *)

\* An action to predict and what came before it.
Turn == [history : Seq(Step), action : Step]

\* The context a turn of the cut has.
ContextOf(turn) ==
  [history |-> turn.history, action |-> turn.action,
   x |-> StripReasoning(Partial \o turn.history),
   logprobs |-> XLogprobs(StripReasoning(Partial \o turn.history),
                          Generation(turn.action))]

\* The contexts of the first n actions.
FirstContexts(n) == [d \in 1..n |-> ContextOf(Actions[d])]

\* What the first n depths compare, whatever the candidate.
Compared(n) ==
  [d \in 1..n |-> LET y == ComparedTokens(contexts[d].action)
                  IN  [t \in DOMAIN y |-> <<y[t], y[t]>>]]

\* What is known of the cut and its contexts all along, when candidates are
\* scored included: it is one of the cuts, and the contexts are those of its
\* first actions.
CutsAsTold ==
  /\ caller \in Callers /\ log \in Runs
  /\ pc \in {"split", "dropped", "contexts", "score", "done"}
  /\ cut = << >> \/ \E u \in Cuts : cut = << u >>
  /\ pc \in {"contexts", "score"} => cut # << >>
  /\ pc \in {"split", "dropped"} => cut = << >>
  /\ IF cut = << >> THEN contexts = << >>
     ELSE \E n \in Nat : /\ 1..n \subseteq DOMAIN Actions
                        /\ contexts = FirstContexts(n)

\* A candidate has scored a number of depths, always on the compared tokens,
\* and a score that did not fail is that of all contexts.
ScoresAsTold ==
  /\ depths = [c \in Candidates |-> depths[c]]
  /\ score = [c \in Candidates |-> score[c]]
  /\ \A c \in Candidates :
       /\ \E n \in 0..Len(contexts) : depths[c] = Compared(n)
       /\ pc \in {"split", "contexts"} => depths[c] = << >> /\ score[c] = << >>
       /\ score[c] \notin {<< >>, << None >>} =>
            score[c] = << Compared(Len(contexts)) >>

\* The cut of a recorded run.
LEMMA CutFacts ==
  ASSUME caller \in Callers, log \in Runs, NEW u \in Cuts
  PROVE  LET t == FromCollect(log)
         IN  /\ t \in Trail /\ Len(t.sys) = 1 /\ Len(t.task) = 1
             /\ u \in Trail /\ u.task = t.task
             /\ u.sys = IF caller = "sweep" THEN t.sys ELSE << >>
             /\ \E n, k \in Nat : CutOf(u, t, n, k)
<1> DEFINE t == FromCollect(log)
<1>1. Recorded(log)
  BY ScoringAssumption
<1>2. /\ t \in Trail /\ t.continuation = << >>
      /\ Len(t.sys) = 1 /\ Len(t.task) = 1
  BY <1>1, LoadedType
<1>3. /\ u \in Trail /\ u.task = t.task
      /\ u.sys = IF caller = "sweep" THEN t.sys ELSE << >>
      /\ \E n, k \in Nat : CutOf(u, t, n, k)
  BY <1>2, CutType
<1> QED BY <1>2, <1>3

\* The actions of the cut, and its prefix as messages.
LEMMA ActionsType ==
  ASSUME NEW u \in Trail, cut = << u >>
  PROVE  Actions \in Seq(Turn) /\ Partial \in Seq(Step)
<1> DEFINE turns == ContinuationTurns(u.continuation, NTurns)
           m == Min({1, Len(turns)})
           one == [d \in 1..m |-> [turns[d] EXCEPT !.history = << >>]]
<1>1. cut[1] = u
  OBVIOUS
<1>2. Partial \in Seq(Step)
  BY <1>1, PartialType DEF Partial
<1>3. turns \in Seq(Turn)
  <2>1. u.continuation \in Seq(Step) /\ NTurns \in Nat
    BY ScoringAssumption DEF Trail
  <2> QED BY <2>1, TurnsType DEF Turn
<1>4. Actions = IF caller = "sweep" THEN one ELSE turns
  BY <1>1 DEF Actions
<1> HIDE DEF turns
<1>5. m \in Nat /\ m <= Len(turns) /\ Len(turns) \in Nat
  BY <1>3, MinOfTwo
<1>6. one \in [1..m -> Turn]
  <2>1. \A d \in 1..m : d \in 1..Len(turns)
    BY <1>5
  <2>2. \A d \in 1..m : turns[d] \in Turn
    <3> HIDE DEF m
    <3> QED BY <1>3, <2>1
  <2>3. << >> \in Seq(Step)
    OBVIOUS
  <2>4. \A v \in Turn : [v EXCEPT !.history = << >>] \in Turn
    BY <2>3 DEF Turn
  <2> HIDE DEF m
  <2> QED BY <2>2, <2>4
<1>7. one \in Seq(Turn)
  <2> HIDE DEF m, one
  <2> QED BY <1>5, <1>6
<1> QED BY <1>2, <1>3, <1>4, <1>7

\* A context holds steps, and the numbers of its own rendering.
LEMMA ContextType ==
  ASSUME Partial \in Seq(Step), NEW turn \in Turn
  PROVE  /\ ContextOf(turn).history \in Seq(Step)
         /\ ContextOf(turn).action \in Step
         /\ ContextOf(turn).x \in Seq(Step)
         /\ ContextOf(turn).logprobs
              = XLogprobs(ContextOf(turn).x, Generation(ContextOf(turn).action))
<1>1. turn.history \in Seq(Step) /\ turn.action \in Step
  BY DEF Turn
<1>2. Partial \o turn.history \in Seq(Step)
  BY <1>1, TwoParts
<1>3. StripReasoning(Partial \o turn.history) \in Seq(Step)
  BY <1>2, StripType
<1> QED BY <1>1, <1>3 DEF ContextOf

\* The compacted context of every candidate is made of steps.
LEMMA BaseZType ==
  ASSUME NEW u \in Trail, cut = << u >>, Partial \in Seq(Step),
         caller \in Callers, NEW c \in Candidates
  PROVE  BaseZ(c) \in Seq(Step)
<1>1. /\ SummarySizes \in SUBSET Nat /\ SummarySizes # {}
      /\ KeepFirst \in Nat /\ MaxSize \in Nat
      /\ \A spec \in Specs : spec.keepFirst \in Nat /\ spec.keepLast \in Nat
  BY CompactionAssumption, ScoringAssumption
<1>2. cut[1].steps = u.steps /\ u.steps \in Seq(Step)
  BY DEF Trail
<1> DEFINE covered == Known(u.steps)
           z(size) == SummaryAsToolTurn(size, covered)
<1>3. covered \in SUBSET Nat
  <2>1. \A i \in DOMAIN u.steps : u.steps[i] \in Step
    BY <1>2
  <2> QED BY <2>1, StepFields DEF Known, KnownAt
<1>4. \A size \in Nat : z(size) \in Seq(Step)
  <2> SUFFICES ASSUME NEW size \in Nat PROVE z(size) \in Seq(Step)
    OBVIOUS
  <2>1. z(size) = << SummaryCall, Digest("tool", size, covered) >>
    BY DEF SummaryAsToolTurn, SummaryCall, Digest
  <2>2. SummaryCall \in Message
    BY SummaryCallType
  <2>3. Digest("tool", size, covered) \in Message
    BY <1>3, InsertedType DEF Roles
  <2> QED BY <2>1, <2>2, <2>3 DEF Step
<1> HIDE DEF z, covered
<1>5. \A size \in Nat, kf \in Nat, l \in Int :
        LET s == SplitHeadTail(Partial, kf, l)
        IN  (s.head \o z(size)) \o s.tail \in Seq(Step)
  <2> SUFFICES ASSUME NEW size \in Nat, NEW kf \in Nat, NEW l \in Int
               PROVE  LET s == SplitHeadTail(Partial, kf, l)
                      IN  (s.head \o z(size)) \o s.tail \in Seq(Step)
    OBVIOUS
  <2> DEFINE s == SplitHeadTail(Partial, kf, l)
  <2>1. s.head \in Seq(Step) /\ s.tail \in Seq(Step)
    BY SplitType
  <2>2. z(size) \in Seq(Step)
    BY <1>4
  <2> HIDE DEF s
  <2>3. (s.head \o z(size)) \o s.tail \in Seq(Step)
    BY <2>1, <2>2, ThreeParts
  <2> QED BY <2>3 DEF s
<1>6. \A m \in Int : \A kf \in Nat : KeepTurns(m, kf) \in Int
  BY DEF KeepTurns
<1>7. CASE caller # "sweep"
  <2>1. c \in Nat /\ KeepTurns(MaxSize, KeepFirst) \in Int
    <3>1. c \in SummarySizes
      BY <1>7 DEF Candidates
    <3>2. MaxSize \in Int
      BY <1>1
    <3> QED BY <1>1, <1>6, <3>1, <3>2
  <2>2. BaseZ(c) = ZMessages(z(c), Partial, MaxSize, KeepFirst)
    BY <1>2, <1>7 DEF BaseZ, z, covered
  <2> QED BY <1>1, <1>5, <2>1, <2>2 DEF ZMessages
<1>8. CASE caller = "sweep"
  <2>1. c \in Specs /\ c.keepFirst \in Nat /\ c.keepLast \in Nat
    BY <1>1, <1>8 DEF Candidates
  <2>2. CASE c.mask
    <3>1. BaseZ(c) = MaskenvMessages(Partial, c.keepFirst, c.keepLast)
      BY <1>8, <2>2 DEF BaseZ
    <3> DEFINE s == SplitHeadTail(Partial, c.keepFirst, c.keepLast)
    <3>2. s.head \in Seq(Step) /\ s.middle \in Seq(Step) /\ s.tail \in Seq(Step)
      <4>1. c.keepLast \in Int /\ Partial \in Seq(Step)
        BY <1>1, <2>1
      <4> QED BY <2>1, <4>1, SplitType
    <3> HIDE DEF s
    <3>3. MaskEnv(s.middle) \in Seq(Step)
      BY <3>2, MaskEnvType
    <3>4. (s.head \o MaskEnv(s.middle)) \o s.tail \in Seq(Step)
      BY <3>2, <3>3, ThreeParts
    <3> QED BY <3>1, <3>4 DEF MaskenvMessages, s
  <2>3. CASE ~c.mask
    <3>1. BaseZ(c) = ZMessages(z(Min(SummarySizes)), Partial,
                               MaxSizeOf(c.keepFirst, c.keepLast), c.keepFirst)
      BY <1>2, <1>8, <2>3 DEF BaseZ, z, covered
    <3>2. Min(SummarySizes) \in Nat
      BY <1>1, MinIn
    <3>3. MaxSizeOf(c.keepFirst, c.keepLast) \in Int
      BY <2>1 DEF MaxSizeOf
    <3>4. KeepTurns(MaxSizeOf(c.keepFirst, c.keepLast), c.keepFirst) \in Int
      BY <1>6, <2>1, <3>3
    <3> QED BY <1>5, <2>1, <3>1, <3>2, <3>4 DEF ZMessages
  <2> QED BY <2>2, <2>3
<1> QED BY <1>7, <1>8

\* Both hold at the start.
LEMMA CutsInitially == Init => CutsAsTold /\ ScoresAsTold
<1> SUFFICES ASSUME Init PROVE CutsAsTold /\ ScoresAsTold
  OBVIOUS
<1>1. CutsAsTold
  BY DEF Init, CutsAsTold
<1>2. Compared(0) = << >>
  BY DEF Compared
<1>3. Len(contexts) = 0 /\ 0 \in 0..0
  BY DEF Init
<1>4. \A c \in Candidates : depths[c] = << >> /\ score[c] = << >>
  BY DEF Init
<1>5. /\ depths = [c \in Candidates |-> depths[c]]
      /\ score = [c \in Candidates |-> score[c]]
  BY DEF Init
<1> QED BY <1>1, <1>2, <1>3, <1>4, <1>5 DEF ScoresAsTold

\* The cut decides the contexts: they are not disturbed by what else happens.
LEMMA SameContexts ==
  ASSUME caller' = caller, cut' = cut, log' = log
  PROVE  /\ Actions' = Actions /\ Partial' = Partial /\ Cuts' = Cuts
         /\ Candidates' = Candidates
         /\ \A n : FirstContexts(n)' = FirstContexts(n)
BY DEF Actions, Partial, Cuts, Candidates, FirstContexts, ContextOf, Fits

\* One more context continues the list.
LEMMA OneMoreContext ==
  ASSUME NEW u \in Trail, cut = << u >>, NEW n \in Nat, n < Len(Actions)
  PROVE  /\ 1..(n + 1) \subseteq DOMAIN Actions
         /\ Append(FirstContexts(n), ContextOf(Actions[n + 1])) = FirstContexts(n + 1)
<1>1. Actions \in Seq(Turn) /\ Len(Actions) \in Nat
  BY ActionsType
<1> DEFINE S == {ContextOf(turn) : turn \in Turn}
           f == FirstContexts(n)
           e == ContextOf(Actions[n + 1])
           g == FirstContexts(n + 1)
<1>2. n + 1 \in 1..Len(Actions) /\ n \in Nat
  BY <1>1
<1>3. \A d \in 1..Len(Actions) : Actions[d] \in Turn
  BY <1>1
<1>4. f \in [1..n -> S] /\ g \in [1..(n + 1) -> S] /\ e \in S
  <2>1. \A d \in 1..(n + 1) : Actions[d] \in Turn
    <3>1. \A d \in 1..(n + 1) : d \in 1..Len(Actions)
      BY <1>1, <1>2
    <3> QED BY <1>3, <3>1
  <2>2. \A d \in 1..(n + 1) : ContextOf(Actions[d]) \in S
    BY <2>1
  <2>3. \A d \in 1..n : d \in 1..(n + 1)
    BY <1>2
  <2> HIDE DEF S
  <2> QED BY <1>2, <2>2, <2>3 DEF FirstContexts
<1>5. /\ \A d \in 1..n : f[d] = ContextOf(Actions[d])
      /\ \A d \in 1..(n + 1) : g[d] = ContextOf(Actions[d])
  BY DEF FirstContexts
<1> HIDE DEF f, e, g, S
<1>6. f \in Seq(S) /\ Len(f) = n /\ g \in Seq(S) /\ Len(g) = n + 1
  BY <1>2, <1>4
<1>7. Append(f, e) \in Seq(S) /\ Len(Append(f, e)) = n + 1
  BY <1>4, <1>6
<1>8. \A d \in 1..(n + 1) : Append(f, e)[d] = g[d]
  <2> SUFFICES ASSUME NEW d \in 1..(n + 1) PROVE Append(f, e)[d] = g[d]
    OBVIOUS
  <2>1. CASE d = n + 1
    <3>1. Append(f, e)[n + 1] = e
      BY <1>4, <1>6
    <3>2. g[n + 1] = ContextOf(Actions[n + 1])
      BY <1>5, <2>1
    <3> QED BY <2>1, <3>1, <3>2 DEF e
  <2>2. CASE d # n + 1
    <3>1. d \in 1..n
      BY <1>2, <2>2
    <3>2. Append(f, e)[d] = f[d]
      BY <1>4, <1>6, <3>1
    <3> QED BY <1>5, <3>1, <3>2
  <2> QED BY <2>1, <2>2
<1>9. Append(f, e) = g
  BY <1>6, <1>7, <1>8, SeqEqual
<1> QED BY <1>2, <1>1, <1>9 DEF f, e, g

\* Every step keeps the cut and its contexts.
LEMMA CutsStep == CutsAsTold /\ [Next]_vars => CutsAsTold'
<1> SUFFICES ASSUME CutsAsTold, [Next]_vars PROVE CutsAsTold'
  OBVIOUS
<1> USE DEF CutsAsTold
<1>1. CASE caller' = caller /\ cut' = cut /\ log' = log /\ contexts' = contexts
             /\ pc' \in {"dropped", "score", "done", pc}
             /\ (pc' = "dropped" => cut = << >>)
             /\ (pc' = "score" => cut # << >>)
  BY <1>1, SameContexts
<1>2. CASE Split
  <2>1. /\ caller' = caller /\ log' = log /\ pc' = "contexts"
        /\ contexts' = contexts /\ contexts = << >>
    BY <1>2 DEF Split
  <2>2. PICK u \in Cuts : cut' = << u >>
    BY <1>2 DEF Split
  <2>3. Cuts' = Cuts
    BY <2>1 DEF Cuts, Fits
  <2>4. contexts' = FirstContexts(0)'
    BY <2>1 DEF FirstContexts
  <2>5. 1..0 \subseteq DOMAIN Actions' /\ 0 \in Nat
    OBVIOUS
  <2> QED BY <2>1, <2>2, <2>3, <2>4, <2>5
<1>3. CASE PrecomputeContext
  <2>1. /\ caller' = caller /\ cut' = cut /\ log' = log /\ pc' = pc
        /\ pc = "contexts" /\ Len(contexts) < Len(Actions)
        /\ contexts' = Append(contexts, ContextOf(Actions[Len(contexts) + 1]))
    BY <1>3 DEF PrecomputeContext, ContextOf, NextAction, XMessages
  <2>2. PICK u \in Cuts : cut = << u >>
    BY <2>1
  <2>3. PICK n \in Nat : 1..n \subseteq DOMAIN Actions /\ contexts = FirstContexts(n)
    BY <2>1
  <2>4. u \in Trail
    BY CutFacts
  <2>5. Len(contexts) = n
    BY <2>3 DEF FirstContexts
  <2>6. /\ 1..(n + 1) \subseteq DOMAIN Actions
        /\ contexts' = FirstContexts(n + 1)
    BY <2>1, <2>2, <2>3, <2>4, <2>5, OneMoreContext
  <2>7. Actions' = Actions /\ contexts' = FirstContexts(n + 1)' /\ Cuts' = Cuts
    BY <2>1, <2>6, SameContexts
  <2>8. n + 1 \in Nat
    OBVIOUS
  <2>9. cut' # << >> /\ (\E w \in Cuts' : cut' = << w >>)
    BY <2>1, <2>2, <2>7
  <2> HIDE DEF CutsAsTold
  <2>10. caller \in Callers /\ log \in Runs
    BY DEF CutsAsTold
  <2> QED BY <2>1, <2>6, <2>7, <2>8, <2>9, <2>10 DEF CutsAsTold
<1>4. CASE UNCHANGED vars
  BY <1>1, <1>4 DEF vars
<1>5. CASE Drop
  BY <1>1, <1>5 DEF Drop
<1>6. CASE EndContexts
  BY <1>1, <1>6 DEF EndContexts
<1>7. CASE End
  BY <1>1, <1>7 DEF End
<1>8. ASSUME NEW c \in Candidates, ScoreDepth(c) \/ ScoringFails(c) \/ Scored(c)
      PROVE  CutsAsTold'
  BY <1>1, <1>8 DEF ScoreDepth, ScoringFails, Scored
<1> QED BY <1>2, <1>3, <1>4, <1>5, <1>6, <1>7, <1>8 DEF Next

\* Every step keeps the scores.
LEMMA ScoresStep == CutsAsTold /\ ScoresAsTold /\ [Next]_vars => ScoresAsTold'
<1> SUFFICES ASSUME CutsAsTold, ScoresAsTold, [Next]_vars PROVE ScoresAsTold'
  OBVIOUS
\* The contexts are not disturbed.
<1>1. ASSUME caller' = caller, contexts' = contexts
      PROVE  /\ Candidates' = Candidates /\ Len(contexts') = Len(contexts)
             /\ \A n : Compared(n)' = Compared(n)
  BY <1>1 DEF Candidates, Compared
<1>2. CASE UNCHANGED <<caller, contexts, depths, score>>
             /\ (pc' \in {"split", "contexts"} => pc \in {"split", "contexts"})
  <2>1. Candidates' = Candidates /\ \A n : Compared(n)' = Compared(n)
    BY <1>1, <1>2
  <2> QED BY <1>2, <2>1 DEF ScoresAsTold
<1>3. CASE PrecomputeContext
  <2>1. /\ caller' = caller /\ depths' = depths /\ score' = score /\ pc' = pc
        /\ pc = "contexts"
    BY <1>3 DEF PrecomputeContext
  <2>2. Candidates' = Candidates
    BY <2>1 DEF Candidates
  <2>3. \A c \in Candidates : depths[c] = << >> /\ score[c] = << >>
    BY <2>1 DEF ScoresAsTold
  <2>4. Compared(0)' = << >>
    BY DEF Compared
  <2>5. Len(contexts') \in Nat
    <3>1. PICK n \in Nat : contexts = FirstContexts(n)
      BY <2>1 DEF CutsAsTold
    <3>2. PICK m \in Nat : contexts' = FirstContexts(m)'
      <4>1. CutsAsTold'
        BY CutsStep
      <4>2. cut' # << >>
        BY <4>1, <2>1 DEF CutsAsTold
      <4> QED BY <4>1, <4>2 DEF CutsAsTold
    <3>3. Len(contexts') = m
      BY <3>2 DEF FirstContexts
    <3> QED BY <3>3
  <2>6. 0 \in 0..Len(contexts')
    BY <2>5
  <2> QED BY <2>1, <2>2, <2>3, <2>4, <2>6 DEF ScoresAsTold
<1>4. CASE EndContexts
  <2>1. UNCHANGED <<caller, contexts, depths>> /\ pc' \in {"done", "score"}
        /\ (score' = score \/ score' = [c \in Candidates |-> << None >>])
    BY <1>4 DEF EndContexts
  <2>2. Candidates' = Candidates /\ \A n : Compared(n)' = Compared(n)
    BY <1>1, <2>1
  <2>3. /\ score' = [c \in Candidates |-> score'[c]]
        /\ \A c \in Candidates : score'[c] \in {score[c], << None >>}
    BY <2>1 DEF ScoresAsTold
  <2> QED BY <2>1, <2>2, <2>3 DEF ScoresAsTold
<1>5. ASSUME NEW c \in Candidates, ScoreDepth(c)
      PROVE  ScoresAsTold'
  <2> DEFINE d == Len(depths[c]) + 1
             k == contexts[d]
             more == Differences(k.logprobs, ZAt(c, d), Generation(k.action))
  <2>1. /\ UNCHANGED <<caller, log, pc, cut, contexts, score>> /\ pc = "score"
        /\ Len(depths[c]) < Len(contexts)
        /\ depths' = [depths EXCEPT ![c] = Append(@, more)]
    BY <1>5 DEF ScoreDepth
  <2>2. PICK n \in 0..Len(contexts) : depths[c] = Compared(n)
    BY DEF ScoresAsTold
  <2>3. PICK u \in Cuts : cut = << u >>
    BY <2>1 DEF CutsAsTold
  <2>4. u \in Trail
    BY CutFacts DEF CutsAsTold
  <2>5. Actions \in Seq(Turn) /\ Partial \in Seq(Step)
    BY <2>3, <2>4, ActionsType
  <2>6. PICK m \in Nat : 1..m \subseteq DOMAIN Actions /\ contexts = FirstContexts(m)
    BY <2>1, <2>3 DEF CutsAsTold
  <2>7. Len(contexts) = m /\ DOMAIN contexts = 1..m
    BY <2>6 DEF FirstContexts
  <2>8. Len(depths[c]) = n /\ n \in Nat
    BY <2>2, <2>7 DEF Compared
  <2>9. d \in 1..m /\ d = n + 1
    BY <2>1, <2>7, <2>8
  <2>10. Actions[d] \in Turn
    BY <2>5, <2>6, <2>9
  <2>11. k = ContextOf(Actions[d])
    BY <2>6, <2>9 DEF FirstContexts
  <2>12. /\ k.history \in Seq(Step) /\ k.action \in Step /\ k.x \in Seq(Step)
         /\ k.logprobs = XLogprobs(k.x, Generation(k.action))
    BY <2>5, <2>10, <2>11, ContextType
  <2>13. ZAt(c, d) \in Seq(Step)
    <3>1. BaseZ(c) \in Seq(Step)
      BY <2>3, <2>4, <2>5, BaseZType DEF CutsAsTold
    <3>2. BaseZ(c) \o k.history \in Seq(Step)
      BY <2>12, <3>1, TwoParts
    <3> QED BY <3>2, StripType DEF ZAt
  <2> DEFINE y == ComparedTokens(k.action)
             pairs == [t \in DOMAIN y |-> <<y[t], y[t]>>]
  <2>14. more = pairs
    <3> DEFINE x == k.x
               z == ZAt(c, d)
               a == k.action
    <3>1. x \in Seq(Step) /\ z \in Seq(Step) /\ a \in Step
      BY <2>12, <2>13
    <3>2. more = Differences(XLogprobs(x, Generation(a)), z, Generation(a))
      BY <2>12
    <3>3. pairs = [t \in DOMAIN ComparedTokens(a) |->
                     <<ComparedTokens(a)[t], ComparedTokens(a)[t]>>]
      OBVIOUS
    <3> HIDE DEF x, z, a, more, pairs
    <3>4. Differences(XLogprobs(x, Generation(a)), z, Generation(a))
            = [t \in DOMAIN ComparedTokens(a) |->
                 <<ComparedTokens(a)[t], ComparedTokens(a)[t]>>]
      BY <3>1, SameDifferences
    <3> QED BY <3>2, <3>3, <3>4
  <2>15. Append(Compared(n), pairs) = Compared(n + 1)
    <3> DEFINE Pairs(i) == LET w == ComparedTokens(contexts[i].action)
                           IN  [t \in DOMAIN w |-> <<w[t], w[t]>>]
               S == {Pairs(i) : i \in 1..(n + 1)}
               f == Compared(n)
               g == Compared(n + 1)
    <3>1. f = [i \in 1..n |-> Pairs(i)] /\ g = [i \in 1..(n + 1) |-> Pairs(i)]
          /\ pairs = Pairs(n + 1)
      BY <2>9 DEF Compared
    <3> HIDE DEF Pairs, pairs, f, g
    <3>2. f \in [1..n -> S] /\ g \in [1..(n + 1) -> S] /\ pairs \in S
      <4>1. n + 1 \in 1..(n + 1) /\ \A i \in 1..n : i \in 1..(n + 1)
        BY <2>8
      <4>2. \A i \in 1..(n + 1) : Pairs(i) \in S
        OBVIOUS
      <4> HIDE DEF S
      <4> QED BY <3>1, <4>1, <4>2
    <3> HIDE DEF S
    <3>3. f \in Seq(S) /\ Len(f) = n /\ g \in Seq(S) /\ Len(g) = n + 1
      BY <2>8, <3>2
    <3>4. Append(f, pairs) \in Seq(S) /\ Len(Append(f, pairs)) = n + 1
      BY <3>2, <3>3
    <3>5. \A i \in 1..(n + 1) : Append(f, pairs)[i] = g[i]
      <4> SUFFICES ASSUME NEW i \in 1..(n + 1) PROVE Append(f, pairs)[i] = g[i]
        OBVIOUS
      <4>1. CASE i = n + 1
        BY <3>1, <3>2, <3>3, <4>1
      <4>2. CASE i # n + 1
        <5>1. i \in 1..n
          BY <2>8, <4>2
        <5>2. Append(f, pairs)[i] = f[i]
          BY <3>2, <3>3, <5>1
        <5> QED BY <3>1, <5>1, <5>2
      <4> QED BY <4>1, <4>2
    <3>6. Append(f, pairs) = g
      BY <3>3, <3>4, <3>5, SeqEqual
    <3> QED BY <3>6 DEF f, g
  <2> HIDE DEF more, pairs, k, d, y
  <2>16. /\ depths' = [e \in Candidates |-> IF e = c THEN Compared(n + 1) ELSE depths[e]]
    BY <2>1, <2>2, <2>14, <2>15 DEF ScoresAsTold
  <2>17. Candidates' = Candidates /\ \A i : Compared(i)' = Compared(i)
    BY <1>1, <2>1
  <2>18. n + 1 \in 0..Len(contexts)
    BY <2>7, <2>8, <2>9
  <2>19. \A e \in Candidates : \E i \in 0..Len(contexts) : depths'[e] = Compared(i)
    BY <2>16, <2>18 DEF ScoresAsTold
  <2>20. depths' = [e \in Candidates |-> depths'[e]]
    BY <2>16
  <2> QED BY <2>1, <2>17, <2>19, <2>20 DEF ScoresAsTold
<1>6. ASSUME NEW c \in Candidates, ScoringFails(c) \/ Scored(c)
      PROVE  ScoresAsTold'
  <2>1. UNCHANGED <<caller, log, pc, cut, contexts, depths>> /\ pc = "score"
    BY <1>6 DEF ScoringFails, Scored
  <2>2. PICK v : /\ score' = [score EXCEPT ![c] = v]
                 /\ v = << None >> \/ v = << Compared(Len(contexts)) >>
    <3>1. CASE ScoringFails(c)
      BY <3>1 DEF ScoringFails, FailedScore
    <3>2. CASE Scored(c)
      <4>1. PICK n \in 0..Len(contexts) : depths[c] = Compared(n)
        BY DEF ScoresAsTold
      <4>2. Len(Compared(n)) = n
        BY <4>1 DEF Compared
      <4>3. depths[c] = Compared(Len(contexts))
        BY <3>2, <4>1, <4>2 DEF Scored
      <4> QED BY <3>2, <4>3 DEF Scored
    <3> QED BY <1>6, <3>1, <3>2
  <2>3. Candidates' = Candidates /\ \A i : Compared(i)' = Compared(i)
    BY <1>1, <2>1
  <2>4. score' = [e \in Candidates |-> IF e = c THEN v ELSE score[e]]
    BY <2>2 DEF ScoresAsTold
  <2>5. score' = [e \in Candidates |-> score'[e]]
    BY <2>4
  <2>6. \A e \in Candidates : score'[e] \notin {<< >>, << None >>} =>
          score'[e] = << Compared(Len(contexts)) >>
    BY <2>2, <2>4 DEF ScoresAsTold
  <2> QED BY <2>1, <2>3, <2>5, <2>6 DEF ScoresAsTold
<1>7. CASE UNCHANGED vars
  BY <1>2, <1>7 DEF vars
<1>8. CASE Drop
  BY <1>2, <1>8 DEF Drop
<1>9. CASE Split
  BY <1>2, <1>9 DEF Split
<1>10. CASE End
  BY <1>2, <1>10 DEF End
<1> QED BY <1>3, <1>4, <1>5, <1>6, <1>7, <1>8, <1>9, <1>10 DEF Next

\* Whatever is scored and whatever fails, a candidate that has a score has it
\* for the tokens of the actions, each against itself, at all the depths.
THEOREM ScoresCompareTheSame == Spec => []SameTokens
<1>1. CutsAsTold /\ ScoresAsTold => SameTokens
  <2> SUFFICES ASSUME CutsAsTold, ScoresAsTold PROVE SameTokens
    OBVIOUS
  <2>1. DOMAIN contexts = 1..Len(contexts)
    <3>1. CASE cut = << >>
      BY <3>1 DEF CutsAsTold
    <3>2. CASE cut # << >>
      <4>1. PICK n \in Nat : contexts = FirstContexts(n)
        BY <3>2 DEF CutsAsTold
      <4>2. Len(contexts) = n /\ DOMAIN contexts = 1..n
        BY <4>1 DEF FirstContexts
      <4> QED BY <4>2
    <3> QED BY <3>1, <3>2
  <2> QED BY <2>1 DEF ScoresAsTold, SameTokens, Compared
<1>2. CutsAsTold /\ ScoresAsTold /\ [Next]_vars => (CutsAsTold /\ ScoresAsTold)'
  BY CutsStep, ScoresStep
<1> QED BY CutsInitially, <1>1, <1>2, PTL DEF Spec

-----------------------------------------------------------------------------
(* The turns of a run *)

\* Parity, by a half.
Odd(k) == \E h \in Nat : k = 2 * h + 1

Even(k) == \E h \in Nat : k = 2 * h

\* Parity, by the remainder.
LEMMA ByRemainder ==
  ASSUME NEW k \in Nat
  PROVE  (Odd(k) <=> k % 2 = 1) /\ (Even(k) <=> k % 2 = 0)
<1>1. k % 2 = 1 => k = 2 * (k \div 2) + 1 /\ k \div 2 \in Nat
  OBVIOUS
<1>2. \A h \in Nat : (2 * h + 1) % 2 = 1
  OBVIOUS
<1>3. k % 2 = 0 => k = 2 * (k \div 2) /\ k \div 2 \in Nat
  OBVIOUS
<1>4. \A h \in Nat : (2 * h) % 2 = 0
  OBVIOUS
<1> QED BY <1>1, <1>2, <1>3, <1>4 DEF Odd, Even

\* Parity changes from a number to the next.
LEMMA ParityBefore ==
  ASSUME NEW k \in Nat \ {0}
  PROVE  /\ Odd(k - 1) => Even(k)
         /\ Even(k - 1) => Odd(k)
         /\ Even(k) => Odd(k - 1)
         /\ Odd(k) => Even(k - 1)
<1>1. k - 1 \in Nat /\ k \in Nat
  OBVIOUS
<1>2. /\ (k - 1) % 2 = 1 => k % 2 = 0
      /\ (k - 1) % 2 = 0 => k % 2 = 1
      /\ k % 2 = 0 => (k - 1) % 2 = 1
      /\ k % 2 = 1 => (k - 1) % 2 = 0
  OBVIOUS
<1> QED BY <1>1, <1>2, ByRemainder

\* Every number has one parity.
LEMMA Parity ==
  /\ \A k \in Nat : Odd(k) \/ Even(k)
  /\ \A k \in Nat : ~(Odd(k) /\ Even(k))
  /\ \A k \in Nat : Odd(k) => Even(k + 1)
  /\ \A k, n \in Nat : /\ Odd(2 * n + k) <=> Odd(k)
                       /\ Even(2 * n + k) <=> Even(k)
  /\ \A n \in Nat : Even(2 * n)
<1>1. \A k \in Nat : (k % 2 = 0 \/ k % 2 = 1) /\ (k % 2 = 1 => (k + 1) % 2 = 0)
  OBVIOUS
<1>2. \A k, n \in Nat : (2 * n + k) % 2 = k % 2 /\ 2 * n + k \in Nat
  OBVIOUS
<1>3. \A n \in Nat : Even(2 * n)
  BY DEF Even
<1>4. /\ \A k \in Nat : Odd(k) \/ Even(k)
      /\ \A k \in Nat : ~(Odd(k) /\ Even(k))
      /\ \A k \in Nat : Odd(k) => Even(k + 1)
  <2> SUFFICES ASSUME NEW k \in Nat
               PROVE  /\ Odd(k) \/ Even(k)
                      /\ ~(Odd(k) /\ Even(k))
                      /\ Odd(k) => Even(k + 1)
    OBVIOUS
  <2>1. k + 1 \in Nat
    OBVIOUS
  <2> QED BY <1>1, <2>1, ByRemainder
<1>5. \A k, n \in Nat : /\ Odd(2 * n + k) <=> Odd(k)
                        /\ Even(2 * n + k) <=> Even(k)
  BY <1>2, ByRemainder
<1> QED BY <1>3, <1>4, <1>5

\* What is kept of a run alternates: a call, then its result.
Alternates(S, P) ==
  \A k \in 1..Len(S) :
    /\ Odd(k) => S[k].role = "assistant"
    /\ Even(k) => /\ S[k].role = "tool" /\ S[k].of = S[k - 1].id
                  /\ S[k - 1].role = "assistant"

\* The kept steps of a recorded run.
LEMMA RunAlternates ==
  ASSUME NEW run, Recorded(run)
  PROVE  LET P == KeptPositions(run)
             S == FromCollect(run).steps
         IN  /\ P \in SUBSET (DOMAIN run) /\ S = Selected(run, P)
             /\ run \in Seq(Step) /\ Len(S) = Cardinality(P)
             /\ \A k \in 1..Len(S) : S[k] = run[Nth(P, k)] /\ S[k].id = Nth(P, k)
             /\ Alternates(S, P)
<1> DEFINE P == KeptPositions(run)
           calls == {i \in At(run, "assistant") : run[i].calls > 0}
           S == FromCollect(run).steps
           n == Cardinality(P)
           nth(k) == Nth(P, k)
<1>1. run \in Seq(Step) /\ Len(run) \in Nat /\ DOMAIN run = 1..Len(run)
  <2>1. Thought \subseteq Thinking
    BY DEF Thought, Thinking
  <2>2. Message \union Thought \subseteq Step
    BY <2>1 DEF Step
  <2> HIDE DEF Step
  <2>3. run \in Seq(Message \union Thought)
    BY DEF Recorded
  <2>4. run \in Seq(Step)
    BY <2>2, <2>3
  <2> QED BY <2>4
<1>2. S = Selected(run, P) /\ P \in SUBSET (DOMAIN run)
  BY DEF FromCollect, KeptPositions, At
<1>3. /\ calls \in SUBSET P
      /\ \A i \in calls : run[i].role = "assistant" /\ run[i].calls > 0
      /\ \A i \in P : i \in calls \/ (run[i].role = "tool" /\ i - 1 \in calls)
      /\ \A i \in calls : i + 1 \in DOMAIN run /\ run[i + 1].role = "tool" => i + 1 \in P
  <2>0. P = calls \union {i \in At(run, "tool") : i - 1 \in calls}
    BY DEF KeptPositions
  <2>1. \A i \in calls : run[i].role = "assistant" /\ run[i].calls > 0 /\ i \in Nat
    BY <1>1 DEF At
  <2> HIDE DEF calls, P
  <2>2. \A i \in P : i \in calls \/ (run[i].role = "tool" /\ i - 1 \in calls)
    BY <2>0 DEF At
  <2>3. \A i \in calls : i + 1 \in DOMAIN run /\ run[i + 1].role = "tool" => i + 1 \in P
    <3>1. \A i \in calls : (i + 1) - 1 \in calls
      <4>1. \A i \in Nat : (i + 1) - 1 = i
        OBVIOUS
      <4> QED BY <2>1, <4>1
    <3>2. \A j \in DOMAIN run : run[j].role = "tool" /\ j - 1 \in calls => j \in P
      BY <2>0 DEF At
    <3> QED BY <3>1, <3>2
  <2>4. calls \in SUBSET P
    BY <2>0
  <2> QED BY <2>1, <2>2, <2>3, <2>4
<1>4. \A i \in DOMAIN run :
        /\ run[i].id = i
        /\ run[i].role = "assistant" /\ run[i].calls > 0 /\ i < Len(run) =>
             run[i + 1].role = "tool" /\ run[i + 1].of = i
  BY DEF Recorded
<1>14. \A i \in P : i \in calls \/ (run[i].role = "tool" /\ i - 1 \in calls)
  <2>1. P = calls \union {i \in At(run, "tool") : i - 1 \in calls}
    BY DEF KeptPositions
  <2> HIDE DEF calls, P
  <2> QED BY <2>1 DEF At
<1> HIDE DEF calls, P, S
<1>5. /\ P \in SUBSET Nat /\ IsFiniteSet(P) /\ n \in Nat /\ Len(S) = n
      /\ \A k \in 1..n : S[k] = run[nth(k)]
  BY <1>1, <1>2, SelectedAt
<1>6. /\ \A k \in 1..n : nth(k) \in P
      /\ \A j, k \in 1..n : j < k => nth(j) < nth(k)
      /\ \A k \in 1..n, i \in P : /\ k = 1 => nth(1) <= i
                                  /\ k > 1 /\ i > nth(k - 1) => nth(k) <= i
  BY <1>5, NthOrder
<1> HIDE DEF n, nth
<1>7. \A i \in P : i \in Nat /\ i \in DOMAIN run /\ run[i].id = i
  BY <1>2, <1>4, <1>5
<1>8. \A i \in calls : run[i].role # "tool" /\ run[i].role = "assistant"
  BY <1>3
\* The positions alternate as well, each result right behind its call.
<1> DEFINE Good(k) == /\ Odd(k) => nth(k) \in calls
                      /\ Even(k) => /\ nth(k - 1) \in calls /\ run[nth(k)].role = "tool"
                                    /\ nth(k) = nth(k - 1) + 1 /\ nth(k) \in P
           Bad == {k \in 1..n : ~Good(k)}
<1>9. Bad = {}
  <2> SUFFICES ASSUME Bad # {} PROVE FALSE
    OBVIOUS
  <2>1. PICK k \in Bad : \A j \in Bad : k <= j
    <3>1. Bad \in SUBSET Nat
      BY <1>5
    <3> HIDE DEF Bad
    <3> QED BY <3>1, Least
  <2>2. k \in 1..n /\ k \in Nat \ {0} /\ ~Good(k)
    BY <1>5, <2>1
  <2>3. nth(k) \in P /\ nth(k) \in Nat
    BY <1>6, <1>7, <2>2
  <2>4. ASSUME k > 1 PROVE k - 1 \in 1..n /\ Good(k - 1) /\ nth(k - 1) < nth(k)
    <3>1. k - 1 \in 1..n /\ k - 1 < k /\ ~(k <= k - 1)
      BY <1>5, <2>2, <2>4
    <3>2. k - 1 \notin Bad
      BY <2>1, <3>1
    <3> HIDE DEF Good
    <3>3. Good(k - 1)
      BY <3>1, <3>2
    <3> QED BY <1>6, <2>2, <3>1, <3>3
  <2> HIDE DEF Bad
  <2>5. CASE Odd(k)
    <3>1. ~Even(k) /\ (k > 1 => Even(k - 1))
      BY <2>2, <2>5, Parity, ParityBefore
    <3>2. nth(k) \notin calls
      BY <2>2, <3>1
    <3>3. run[nth(k)].role = "tool" /\ nth(k) - 1 \in calls /\ nth(k) - 1 \in P
      <4>1. nth(k) \in calls \/ (run[nth(k)].role = "tool" /\ nth(k) - 1 \in calls)
        BY <1>14, <2>3
      <4> QED BY <1>3, <3>2, <4>1
    <3>4. CASE k = 1
      <4>1. nth(1) <= nth(k) - 1
        BY <1>6, <2>2, <3>3, <3>4
      <4> QED BY <2>3, <3>4, <4>1
    <3>5. CASE k > 1
      <4>1. /\ k - 1 \in 1..n /\ nth(k - 1) < nth(k)
            /\ run[nth(k - 1)].role = "tool" /\ nth(k - 1) \in P
        BY <2>4, <3>1, <3>5
      <4>2. nth(k - 1) # nth(k) - 1
        BY <1>8, <3>3, <4>1
      <4>3. nth(k) - 1 > nth(k - 1)
        BY <1>7, <2>3, <4>1, <4>2
      <4>4. nth(k) <= nth(k) - 1
        BY <1>6, <2>2, <3>3, <3>5, <4>3
      <4> QED BY <2>3, <4>4
    <3> QED BY <2>2, <3>4, <3>5
  <2>6. CASE Even(k)
    <3>1. ~Odd(k) /\ Odd(k - 1)
      BY <2>2, <2>6, Parity, ParityBefore
    <3>2. k > 1
      <4>1. k # 1
        BY <2>6 DEF Even
      <4> QED BY <2>2, <4>1
    <3>3. /\ nth(k - 1) \in calls /\ nth(k - 1) < nth(k) /\ nth(k - 1) \in P
          /\ nth(k - 1) \in Nat
      BY <1>3, <1>7, <2>4, <3>1, <3>2
    <3> DEFINE i == nth(k - 1)
    <3>4. i + 1 \in DOMAIN run /\ i < Len(run)
      <4>1. nth(k) \in 1..Len(run)
        BY <1>1, <1>7, <2>3
      <4> QED BY <1>1, <2>3, <3>3, <4>1
    <3>5. run[i + 1].role = "tool" /\ i + 1 \in P
      BY <1>3, <1>4, <1>7, <3>3, <3>4
    <3>6. nth(k) <= i + 1
      <4>1. i + 1 > nth(k - 1)
        BY <3>3
      <4> QED BY <1>6, <2>2, <3>2, <3>5, <4>1
    <3>7. nth(k) = i + 1
      BY <2>3, <3>3, <3>6
    <3> QED BY <2>2, <3>1, <3>3, <3>5, <3>7
  <2> QED BY <2>2, <2>5, <2>6, Parity
<1>10. \A k \in 1..n : Good(k)
  BY <1>9
<1>11. ASSUME NEW k \in 1..n
       PROVE  /\ Odd(k) => S[k].role = "assistant"
              /\ Even(k) => /\ S[k].role = "tool" /\ S[k].of = S[k - 1].id
                            /\ S[k - 1].role = "assistant"
  <2>1. CASE Odd(k)
    <3>1. ~Even(k)
      BY <1>5, <2>1, Parity
    <3> QED BY <1>5, <1>8, <1>10, <2>1, <3>1
  <2>2. CASE Even(k)
    <3>1. ~Odd(k) /\ k - 1 \in 1..n
      <4>1. k # 1
        BY <2>2 DEF Even
      <4> QED BY <1>5, <2>2, <4>1, Parity
    <3>2. /\ nth(k - 1) \in calls /\ run[nth(k)].role = "tool"
          /\ nth(k) = nth(k - 1) + 1 /\ nth(k) \in P
      BY <1>10, <2>2
    <3>3. S[k] = run[nth(k - 1) + 1] /\ S[k - 1] = run[nth(k - 1)]
      BY <1>5, <3>1, <3>2
    <3>4. run[nth(k - 1) + 1].of = nth(k - 1)
      <4>1. nth(k - 1) \in P /\ nth(k - 1) \in DOMAIN run /\ nth(k - 1) \in Nat
        BY <1>3, <1>7, <3>2
      <4>2. nth(k - 1) < Len(run)
        BY <1>1, <1>7, <3>2, <4>1
      <4> QED BY <1>3, <1>4, <3>2, <4>1, <4>2
    <3>5. S[k - 1].id = nth(k - 1)
      BY <1>3, <1>7, <3>2, <3>3
    <3> QED BY <1>8, <3>1, <3>2, <3>3, <3>4, <3>5
  <2> QED BY <2>1, <2>2, Parity, <1>5
<1>12. \A k \in 1..n : S[k].id = nth(k)
  BY <1>5, <1>6, <1>7
<1>13. Alternates(S, P)
  BY <1>5, <1>11 DEF Alternates
<1> QED BY <1>1, <1>2, <1>5, <1>12, <1>13 DEF n, nth, P, S

\* Steps n + 1 to n + Len(part) of S, for an even n.
Stretched(part, S, n) ==
  /\ n + Len(part) <= Len(S)
  /\ \A i \in 1..Len(part) : part[i] = S[n + i]

\* The parts of a cut are stretches of the run, parted between turns.
LEMMA CutParts ==
  ASSUME caller \in Callers, log \in Runs, NEW u \in Cuts
  PROVE  LET S == FromCollect(log).steps
         IN  \E n \in Nat :
               /\ S \in Seq(Step) /\ u.steps \in Seq(Step) /\ u.continuation \in Seq(Step)
               /\ Stretched(u.steps, S, 2 * 0)
               /\ Len(u.steps) = 2 * n \/ Len(u.steps) = Len(S)
               /\ \/ u.continuation = << >>
                  \/ Len(u.steps) = 2 * n /\ Stretched(u.continuation, S, 2 * n)
               /\ Even(Len(u.continuation)) \/ 2 * n + Len(u.continuation) = Len(S)
<1> DEFINE t == FromCollect(log)
           S == t.steps
<1>1. PICK n, k \in Nat : CutOf(u, t, n, k)
  BY CutFacts
<1>2. S \in Seq(Step) /\ u.steps \in Seq(Step) /\ u.continuation \in Seq(Step)
  BY CutFacts DEF Trail
<1> DEFINE rest == From(S, 2 * n)
           c == u.continuation
           Fine(m) ==
             /\ S \in Seq(Step) /\ u.steps \in Seq(Step) /\ c \in Seq(Step)
             /\ Stretched(u.steps, S, 2 * 0)
             /\ Len(u.steps) = 2 * m \/ Len(u.steps) = Len(S)
             /\ \/ c = << >>
                \/ Len(u.steps) = 2 * m /\ Stretched(c, S, 2 * m)
             /\ Even(Len(c)) \/ 2 * m + Len(c) = Len(S)
<1>3. /\ u.steps = Take(S, 2 * n)
      /\ c = rest \/ (2 * k <= Len(rest) /\ c = Take(rest, 2 * k))
  BY <1>1 DEF CutOf
<1>11. c \in Seq(Step)
  BY <1>2
<1> HIDE DEF t, S, rest, c
<1>4. 2 * n \in Nat /\ 2 * k \in Nat /\ Len(S) \in Nat
  BY <1>2
<1> HIDE DEF S
<1>5. /\ Len(u.steps) = IF 2 * n <= Len(S) THEN 2 * n ELSE Len(S)
      /\ \A i \in 1..Len(u.steps) : u.steps[i] = S[i]
  <2>1. /\ Len(Take(S, 2 * n)) = IF 2 * n <= Len(S) THEN 2 * n ELSE Len(S)
        /\ \A i \in 1..Len(Take(S, 2 * n)) : Take(S, 2 * n)[i] = S[i]
    BY <1>2, <1>4, TakeType
  <2> QED BY <1>3, <2>1
<1>6. Stretched(u.steps, S, 2 * 0)
  <2>1. 2 * 0 = 0 /\ Len(u.steps) \in Nat
    BY <1>2
  <2>2. \A i \in 1..Len(u.steps) : 0 + i = i
    OBVIOUS
  <2>3. 0 + Len(u.steps) <= Len(S)
    BY <1>4, <1>5, <2>1
  <2> QED BY <1>5, <2>1, <2>2, <2>3 DEF Stretched
<1>10. 2 * n <= Len(S) => Len(u.steps) = 2 * n
  BY <1>5
<1>7. ASSUME 2 * n <= Len(S) PROVE Fine(n)
  <2>1. /\ rest \in Seq(Step) /\ Len(rest) = Len(S) - 2 * n
        /\ \A i \in 1..(Len(S) - 2 * n) : rest[i] = S[2 * n + i]
    <3>1. 2 * n \in 0..Len(S)
      BY <1>4, <1>7
    <3> QED BY <1>2, <3>1, FromType DEF rest
  <2>2. CASE c = rest
    <3>1. 2 * n + Len(c) = Len(S) /\ \A i \in 1..Len(c) : c[i] = S[2 * n + i]
      BY <1>4, <2>1, <2>2
    <3>2. Stretched(c, S, 2 * n)
      BY <1>4, <3>1 DEF Stretched
    <3>5. Len(u.steps) = 2 * n
      BY <1>7, <1>10
    <3>6. Even(Len(c)) \/ 2 * n + Len(c) = Len(S)
      BY <3>1
    <3>7. \/ c = << >>
          \/ Len(u.steps) = 2 * n /\ Stretched(c, S, 2 * n)
      BY <3>2, <3>5
    <3> QED BY <1>2, <1>6, <1>11, <3>5, <3>6, <3>7
  <2>3. CASE 2 * k <= Len(rest) /\ c = Take(rest, 2 * k)
    <3>1. Len(c) = 2 * k /\ \A i \in 1..Len(c) : c[i] = rest[i]
      BY <1>4, <2>1, <2>3, TakeType
    <3>2. 2 * n + Len(c) <= Len(S) /\ \A i \in 1..Len(c) : i \in 1..(Len(S) - 2 * n)
      BY <1>4, <2>1, <2>3, <3>1
    <3>3. Stretched(c, S, 2 * n)
      BY <2>1, <3>1, <3>2 DEF Stretched
    <3>4. Even(Len(c))
      BY <3>1 DEF Even
    <3>5. Len(u.steps) = 2 * n
      BY <1>7, <1>10
    <3>6. Even(Len(c)) \/ 2 * n + Len(c) = Len(S)
      BY <3>4
    <3>7. \/ c = << >>
          \/ Len(u.steps) = 2 * n /\ Stretched(c, S, 2 * n)
      BY <3>3, <3>5
    <3> QED BY <1>2, <1>6, <1>11, <3>5, <3>6, <3>7
  <2> QED BY <1>3, <2>2, <2>3
<1>8. ASSUME ~(2 * n <= Len(S)) PROVE Fine(n)
  <2>1. rest = << >>
    BY <1>2, <1>4, <1>8, FromAny DEF rest
  <2>2. c = << >>
    <3>1. << >> \in Seq(Step) /\ Len(<< >>) = 0
      OBVIOUS
    <3>2. CASE 2 * k <= Len(rest) /\ c = Take(rest, 2 * k)
      <4>1. 2 * k = 0
        BY <1>4, <2>1, <3>1, <3>2
      <4>2. Take(<< >>, 0) \in Seq(Step) /\ Len(Take(<< >>, 0)) = 0
        BY <3>1, TakeType
      <4>3. Take(<< >>, 0) = << >>
        BY <4>2
      <4> QED BY <2>1, <3>2, <4>1, <4>3
    <3> QED BY <1>3, <2>1, <3>2
  <2>3. Even(Len(c))
    <3>1. Len(c) = 2 * 0
      BY <2>2
    <3> QED BY <3>1 DEF Even
  <2> QED BY <1>2, <1>5, <1>6, <1>8, <2>2, <2>3
<1>9. Fine(n)
  <2> HIDE DEF Fine
  <2> QED BY <1>7, <1>8
<1> QED BY <1>9 DEF c, S, t

\* A part that begins behind whole turns and ends with one, or where the run
\* ended, is made of whole turns.
LEMMA WholePart ==
  ASSUME NEW S \in Seq(Step), NEW P, Alternates(S, P), NEW part \in Seq(Step),
         NEW n \in Nat, Stretched(part, S, 2 * n),
         Even(Len(part)) \/ 2 * n + Len(part) = Len(S)
  PROVE  /\ \A i \in At(part, "tool") : Answers(part, i)
         /\ \A i \in At(part, "assistant") :
              \/ i < Len(part) /\ Answers(part, i + 1)
              \/ i = Len(part) /\ part[i] = Last(S)
<1>1. Len(part) \in Nat /\ Len(S) \in Nat /\ DOMAIN part = 1..Len(part)
  OBVIOUS
<1>2. ASSUME NEW i \in 1..Len(part)
      PROVE  /\ i \in Nat /\ 2 * n + i \in 1..Len(S) /\ part[i] = S[2 * n + i]
             /\ Odd(i) => part[i].role = "assistant"
             /\ Even(i) => /\ part[i].role = "tool" /\ i - 1 \in 1..Len(part)
                           /\ part[i].of = part[i - 1].id
                           /\ part[i - 1].role = "assistant"
  <2>1. i \in Nat /\ 2 * n + i \in 1..Len(S) /\ part[i] = S[2 * n + i]
    BY <1>1 DEF Stretched
  <2>2. (Odd(2 * n + i) <=> Odd(i)) /\ (Even(2 * n + i) <=> Even(i))
    BY <2>1, Parity
  <2>3. Odd(i) => part[i].role = "assistant"
    BY <2>1, <2>2 DEF Alternates
  <2>4. ASSUME Even(i)
        PROVE  /\ part[i].role = "tool" /\ i - 1 \in 1..Len(part)
               /\ part[i].of = part[i - 1].id
               /\ part[i - 1].role = "assistant"
    <3>1. i - 1 \in 1..Len(part)
      <4>1. i # 1
        BY <2>4 DEF Even
      <4> QED BY <1>1, <4>1
    <3>2. part[i - 1] = S[2 * n + (i - 1)]
      BY <3>1 DEF Stretched
    <3>3. 2 * n + (i - 1) = (2 * n + i) - 1
      BY <2>1
    <3>4. /\ S[2 * n + i].role = "tool"
          /\ S[2 * n + i].of = S[(2 * n + i) - 1].id
          /\ S[(2 * n + i) - 1].role = "assistant"
      BY <2>1, <2>2, <2>4 DEF Alternates
    <3>5. part[i - 1] = S[(2 * n + i) - 1]
      BY <3>2, <3>3
    <3> QED BY <2>1, <3>1, <3>4, <3>5
  <2> QED BY <2>1, <2>3, <2>4
<1>3. \A i \in 1..Len(part) : i \in Nat
  OBVIOUS
<1>4. ASSUME NEW i \in At(part, "tool") PROVE Answers(part, i)
  <2>1. i \in 1..Len(part) /\ part[i].role = "tool" /\ i \in Nat
    BY <1>1 DEF At
  <2>2. Even(i)
    BY <1>2, <2>1, Parity
  <2>3. i # 1
    BY <2>2 DEF Even
  <2>4. i > 1
    BY <2>1, <2>3
  <2> QED BY <1>2, <2>1, <2>2, <2>4 DEF Answers
<1>5. ASSUME NEW i \in At(part, "assistant")
      PROVE  \/ i < Len(part) /\ Answers(part, i + 1)
             \/ i = Len(part) /\ part[i] = Last(S)
  <2>1. i \in 1..Len(part) /\ part[i].role = "assistant" /\ i \in Nat
    BY <1>1 DEF At
  <2>2. Odd(i)
    BY <1>2, <2>1, Parity
  <2>3. CASE i < Len(part)
    <3>1. i + 1 \in 1..Len(part) /\ (i + 1) - 1 = i /\ i + 1 > 1
      BY <1>1, <2>1, <2>3
    <3>2. Even(i + 1)
      BY <2>1, <2>2, Parity
    <3>3. /\ part[i + 1].of = part[(i + 1) - 1].id
          /\ part[(i + 1) - 1].role = "assistant"
      BY <1>2, <3>1, <3>2
    <3> QED BY <2>3, <3>1, <3>3 DEF Answers
  <2>4. CASE ~(i < Len(part))
    <3>1. i = Len(part)
      <4>1. i <= Len(part) /\ i \in Nat
        BY <1>1, <2>1
      <4>2. \A a, b \in Nat : a <= b /\ ~(a < b) => a = b
        OBVIOUS
      <4> QED BY <1>1, <2>4, <4>1, <4>2
    <3>2. ~Even(Len(part))
      BY <2>1, <2>2, <3>1, Parity
    <3>3. part[i] = S[Len(S)]
      BY <1>2, <2>1, <3>1, <3>2
    <3> QED BY <3>1, <3>3 DEF Last
  <2> QED BY <2>3, <2>4
<1> QED BY <1>4, <1>5

\* For every recorded run and every way of cutting it, no call is parted from
\* its result; only the call the run ended in has none.
THEOREM TurnsAreWhole == Spec => []WholeTurns
<1>1. CutsAsTold => WholeTurns
  <2> SUFFICES ASSUME CutsAsTold, cut # << >> PROVE WholeTurns
    BY DEF WholeTurns
  <2> DEFINE S == FromCollect(log).steps
             P == KeptPositions(log)
  <2>1. PICK u \in Cuts : cut = << u >>
    BY DEF CutsAsTold
  <2>2. Recorded(log) /\ caller \in Callers /\ log \in Runs /\ cut[1] = u
    BY <2>1, ScoringAssumption DEF CutsAsTold
  <2>3. Alternates(S, P)
    BY <2>2, RunAlternates
  <2>4. PICK n \in Nat :
          /\ S \in Seq(Step) /\ u.steps \in Seq(Step) /\ u.continuation \in Seq(Step)
          /\ Stretched(u.steps, S, 2 * 0)
          /\ Len(u.steps) = 2 * n \/ Len(u.steps) = Len(S)
          /\ \/ u.continuation = << >>
             \/ Len(u.steps) = 2 * n /\ Stretched(u.continuation, S, 2 * n)
          /\ Even(Len(u.continuation)) \/ 2 * n + Len(u.continuation) = Len(S)
    BY <2>2, CutParts
  <2> HIDE DEF S, P
  <2> DEFINE Whole(part) ==
               /\ \A i \in At(part, "tool") : Answers(part, i)
               /\ \A i \in At(part, "assistant") :
                    \/ i < Len(part) /\ Answers(part, i + 1)
                    \/ i = Len(part) /\ part[i] = Last(S)
  <2>5. Whole(u.steps)
    <3>1. Even(Len(u.steps)) \/ 2 * 0 + Len(u.steps) = Len(S)
      <4>1. CASE Len(u.steps) = 2 * n
        BY <4>1 DEF Even
      <4>2. CASE Len(u.steps) = Len(S)
        <5>1. Len(S) \in Nat
          BY <2>4
        <5> QED BY <4>2, <5>1
      <4> QED BY <2>4, <4>1, <4>2
    <3>2. 0 \in Nat
      OBVIOUS
    <3> QED BY <2>3, <2>4, <3>1, <3>2, WholePart
  <2>6. Whole(u.continuation)
    <3>1. CASE u.continuation = << >>
      BY <3>1 DEF At
    <3>2. CASE Stretched(u.continuation, S, 2 * n)
      BY <2>3, <2>4, <3>2, WholePart
    <3> QED BY <2>4, <3>1, <3>2
  <2> QED BY <2>2, <2>5, <2>6 DEF WholeTurns, S
<1> QED BY CutsInitially, CutsStep, <1>1, PTL DEF Spec

-----------------------------------------------------------------------------
(* What came before an action *)

\* The steps of a run before one of them, by their ids.
LEMMA PastSteps ==
  ASSUME NEW run, Recorded(run), log = run,
         NEW q \in 1..Len(FromCollect(run).steps), NEW action,
         action = FromCollect(run).steps[q]
  PROVE  Past(action) = [k \in 1..(q - 1) |-> FromCollect(run).steps[k]]
<1> DEFINE P == KeptPositions(run)
           S == FromCollect(run).steps
<1>1. /\ P \in SUBSET (DOMAIN run) /\ S = Selected(run, P) /\ run \in Seq(Step)
      /\ Len(S) = Cardinality(P)
      /\ \A k \in 1..Len(S) : S[k].id = Nth(P, k)
  BY RunAlternates
<1>2. S \in Seq(Step)
  BY LoadedType DEF Trail
<1>3. P \in SUBSET Nat /\ IsFiniteSet(P)
  <2> HIDE DEF P, S
  <2> QED BY <1>1, SelectedAt
<1>4. /\ \A k \in 1..Len(S) : Nth(P, k) \in P
      /\ \A j, k \in 1..Len(S) : j < k => Nth(P, j) < Nth(P, k)
  <2> HIDE DEF P, S
  <2> QED BY <1>1, <1>3, NthOrder
<1>5. Past(action) = Selected(S, {i \in DOMAIN S : S[i].id < action.id})
  BY DEF Past
<1>6. action = S[q] /\ q \in 1..Len(S)
  OBVIOUS
<1> HIDE DEF P, S
<1>7. DOMAIN S = 1..Len(S) /\ Len(S) \in Nat
  BY <1>2
<1>8. \A i \in 1..Len(S) : S[i].id < action.id <=> i <= q - 1
  <2> SUFFICES ASSUME NEW i \in 1..Len(S)
               PROVE  S[i].id < action.id <=> i <= q - 1
    OBVIOUS
  <2>1. /\ S[i].id = Nth(P, i) /\ action.id = Nth(P, q)
        /\ Nth(P, i) \in Nat /\ Nth(P, q) \in Nat
    BY <1>1, <1>3, <1>4, <1>6
  <2>2. i \in Nat /\ q \in Nat
    BY <1>6, <1>7
  <2>3. i < q => Nth(P, i) < Nth(P, q)
    BY <1>4, <1>6
  <2>4. q < i => Nth(P, q) < Nth(P, i)
    BY <1>4, <1>6
  <2> QED BY <2>1, <2>2, <2>3, <2>4
<1>9. {i \in DOMAIN S : S[i].id < action.id} = 1..(q - 1)
  <2>1. \A i \in 1..(q - 1) : i \in 1..Len(S) /\ i <= q - 1
    BY <1>6, <1>7
  <2>2. \A i \in 1..Len(S) : i <= q - 1 => i \in 1..(q - 1)
    BY <1>6, <1>7
  <2> QED BY <1>7, <1>8, <2>1, <2>2
<1>10. q - 1 \in 0..Len(S)
  BY <1>6, <1>7
<1> QED BY <1>2, <1>5, <1>9, <1>10, FirstSelected DEF S

\* Where the history of an action ends: before the action.
LEMMA TurnPlaces ==
  ASSUME NEW c \in Seq(Step), NEW n \in Nat
  PROVE  \A d \in 1..Len(ContinuationTurns(c, n)) :
           \E p \in 1..Len(c) :
             /\ ContinuationTurns(c, n)[d].history = SubSeq(c, 1, p - 1)
             /\ ContinuationTurns(c, n)[d].action = c[p]
             /\ d = 1 /\ c[1].role = "assistant" => p = 1
<1> DEFINE A == At(c, "assistant")
           nth(d) == Nth(A, d)
           m == Min({n, Cardinality(A)})
           turns == ContinuationTurns(c, n)
<1>1. Len(c) \in Nat /\ DOMAIN c = 1..Len(c)
  OBVIOUS
<1>2. A \in SUBSET (1..Len(c)) /\ A \in SUBSET Nat
  BY <1>1 DEF At
<1>3. IsFiniteSet(A) /\ Cardinality(A) \in Nat
  <2> HIDE DEF A
  <2> QED BY <1>1, <1>2, PositionsBound
<1>4. /\ \A d \in 1..Cardinality(A) : nth(d) \in A
      /\ \A k \in 1..Cardinality(A), i \in A : k = 1 => nth(1) <= i
  <2> HIDE DEF A
  <2> QED BY <1>2, <1>3, NthOrder
<1>5. c[1].role = "assistant" /\ Len(c) >= 1 => 1 \in A
  BY <1>1 DEF At
<1>6. turns = [d \in 1..m |-> [history |-> SubSeq(c, 1, nth(d) - 1), action |-> c[nth(d)]]]
  BY DEF ContinuationTurns
<1> HIDE DEF A, turns
<1>7. m \in Nat /\ m <= Cardinality(A)
  BY <1>3, MinOfTwo
<1> HIDE DEF m, nth
<1>8. Len(turns) = m
  BY <1>6, <1>7
<1> SUFFICES ASSUME NEW d \in 1..m
             PROVE  \E p \in 1..Len(c) :
                      /\ turns[d].history = SubSeq(c, 1, p - 1)
                      /\ turns[d].action = c[p]
                      /\ d = 1 /\ c[1].role = "assistant" => p = 1
  BY <1>8 DEF turns
<1>9. d \in 1..Cardinality(A)
  BY <1>3, <1>7
<1>10. nth(d) \in A /\ nth(d) \in 1..Len(c)
  BY <1>2, <1>4, <1>9
<1>11. turns[d].history = SubSeq(c, 1, nth(d) - 1) /\ turns[d].action = c[nth(d)]
  BY <1>6
<1>12. ASSUME d = 1, c[1].role = "assistant" PROVE nth(d) = 1
  <2>1. 1 \in A
    BY <1>1, <1>5, <1>10, <1>12
  <2>2. nth(1) <= 1
    BY <1>4, <1>9, <1>12, <2>1
  <2>3. nth(1) \in 1..Len(c)
    BY <1>10, <1>12
  <2> QED BY <1>1, <1>12, <2>2, <2>3
<1> QED BY <1>10, <1>11, <1>12

\* An action of the cut is a step of the run, and prefix and history are the
\* steps before it.
LEMMA ActionPlace ==
  ASSUME caller \in Callers, log \in Runs, NEW u \in Cuts, cut = << u >>,
         NEW d \in 1..Len(Actions)
  PROVE  LET S == FromCollect(log).steps
             w == u.steps \o Actions[d].history
         IN  \E q \in 1..Len(S) :
               /\ Actions[d].action = S[q]
               /\ w \in Seq(Step) /\ Len(w) = q - 1
               /\ \A i \in 1..(q - 1) : w[i] = S[i]
<1> DEFINE S == FromCollect(log).steps
           P == KeptPositions(log)
           c == u.continuation
           turns == ContinuationTurns(c, NTurns)
           one == [i \in 1..Min({1, Len(turns)}) |-> [turns[i] EXCEPT !.history = << >>]]
<1>1. cut[1] = u /\ NTurns \in Nat
  BY ScoringAssumption
<1>2. Actions = IF caller = "sweep" THEN one ELSE turns
  BY <1>1 DEF Actions
<1>3. PICK n \in Nat :
        /\ S \in Seq(Step) /\ u.steps \in Seq(Step) /\ c \in Seq(Step)
        /\ Stretched(u.steps, S, 2 * 0)
        /\ Len(u.steps) = 2 * n \/ Len(u.steps) = Len(S)
        /\ \/ c = << >>
           \/ Len(u.steps) = 2 * n /\ Stretched(c, S, 2 * n)
        /\ Even(Len(c)) \/ 2 * n + Len(c) = Len(S)
  BY CutParts
<1>4. Alternates(S, P)
  <2>1. Recorded(log)
    BY ScoringAssumption
  <2> QED BY <2>1, RunAlternates
<1>5. turns \in Seq(Turn)
  BY <1>1, <1>3, TurnsType DEF Turn
<1>6. \A i \in 1..Len(turns) :
        \E p \in 1..Len(c) : /\ turns[i].history = SubSeq(c, 1, p - 1)
                             /\ turns[i].action = c[p]
                             /\ i = 1 /\ c[1].role = "assistant" => p = 1
  BY <1>1, <1>3, TurnPlaces
<1> HIDE DEF S, P, c, turns
<1>7. d \in 1..Len(turns) /\ (caller = "sweep" => d = 1)
      /\ Actions[d].action = turns[d].action
      /\ Actions[d].history = IF caller = "sweep" THEN << >> ELSE turns[d].history
  <2>1. CASE caller # "sweep"
    BY <1>2, <2>1
  <2>2. CASE caller = "sweep"
    <3>1. Len(turns) \in Nat
      BY <1>5
    <3>2. Min({1, Len(turns)}) = IF 1 <= Len(turns) THEN 1 ELSE Len(turns)
      BY <3>1, MinOfTwo
    <3> DEFINE m == Min({1, Len(turns)})
    <3>3. m \in Nat /\ m <= 1 /\ m <= Len(turns)
      BY <3>1, <3>2
    <3>4. Actions = [i \in 1..m |-> [turns[i] EXCEPT !.history = << >>]]
      BY <1>2, <2>2
    <3> HIDE DEF m
    <3>5. Len(Actions) = m
      BY <3>3, <3>4
    <3>6. d \in 1..m /\ d = 1 /\ d \in 1..Len(turns)
      BY <3>1, <3>3, <3>5
    <3>7. Actions[d] = [turns[d] EXCEPT !.history = << >>]
      BY <3>4, <3>6
    <3>8. turns[d] \in Turn
      BY <1>5, <3>6
    <3>9. Actions[d].action = turns[d].action /\ Actions[d].history = << >>
      BY <3>7, <3>8 DEF Turn
    <3> QED BY <2>2, <3>6, <3>9
  <2> QED BY <2>1, <2>2
<1>8. PICK p \in 1..Len(c) :
        /\ turns[d].history = SubSeq(c, 1, p - 1)
        /\ turns[d].action = c[p]
        /\ d = 1 /\ c[1].role = "assistant" => p = 1
  BY <1>6, <1>7
<1>9. Len(u.steps) = 2 * n /\ Stretched(c, S, 2 * n)
  <2>1. c # << >>
    BY <1>8
  <2> QED BY <1>3, <2>1
<1>10. /\ p \in Nat /\ Len(c) \in Nat /\ Len(S) \in Nat /\ 2 * n \in Nat
       /\ p >= 1 /\ p <= Len(c) /\ 2 * n + Len(c) <= Len(S)
  BY <1>3, <1>8, <1>9 DEF Stretched
<1>11. Actions[d].history = SubSeq(c, 1, p - 1)
  <2>1. ASSUME caller = "sweep" PROVE p = 1
    <3>1. 1 \in 1..Len(c) /\ 2 * n + 1 \in 1..Len(S)
      BY <1>10
    <3>2. c[1] = S[2 * n + 1]
      BY <1>9, <3>1 DEF Stretched
    <3>3. Odd(2 * n + 1)
      BY DEF Odd
    <3>4. c[1].role = "assistant"
      BY <1>4, <3>1, <3>2, <3>3 DEF Alternates
    <3> QED BY <1>7, <1>8, <2>1, <3>4
  <2>2. SubSeq(c, 1, 1 - 1) = << >>
    BY <1>3
  <2> QED BY <1>7, <1>8, <2>1, <2>2
<1> DEFINE h == Actions[d].history
           q == 2 * n + p
           w == u.steps \o h
<1>12. /\ h \in Seq(Step) /\ Len(h) = p - 1
       /\ \A i \in 1..(p - 1) : h[i] = c[i] /\ c[i] = S[2 * n + i]
  <2>1. p - 1 \in 0..Len(c) /\ \A i \in 1..(p - 1) : i \in 1..Len(c)
    BY <1>10
  <2>2. /\ SubSeq(c, 1, p - 1) \in Seq(Step) /\ Len(SubSeq(c, 1, p - 1)) = p - 1
        /\ \A i \in 1..(p - 1) : SubSeq(c, 1, p - 1)[i] = c[i]
    BY <1>3, <2>1
  <2> QED BY <1>9, <1>11, <2>1, <2>2 DEF Stretched
<1> HIDE DEF h
<1>13. q \in 1..Len(S) /\ Actions[d].action = S[q]
  <2>1. q \in 1..Len(S)
    BY <1>10
  <2>2. c[p] = S[2 * n + p]
    BY <1>8, <1>9 DEF Stretched
  <2> QED BY <1>7, <1>8, <2>1, <2>2
<1>14. /\ w \in Seq(Step) /\ Len(w) = Len(u.steps) + Len(h)
       /\ \A i \in 1..Len(u.steps) : w[i] = u.steps[i]
       /\ \A i \in 1..Len(h) : w[Len(u.steps) + i] = h[i]
  <2>1. u.steps \in Seq(Step) /\ h \in Seq(Step)
    BY <1>3, <1>12
  <2> QED BY <2>1, TwoParts
<1>15. \A i \in 1..Len(u.steps) : u.steps[i] = S[i]
  <2>1. \A i \in 1..Len(u.steps) : u.steps[i] = S[2 * 0 + i]
    BY <1>3 DEF Stretched
  <2>2. \A i \in 1..Len(u.steps) : 2 * 0 + i = i
    OBVIOUS
  <2> QED BY <2>1, <2>2
<1> HIDE DEF w
<1>16. Len(w) = q - 1
  BY <1>9, <1>10, <1>12, <1>14
<1>17. ASSUME NEW i \in 1..(q - 1) PROVE w[i] = S[i]
  <2>1. CASE i <= 2 * n
    <3>1. i \in 1..Len(u.steps)
      BY <1>9, <1>10, <1>17, <2>1
    <3> QED BY <1>14, <1>15, <3>1
  <2>2. CASE ~(i <= 2 * n)
    <3>1. i - 2 * n \in 1..(p - 1) /\ 2 * n + (i - 2 * n) = i
      BY <1>10, <1>17, <2>2
    <3> DEFINE j == i - 2 * n
    <3> HIDE DEF j
    <3>2. j \in 1..(p - 1) /\ 2 * n + j = i
      BY <3>1 DEF j
    <3>3. w[2 * n + j] = h[j]
      BY <1>9, <1>12, <1>14, <3>2
    <3>4. h[j] = S[2 * n + j]
      BY <1>12, <3>2
    <3> QED BY <3>2, <3>3, <3>4
  <2> QED BY <2>1, <2>2
<1> HIDE DEF q
<1> QED BY <1>13, <1>14, <1>16, <1>17 DEF S, w, h

-----------------------------------------------------------------------------
(* What a context tells *)

\* What a message tells.
Held(msgs) == {msgs[i] : i \in 1..Len(msgs)}

Told(m) == {m.id} \union m.covers

\* What messages tell, message by message.
LEMMA KnownHeld ==
  ASSUME NEW msgs \in Seq(Step)
  PROVE  Known(msgs) = UNION {Told(m) : m \in Held(msgs)}
<1>1. DOMAIN msgs = 1..Len(msgs)
  OBVIOUS
<1>2. Known(msgs) = UNION {Told(msgs[i]) : i \in 1..Len(msgs)}
  BY <1>1 DEF Known, KnownAt, Told
<1>3. {Told(msgs[i]) : i \in 1..Len(msgs)} = {Told(m) : m \in Held(msgs)}
  BY DEF Held
<1> QED BY <1>2, <1>3

\* Two histories tell what either tells.
LEMMA KnownBoth ==
  ASSUME NEW a \in Seq(Step), NEW b \in Seq(Step)
  PROVE  a \o b \in Seq(Step) /\ Known(a \o b) = Known(a) \union Known(b)
<1> DEFINE c == a \o b
<1>1. /\ c \in Seq(Step) /\ Len(c) = Len(a) + Len(b)
      /\ \A i \in 1..Len(a) : c[i] = a[i]
      /\ \A i \in 1..Len(b) : c[Len(a) + i] = b[i]
  BY TwoParts
<1>2. Len(a) \in Nat /\ Len(b) \in Nat
  OBVIOUS
<1> HIDE DEF c
<1>3. Held(c) \subseteq Held(a) \union Held(b)
  <2> SUFFICES ASSUME NEW i \in 1..Len(c)
               PROVE  c[i] \in Held(a) \union Held(b)
    BY DEF Held
  <2>1. CASE i <= Len(a)
    <3>1. i \in 1..Len(a)
      BY <1>1, <1>2, <2>1
    <3> QED BY <1>1, <3>1 DEF Held
  <2>2. CASE ~(i <= Len(a))
    <3> DEFINE j == i - Len(a)
    <3>1. j \in 1..Len(b) /\ Len(a) + j = i
      BY <1>1, <1>2, <2>2
    <3> HIDE DEF j
    <3>2. c[i] = b[j]
      BY <1>1, <3>1
    <3> QED BY <3>1, <3>2 DEF Held
  <2> QED BY <2>1, <2>2
<1>4. Held(a) \subseteq Held(c)
  <2>1. \A i \in 1..Len(a) : i \in 1..Len(c)
    BY <1>1, <1>2
  <2>2. \A i \in 1..Len(a) : c[i] = a[i]
    BY <1>1
  <2> QED BY <2>1, <2>2 DEF Held
<1>5. Held(b) \subseteq Held(c)
  <2>1. \A i \in 1..Len(b) : Len(a) + i \in 1..Len(c)
    BY <1>1, <1>2
  <2>2. \A i \in 1..Len(b) : c[Len(a) + i] = b[i]
    BY <1>1
  <2> SUFFICES ASSUME NEW i \in 1..Len(b) PROVE b[i] \in Held(c)
    BY DEF Held
  <2>3. c[Len(a) + i] \in Held(c)
    BY <2>1 DEF Held
  <2> QED BY <2>2, <2>3
<1>6. Held(c) = Held(a) \union Held(b)
  BY <1>3, <1>4, <1>5
<1>7. /\ Known(c) = UNION {Told(m) : m \in Held(c)}
      /\ Known(a) = UNION {Told(m) : m \in Held(a)}
      /\ Known(b) = UNION {Told(m) : m \in Held(b)}
  BY <1>1, KnownHeld
<1>8. Known(c) = Known(a) \union Known(b)
  BY <1>6, <1>7
<1> QED BY <1>1, <1>8 DEF c

\* Messages that tell the same one by one tell the same together.
LEMMA KnownSame ==
  ASSUME NEW a \in Seq(Step), NEW b \in Seq(Step), Len(a) = Len(b),
         \A i \in 1..Len(a) : b[i].id = a[i].id /\ b[i].covers = a[i].covers
  PROVE  Known(b) = Known(a)
<1>1. DOMAIN a = 1..Len(a) /\ DOMAIN b = 1..Len(a)
  OBVIOUS
<1> QED BY <1>1 DEF Known, KnownAt

\* Reasoning aside, the same is told.
LEMMA KnownStripped ==
  ASSUME NEW msgs \in Seq(Step)
  PROVE  /\ Known(StripReasoning(msgs)) = Known(msgs)
         /\ \A i \in DOMAIN StripReasoning(msgs) : ~Reasons(StripReasoning(msgs)[i])
<1> DEFINE s == StripReasoning(msgs)
<1>1. s \in Seq(Step) /\ Len(s) = Len(msgs)
  BY StripType
<1>2. DOMAIN msgs = 1..Len(msgs) /\ DOMAIN s = 1..Len(msgs)
  <2>1. DOMAIN s = 1..Len(s)
    <3> HIDE DEF s
    <3> QED BY <1>1
  <2> QED BY <1>1, <2>1
<1>3. \A i \in 1..Len(msgs) : s[i] = Unreasoned(msgs[i]) /\ msgs[i] \in Step
  BY <1>2 DEF StripReasoning
<1> HIDE DEF s
<1>4. \A i \in 1..Len(msgs) :
        s[i].id = msgs[i].id /\ s[i].covers = msgs[i].covers /\ ~Reasons(s[i])
  BY <1>3, UnreasonedType
<1>5. Known(s) = Known(msgs)
  BY <1>1, <1>4, KnownSame
<1> QED BY <1>2, <1>4, <1>5 DEF s

\* A masked observation still tells whose it is.
LEMMA KnownMasked ==
  ASSUME NEW msgs \in Seq(Step)
  PROVE  MaskEnv(msgs) \in Seq(Step) /\ Known(MaskEnv(msgs)) = Known(msgs)
<1>1. /\ MaskEnv(msgs) \in Seq(Step) /\ Len(MaskEnv(msgs)) = Len(msgs)
      /\ \A i \in 1..Len(msgs) : MaskEnv(msgs)[i] \in {msgs[i], Masked(msgs[i])}
  BY MaskEnvType
<1>2. \A i \in 1..Len(msgs) : msgs[i] \in Step
  OBVIOUS
<1>3. \A i \in 1..Len(msgs) : /\ MaskEnv(msgs)[i].id = msgs[i].id
                              /\ MaskEnv(msgs)[i].covers = msgs[i].covers
  BY <1>1, <1>2, MaskedType
<1> QED BY <1>1, <1>3, KnownSame

\* The parts of a history together tell what it tells; the first two messages
\* are in the head.
LEMMA SplitKnown ==
  ASSUME NEW msgs \in Seq(Step), NEW f \in Nat, NEW l \in Int
  PROVE  LET s == SplitHeadTail(msgs, f, l)
         IN  /\ s.head \in Seq(Step) /\ s.middle \in Seq(Step) /\ s.tail \in Seq(Step)
             /\ Known(msgs) = Known(s.head) \union Known(s.middle) \union Known(s.tail)
             /\ f >= 2 /\ Len(msgs) >= 2 => 2 \in 1..Len(s.head) /\ s.head[2] = msgs[2]
<1> DEFINE s == SplitHeadTail(msgs, f, l)
<1>1. s.head \in Seq(Step) /\ s.middle \in Seq(Step) /\ s.tail \in Seq(Step)
  BY SplitType
<1>2. s.head = Take(msgs, f)
  BY DEF SplitHeadTail
<1>3. /\ Len(s.head) = IF f <= Len(msgs) THEN f ELSE Len(msgs)
      /\ \A i \in 1..Len(s.head) : s.head[i] = msgs[i]
  BY <1>2, TakeType
<1>4. f >= 2 /\ Len(msgs) >= 2 => 2 \in 1..Len(s.head) /\ s.head[2] = msgs[2]
  BY <1>3
<1>5. CASE f <= Len(msgs)
  <2> DEFINE k == IF l \in Nat THEN l ELSE 0
             t == SplitHeadTail(msgs, f, k)
             end == Len(msgs) - Len(LastNTurns(From(msgs, f), k))
  <2>1. s = t
    <3>1. CASE l \in Nat
      BY <3>1
    <3>2. CASE l \notin Nat
      <4>1. l <= 0 /\ k = 0
        BY <3>2
      <4>2. LastNTurns(From(msgs, f), l) = LastNTurns(From(msgs, f), k)
        BY <4>1 DEF LastNTurns
      <4> QED BY <4>2 DEF SplitHeadTail
    <3> QED BY <3>1, <3>2
  <2>2. k \in Nat
    OBVIOUS
  <2> HIDE DEF k
  <2>13. AreParts(t, Step, msgs, f, end)
    BY <1>5, <2>2, Splits
  <2> HIDE DEF s, t, end
  <2>3. /\ end \in f..Len(msgs)
        /\ t.head \in Seq(Step) /\ Len(t.head) = f
        /\ \A i \in 1..f : t.head[i] = msgs[i]
        /\ t.middle \in Seq(Step) /\ Len(t.middle) = end - f
        /\ \A i \in 1..(end - f) : t.middle[i] = msgs[f + i]
        /\ t.tail \in Seq(Step) /\ t.tail = From(msgs, end)
    BY <2>13 DEF AreParts
  <2>4. end \in Nat /\ end >= f /\ end <= Len(msgs) /\ Len(msgs) \in Nat
    BY <2>3
  <2>5. /\ Len(t.tail) = Len(msgs) - end
        /\ \A i \in 1..(Len(msgs) - end) : t.tail[i] = msgs[end + i]
    <3>1. end \in 0..Len(msgs)
      BY <2>4
    <3> QED BY <2>3, <3>1, FromType
  <2> DEFINE a == t.head
             b == t.middle
             e == t.tail
             w == (a \o b) \o e
  <2>12. a \in Seq(Step) /\ b \in Seq(Step) /\ e \in Seq(Step)
    BY <2>3
  <2>6. /\ w \in Seq(Step) /\ Len(w) = Len(t.head) + Len(t.middle) + Len(t.tail)
        /\ \A i \in 1..Len(t.head) : w[i] = t.head[i]
        /\ \A i \in 1..Len(t.middle) : w[Len(t.head) + i] = t.middle[i]
        /\ \A i \in 1..Len(t.tail) : w[Len(t.head) + Len(t.middle) + i] = t.tail[i]
    <3> HIDE DEF a, b, e
    <3>1. /\ w \in Seq(Step) /\ Len(w) = Len(a) + Len(b) + Len(e)
          /\ \A i \in 1..Len(a) : w[i] = a[i]
          /\ \A i \in 1..Len(b) : w[Len(a) + i] = b[i]
          /\ \A i \in 1..Len(e) : w[Len(a) + Len(b) + i] = e[i]
      BY <2>12, ThreeParts
    <3> HIDE DEF w
    <3> QED BY <3>1 DEF a, b, e
  <2> HIDE DEF w
  <2>7. Len(w) = Len(msgs)
    BY <2>3, <2>4, <2>5, <2>6
  <2>8. ASSUME NEW i \in 1..Len(msgs) PROVE w[i] = msgs[i]
    <3>1. CASE i <= f
      <4>1. i \in 1..f
        BY <2>4, <3>1
      <4> QED BY <2>3, <2>6, <4>1
    <3>2. CASE ~(i <= f) /\ i <= end
      <4> DEFINE j == i - f
      <4>1. j \in 1..(end - f) /\ f + j = i
        BY <2>4, <3>2
      <4> HIDE DEF j
      <4>2. w[f + j] = t.middle[j] /\ t.middle[j] = msgs[f + j]
        BY <2>3, <2>6, <4>1
      <4> QED BY <4>1, <4>2
    <3>3. CASE ~(i <= end)
      <4> DEFINE j == i - end
      <4>1. j \in 1..(Len(msgs) - end) /\ end + j = i /\ f + (end - f) = end
        BY <2>4, <3>3
      <4> HIDE DEF j
      <4>2. Len(t.head) + Len(t.middle) = end
        BY <2>3, <2>4
      <4>3. w[end + j] = t.tail[j] /\ t.tail[j] = msgs[end + j]
        BY <2>5, <2>6, <4>1, <4>2
      <4> QED BY <4>1, <4>3
    <3> QED BY <2>4, <3>1, <3>2, <3>3
  <2>9. w = msgs
    BY <2>6, <2>7, <2>8, SeqEqual
  <2>10. t.head \o t.middle \in Seq(Step)
         /\ Known(t.head \o t.middle) = Known(t.head) \union Known(t.middle)
    BY <2>3, KnownBoth
  <2>11. Known(w) = Known(t.head) \union Known(t.middle) \union Known(t.tail)
    <3> DEFINE ab == a \o b
    <3>1. ab \in Seq(Step) /\ w = ab \o e
      BY <2>10 DEF w
    <3>2. Known(ab) = Known(t.head) \union Known(t.middle)
      BY <2>10
    <3> HIDE DEF ab, e
    <3>3. Known(ab \o e) = Known(ab) \union Known(e)
      BY <2>12, <3>1, KnownBoth
    <3> QED BY <3>1, <3>2, <3>3 DEF e
  <2> QED BY <1>1, <1>4, <2>1, <2>9, <2>11 DEF s
<1>6. CASE ~(f <= Len(msgs))
  <2>1. Len(s.head) = Len(msgs) /\ s.head \in Seq(Step)
    BY <1>1, <1>3, <1>6
  <2>2. s.head = msgs
    BY <1>3, <2>1, SeqEqual
  <2>3. From(msgs, f) = << >>
    BY <1>6, FromAny
  <2>4. LastNTurns(<< >>, l) \in Seq(Step) /\ Len(LastNTurns(<< >>, l)) \in 0..0
    <3>1. << >> \in Seq(Step) /\ Len(<< >>) = 0
      OBVIOUS
    <3> QED BY <3>1, LastNTurnsAny
  <2>5. s.tail = << >>
    BY <2>3, <2>4 DEF SplitHeadTail
  <2>6. s.middle = << >>
    <3>1. s.middle = SubSeq(msgs, f + 1, Len(msgs) - Len(s.tail))
      BY DEF SplitHeadTail
    <3>2. Len(msgs) - Len(s.tail) = Len(msgs)
      BY <2>5
    <3> QED BY <1>6, <3>1, <3>2
  <2>7. Known(<< >>) = {}
    BY DEF Known, KnownAt
  <2> HIDE DEF s
  <2> QED BY <1>1, <1>4, <2>2, <2>5, <2>6, <2>7 DEF s
<1> QED BY <1>5, <1>6

-----------------------------------------------------------------------------
(* Both contexts tell of the same past *)

\* A list of one system prompt, or of none, in front of the standard one.
LEMMA SystemFirst ==
  ASSUME NEW run, Recorded(run)
  PROVE  /\ FromCollect(run).sys = << run[1] >>
         /\ run[1] \in Step /\ run[1].id = 1 /\ run[1].covers = {}
<1> DEFINE P == At(run, "system")
<1>1. run \in Seq(Step) /\ Len(run) \in Nat /\ DOMAIN run = 1..Len(run) /\ Len(run) >= 2
  <2>1. run \in Seq(Step)
    BY RunAlternates
  <2> QED BY <2>1 DEF Recorded
<1>2. run[1].role = "system"
  BY DEF Recorded
<1>3. 1 \in DOMAIN run
  BY <1>1
<1>4. 1 \in P /\ P \in SUBSET Nat /\ P \in SUBSET (1..Len(run))
  BY <1>1, <1>2, <1>3 DEF At
<1>5. FirstOf(run, "system") = << run[Min(P)] >>
  BY <1>4 DEF FirstOf
<1> HIDE DEF P
<1>6. Min(P) \in P /\ Min(P) <= 1
  BY <1>4, MinIn
<1>7. Min(P) = 1
  <2>1. Min(P) \in 1..Len(run)
    BY <1>4, <1>6
  <2> QED BY <1>1, <1>6, <2>1
<1>8. run[1].id = 1 /\ run[1].covers = {}
  BY <1>3 DEF Recorded
<1>9. run[1] \in Step
  BY <1>1, <1>3
<1> QED BY <1>5, <1>7, <1>8, <1>9 DEF FromCollect

\* The prefix as messages: a prompt, the task and the steps.
LEMMA PartialFacts ==
  ASSUME caller \in Callers, log \in Runs, NEW u \in Cuts, cut = << u >>
  PROVE  /\ u \in Trail /\ Partial \in Seq(Step)
         /\ Len(Partial) = 2 + Len(u.steps)
         /\ \A i \in 1..Len(u.steps) : Partial[2 + i] = u.steps[i]
         /\ \E told : /\ told \subseteq {0, 1}
                      /\ Known(Partial) = told \union Told(Partial[2]) \union Known(u.steps)
<1> DEFINE t == FromCollect(log)
           a == AgentSystemPrompt
           h == Head(u.sys \o <<a>>)
           head == << h >> \o u.task
<1>1. /\ t \in Trail /\ Len(t.task) = 1 /\ u \in Trail /\ u.task = t.task
      /\ u.sys = IF caller = "sweep" THEN t.sys ELSE << >>
  BY CutFacts
<1>2. /\ t.sys = << log[1] >> /\ log[1] \in Step
      /\ log[1].id = 1 /\ log[1].covers = {}
  <2>1. Recorded(log)
    BY ScoringAssumption
  <2> QED BY <2>1, SystemFirst
<1>3. a \in Step /\ a.id = 0 /\ a.covers = {}
  <2>1. a \in Message
    BY PlainType DEF AgentSystemPrompt, Roles
  <2>2. a.id = 0 /\ a.covers = {}
    BY DEF AgentSystemPrompt, Plain
  <2> QED BY <2>1, <2>2 DEF Step
<1> HIDE DEF a
<1>4. h \in Step /\ h.id \in {0, 1} /\ h.covers = {}
  <2>1. CASE caller = "sweep"
    <3>1. h = log[1]
      BY <1>1, <1>2, <2>1
    <3> QED BY <1>2, <3>1
  <2>2. CASE caller # "sweep"
    <3>1. h = a
      BY <1>1, <2>2
    <3> QED BY <1>3, <3>1
  <2> QED BY <2>1, <2>2
<1>5. Partial = head \o u.steps
  BY DEF Partial, StepsToMessages, a
<1> HIDE DEF h, t
<1>6. u.task \in Seq(Step) /\ Len(u.task) = 1 /\ u.steps \in Seq(Step)
  BY <1>1 DEF Trail
<1>7. << h >> \in Seq(Step) /\ Len(<< h >>) = 1
  BY <1>4
<1>8. /\ head \in Seq(Step) /\ Len(head) = 2 /\ head[2] = u.task[1]
  <2> DEFINE one == << h >>
             task == u.task
  <2>1. one \in Seq(Step) /\ Len(one) = 1
    BY <1>7
  <2>2. task \in Seq(Step) /\ Len(task) = 1
    BY <1>6
  <2>3. head = one \o task
    OBVIOUS
  <2> HIDE DEF one, task
  <2>4. /\ one \o task \in Seq(Step) /\ Len(one \o task) = Len(one) + Len(task)
        /\ \A i \in 1..Len(task) : (one \o task)[Len(one) + i] = task[i]
    BY <2>1, <2>2, TwoParts
  <2>5. (one \o task)[2] = task[1]
    BY <2>1, <2>2, <2>4
  <2> HIDE DEF head
  <2>6. head \in Seq(Step) /\ Len(head) = 2 /\ head[2] = task[1]
    BY <2>1, <2>2, <2>3, <2>4, <2>5
  <2> QED BY <2>6 DEF task
<1>9. Known(head) = Known(<< h >>) \union Known(u.task)
  BY <1>6, <1>7, KnownBoth
<1>10. Known(<< h >>) = Told(h) /\ Told(h) \subseteq {0, 1}
  <2>1. DOMAIN << h >> = {1} /\ << h >>[1] = h
    OBVIOUS
  <2> QED BY <1>4, <2>1 DEF Known, KnownAt, Told
<1>11. Known(u.task) = Told(u.task[1])
  <2>1. DOMAIN u.task = {1}
    BY <1>6
  <2> QED BY <2>1 DEF Known, KnownAt, Told
<1> HIDE DEF head
<1>12. /\ Partial \in Seq(Step) /\ Len(Partial) = 2 + Len(u.steps)
       /\ Partial[2] = head[2]
       /\ \A i \in 1..Len(u.steps) : Partial[2 + i] = u.steps[i]
  <2>1. /\ head \o u.steps \in Seq(Step)
        /\ Len(head \o u.steps) = Len(head) + Len(u.steps)
        /\ \A i \in 1..Len(head) : (head \o u.steps)[i] = head[i]
        /\ \A i \in 1..Len(u.steps) : (head \o u.steps)[Len(head) + i] = u.steps[i]
    <3>1. head \in Seq(Step) /\ u.steps \in Seq(Step)
      BY <1>6, <1>8
    <3> QED BY <3>1, TwoParts
  <2>2. 2 \in 1..Len(head)
    BY <1>8
  <2> QED BY <1>5, <1>8, <2>1, <2>2
<1>13. Known(Partial) = Known(head) \union Known(u.steps)
  <2>1. head \in Seq(Step) /\ u.steps \in Seq(Step)
    BY <1>6, <1>8
  <2> QED BY <1>5, <2>1, KnownBoth
<1>14. Known(Partial) = Told(h) \union Told(Partial[2]) \union Known(u.steps)
  BY <1>8, <1>9, <1>10, <1>11, <1>12, <1>13
<1> QED BY <1>1, <1>10, <1>12, <1>14

\* A compacted context tells what the whole prefix tells.
LEMMA BaseTells ==
  ASSUME caller \in Callers, log \in Runs, NEW u \in Cuts, cut = << u >>,
         NEW c \in Candidates
  PROVE  /\ BaseZ(c) \in Seq(Step)
         /\ Known(BaseZ(c)) \union {0, 1} = Known(Partial) \union {0, 1}
<1>1. u \in Trail /\ Partial \in Seq(Step) /\ Len(Partial) = 2 + Len(u.steps)
  BY PartialFacts
<1>2. PICK told : /\ told \subseteq {0, 1}
                  /\ Known(Partial) = told \union Told(Partial[2]) \union Known(u.steps)
  BY PartialFacts
<1>3. /\ SummarySizes \in SUBSET Nat /\ SummarySizes # {}
      /\ KeepFirst \in Nat /\ KeepFirst >= 2 /\ MaxSize \in Nat
      /\ \A spec \in Specs : /\ spec.keepFirst \in Nat /\ spec.keepFirst >= 2
                             /\ spec.keepLast \in Nat
  BY CompactionAssumption, ScoringAssumption
<1>4. cut[1].steps = u.steps /\ u.steps \in Seq(Step) /\ Len(Partial) >= 2
  BY <1>1 DEF Trail
<1> DEFINE covered == Known(u.steps)
           z(size) == SummaryAsToolTurn(size, covered)
<1>5. covered \in SUBSET Nat
  <2>1. \A i \in DOMAIN u.steps : u.steps[i] \in Step
    BY <1>4
  <2> QED BY <2>1, StepFields DEF Known, KnownAt
<1>6. \A size \in Nat : z(size) \in Seq(Step) /\ Known(z(size)) = {0} \union covered
  <2> SUFFICES ASSUME NEW size \in Nat
               PROVE  z(size) \in Seq(Step) /\ Known(z(size)) = {0} \union covered
    OBVIOUS
  <2> HIDE DEF covered
  <2> DEFINE m == SummaryCall
             n == Digest("tool", size, covered)
  <2>1. z(size) = << m, n >>
    BY DEF SummaryAsToolTurn, SummaryCall, Digest
  <2>2. m \in Message /\ m.id = 0 /\ m.covers = {}
    BY SummaryCallType DEF SummaryCall, Plain
  <2>3. n \in Message /\ n.id = 0 /\ n.covers = covered
    BY <1>5, InsertedType DEF Roles
  <2> HIDE DEF m, n
  <2>4. << m, n >> \in Seq(Step)
    BY <2>2, <2>3 DEF Step
  <2>5. DOMAIN << m, n >> = {1, 2} /\ << m, n >>[1] = m /\ << m, n >>[2] = n
    OBVIOUS
  <2>6. Known(<< m, n >>) = Told(m) \union Told(n)
    BY <2>5 DEF Known, KnownAt, Told
  <2> QED BY <2>1, <2>2, <2>3, <2>4, <2>6 DEF Told
<1> HIDE DEF z, covered
<1>7. \A size \in Nat, kf \in Nat, l \in Int :
        kf >= 2 =>
        LET s == SplitHeadTail(Partial, kf, l)
            w == (s.head \o z(size)) \o s.tail
        IN  w \in Seq(Step) /\ Known(w) \union {0, 1} = Known(Partial) \union {0, 1}
  <2> SUFFICES ASSUME NEW size \in Nat, NEW kf \in Nat, NEW l \in Int, kf >= 2
               PROVE  LET s == SplitHeadTail(Partial, kf, l)
                          w == (s.head \o z(size)) \o s.tail
                      IN  /\ w \in Seq(Step)
                          /\ Known(w) \union {0, 1} = Known(Partial) \union {0, 1}
    OBVIOUS
  <2> DEFINE s == SplitHeadTail(Partial, kf, l)
             w == (s.head \o z(size)) \o s.tail
  <2>1. /\ s.head \in Seq(Step) /\ s.middle \in Seq(Step) /\ s.tail \in Seq(Step)
        /\ Known(Partial) = Known(s.head) \union Known(s.middle) \union Known(s.tail)
        /\ 2 \in 1..Len(s.head) /\ s.head[2] = Partial[2]
    BY <1>1, <1>4, SplitKnown
  <2>2. z(size) \in Seq(Step) /\ Known(z(size)) = {0} \union covered
    BY <1>6
  <2> HIDE DEF s
  <2>3. /\ s.head \o z(size) \in Seq(Step)
        /\ Known(s.head \o z(size)) = Known(s.head) \union {0} \union covered
    BY <2>1, <2>2, KnownBoth
  <2>4. /\ w \in Seq(Step)
        /\ Known(w) = Known(s.head \o z(size)) \union Known(s.tail)
    BY <2>1, <2>3, KnownBoth
  <2>5. Told(Partial[2]) \subseteq Known(s.head)
    <3>1. DOMAIN s.head = 1..Len(s.head)
      BY <2>1
    <3> QED BY <2>1, <3>1 DEF Told, Known, KnownAt
  <2>6. Known(w) = Known(s.head) \union {0} \union covered \union Known(s.tail)
    BY <2>3, <2>4
  <2> HIDE DEF w
  <2>7. Known(w) \subseteq Known(Partial) \union {0, 1}
    BY <1>2, <2>1, <2>6 DEF covered
  <2>8. Known(Partial) \subseteq Known(w) \union {0, 1}
    BY <1>2, <2>5, <2>6 DEF covered
  <2> QED BY <2>4, <2>7, <2>8 DEF s, w
<1>8. \A m \in Int : \A kf \in Nat : KeepTurns(m, kf) \in Int
  BY DEF KeepTurns
<1>9. CASE caller # "sweep"
  <2>1. c \in Nat /\ KeepTurns(MaxSize, KeepFirst) \in Int
    <3>1. c \in SummarySizes
      BY <1>9 DEF Candidates
    <3>2. MaxSize \in Int
      BY <1>3
    <3> QED BY <1>3, <1>8, <3>1, <3>2
  <2>2. BaseZ(c) = ZMessages(z(c), Partial, MaxSize, KeepFirst)
    BY <1>4, <1>9 DEF BaseZ, z, covered
  <2> DEFINE kt == KeepTurns(MaxSize, KeepFirst)
  <2>3. KeepFirst \in Nat /\ KeepFirst >= 2 /\ kt \in Int
    BY <1>3, <2>1
  <2>4. BaseZ(c) = (SplitHeadTail(Partial, KeepFirst, kt).head \o z(c))
                     \o SplitHeadTail(Partial, KeepFirst, kt).tail
    BY <2>2 DEF ZMessages
  <2> HIDE DEF kt
  <2>5. LET s == SplitHeadTail(Partial, KeepFirst, kt)
            w == (s.head \o z(c)) \o s.tail
        IN  w \in Seq(Step) /\ Known(w) \union {0, 1} = Known(Partial) \union {0, 1}
    BY <1>7, <2>1, <2>3
  <2> QED BY <2>4, <2>5
<1>10. CASE caller = "sweep"
  <2>1. c \in Specs /\ c.keepFirst \in Nat /\ c.keepFirst >= 2 /\ c.keepLast \in Nat
    BY <1>3, <1>10 DEF Candidates
  <2>2. CASE c.mask
    <3>1. BaseZ(c) = MaskenvMessages(Partial, c.keepFirst, c.keepLast)
      BY <1>10, <2>2 DEF BaseZ
    <3> DEFINE s == SplitHeadTail(Partial, c.keepFirst, c.keepLast)
    <3>2. /\ s.head \in Seq(Step) /\ s.middle \in Seq(Step) /\ s.tail \in Seq(Step)
          /\ Known(Partial) = Known(s.head) \union Known(s.middle) \union Known(s.tail)
      <4> DEFINE kf == c.keepFirst
                 kl == c.keepLast
      <4>1. kf \in Nat /\ kl \in Int
        BY <2>1
      <4>2. s = SplitHeadTail(Partial, kf, kl)
        OBVIOUS
      <4> HIDE DEF kf, kl, s
      <4>3. Partial \in Seq(Step)
        BY <1>1
      <4> QED BY <4>1, <4>2, <4>3, SplitKnown
    <3> HIDE DEF s
    <3> DEFINE e == MaskEnv(s.middle)
    <3>3. e \in Seq(Step) /\ Known(e) = Known(s.middle)
      BY <3>2, KnownMasked
    <3> HIDE DEF e
    <3>4. s.head \o e \in Seq(Step)
          /\ Known(s.head \o e) = Known(s.head) \union Known(e)
      BY <3>2, <3>3, KnownBoth
    <3>5. /\ (s.head \o e) \o s.tail \in Seq(Step)
          /\ Known((s.head \o e) \o s.tail) = Known(s.head \o e) \union Known(s.tail)
      BY <3>2, <3>4, KnownBoth
    <3>6. BaseZ(c) = (s.head \o e) \o s.tail
      BY <3>1 DEF MaskenvMessages, s, e
    <3> QED BY <3>2, <3>3, <3>4, <3>5, <3>6
  <2>3. CASE ~c.mask
    <3>1. BaseZ(c) = ZMessages(z(Min(SummarySizes)), Partial,
                               MaxSizeOf(c.keepFirst, c.keepLast), c.keepFirst)
      BY <1>4, <1>10, <2>3 DEF BaseZ, z, covered
    <3>2. Min(SummarySizes) \in Nat
      BY <1>3, MinIn
    <3>3. MaxSizeOf(c.keepFirst, c.keepLast) \in Int
      BY <2>1 DEF MaxSizeOf
    <3>4. KeepTurns(MaxSizeOf(c.keepFirst, c.keepLast), c.keepFirst) \in Int
      BY <1>8, <2>1, <3>3
    <3> DEFINE size == Min(SummarySizes)
               kt == KeepTurns(MaxSizeOf(c.keepFirst, c.keepLast), c.keepFirst)
    <3>5. BaseZ(c) = (SplitHeadTail(Partial, c.keepFirst, kt).head \o z(size))
                       \o SplitHeadTail(Partial, c.keepFirst, kt).tail
      BY <3>1 DEF ZMessages
    <3>6. c.keepFirst \in Nat /\ c.keepFirst >= 2 /\ kt \in Int /\ size \in Nat
      BY <2>1, <3>2, <3>4
    <3> HIDE DEF kt, size
    <3>7. LET s == SplitHeadTail(Partial, c.keepFirst, kt)
              w == (s.head \o z(size)) \o s.tail
          IN  w \in Seq(Step) /\ Known(w) \union {0, 1} = Known(Partial) \union {0, 1}
      BY <1>7, <3>6
    <3> QED BY <3>5, <3>7
  <2> QED BY <2>2, <2>3
<1> QED BY <1>9, <1>10

\* At every depth, for every caller and every candidate, the two contexts tell
\* of the same past, and the reference context is that past.
THEOREM ContextsShareThePast == Spec => []SamePast
<1>1. CutsAsTold => SamePast
  <2> SUFFICES ASSUME CutsAsTold, NEW d \in DOMAIN contexts
               PROVE  LET x == contexts[d].x
                      IN  /\ From(x, 2) = [i \in DOMAIN Past(contexts[d].action) |->
                                             Unreasoned(Past(contexts[d].action)[i])]
                          /\ \A c \in Candidates :
                               /\ Ids(ZAt(c, d)) \union {1} = Ids(x) \union {1}
                               /\ \A i \in DOMAIN ZAt(c, d) : ~Reasons(ZAt(c, d)[i])
    BY DEF SamePast
  <2>1. cut # << >>
    BY DEF CutsAsTold
  <2>2. PICK u \in Cuts : cut = << u >>
    BY <2>1 DEF CutsAsTold
  <2>3. PICK n \in Nat : 1..n \subseteq DOMAIN Actions /\ contexts = FirstContexts(n)
    BY <2>1 DEF CutsAsTold
  <2>4. caller \in Callers /\ log \in Runs /\ Recorded(log)
    BY ScoringAssumption DEF CutsAsTold
  <2>5. /\ u \in Trail /\ Partial \in Seq(Step) /\ Len(Partial) = 2 + Len(u.steps)
        /\ \A i \in 1..Len(u.steps) : Partial[2 + i] = u.steps[i]
    BY <2>2, <2>4, PartialFacts
  <2>6. Actions \in Seq(Turn)
    BY <2>2, <2>5, ActionsType
  <2>7. d \in 1..n /\ contexts[d] = ContextOf(Actions[d])
    BY <2>3 DEF FirstContexts
  <2>8. d \in 1..Len(Actions) /\ Actions[d] \in Turn
    <3>1. DOMAIN Actions = 1..Len(Actions)
      BY <2>6
    <3>2. d \in 1..Len(Actions)
      BY <2>3, <2>7, <3>1
    <3> QED BY <2>6, <3>2
  <2> DEFINE S == FromCollect(log).steps
             h == Actions[d].history
             a == Actions[d].action
             x == contexts[d].x
             w == u.steps \o h
  <2>9. PICK q \in 1..Len(S) :
          /\ a = S[q]
          /\ w \in Seq(Step) /\ Len(w) = q - 1
          /\ \A i \in 1..(q - 1) : w[i] = S[i]
    BY <2>2, <2>4, <2>8, ActionPlace
  <2>10. Past(a) = [k \in 1..(q - 1) |-> S[k]]
    BY <2>4, <2>9, PastSteps
  <2>11. /\ contexts[d].action = a /\ contexts[d].history = h
         /\ x = StripReasoning(Partial \o h)
    BY <2>7 DEF ContextOf
  <2>12. h \in Seq(Step) /\ u.steps \in Seq(Step) /\ S \in Seq(Step)
    <3>1. S \in Seq(Step)
      BY <2>4, LoadedType DEF Trail
    <3> QED BY <2>5, <2>8, <3>1 DEF Turn, Trail
  <2> HIDE DEF h, a, x, S, w
  <2>13. Len(S) \in Nat /\ q \in Nat /\ q >= 1 /\ q <= Len(S)
    BY <2>9, <2>12
  <2> DEFINE full == Partial \o h
  <2>14. /\ full \in Seq(Step) /\ Len(full) = Len(Partial) + Len(h)
         /\ \A i \in 1..Len(Partial) : full[i] = Partial[i]
         /\ \A i \in 1..Len(h) : full[Len(Partial) + i] = h[i]
    <3>1. Partial \in Seq(Step) /\ h \in Seq(Step)
      BY <2>5, <2>12
    <3> QED BY <3>1, TwoParts
  <2>15. /\ Len(w) = Len(u.steps) + Len(h)
         /\ \A i \in 1..Len(u.steps) : w[i] = u.steps[i]
         /\ \A i \in 1..Len(h) : w[Len(u.steps) + i] = h[i]
    BY <2>12, TwoParts DEF w
  <2>16. Known(full) = Known(Partial) \union Known(h)
    BY <2>5, <2>12, KnownBoth
  <2> HIDE DEF full
  <2>17. Len(full) = 2 + (q - 1) /\ Len(u.steps) \in Nat /\ Len(h) \in Nat
    BY <2>5, <2>9, <2>12, <2>14, <2>15
  <2>18. ASSUME NEW i \in 1..(q - 1) PROVE full[2 + i] = S[i]
    <3>1. CASE i <= Len(u.steps)
      <4>1. i \in 1..Len(u.steps) /\ 2 + i \in 1..Len(Partial)
        BY <2>5, <2>17, <3>1
      <4>2. full[2 + i] = u.steps[i] /\ w[i] = u.steps[i]
        BY <2>5, <2>14, <2>15, <4>1
      <4> QED BY <2>9, <4>2
    <3>2. CASE ~(i <= Len(u.steps))
      <4> DEFINE j == i - Len(u.steps)
      <4>1. /\ j \in 1..Len(h) /\ Len(u.steps) + j = i
            /\ Len(Partial) + j = 2 + i
        <5> DEFINE m == Len(u.steps)
                   o == Len(h)
        <5>1. m \in Nat /\ o \in Nat /\ i \in Int /\ m < i /\ i <= q - 1
          BY <2>13, <2>17, <3>2
        <5>2. m + o = q - 1
          <6>1. 2 + m + o = 2 + (q - 1)
            BY <2>5, <2>14, <2>17
          <6> QED BY <2>13, <5>1, <6>1
        <5>3. Len(Partial) = 2 + m
          BY <2>5
        <5> HIDE DEF m, o
        <5>4. i - m \in 1..o /\ m + (i - m) = i /\ 2 + m + (i - m) = 2 + i
          BY <2>13, <5>1, <5>2
        <5>5. j = i - m
          BY DEF m
        <5> QED BY <5>3, <5>4, <5>5 DEF m, o
      <4> HIDE DEF j
      <4>2. full[2 + i] = h[j] /\ w[i] = h[j]
        BY <2>14, <2>15, <4>1
      <4> QED BY <2>9, <4>2
    <3> QED BY <3>1, <3>2
  <2>19. /\ x \in Seq(Step) /\ Len(x) = Len(full) /\ Known(x) = Known(full)
         /\ \A i \in 1..Len(full) : x[i] = Unreasoned(full[i])
    <3>1. x = StripReasoning(full)
      BY <2>11 DEF full
    <3>2. DOMAIN full = 1..Len(full)
      BY <2>14
    <3>3. \A i \in 1..Len(full) : x[i] = Unreasoned(full[i])
      BY <3>1, <3>2 DEF StripReasoning
    <3> QED BY <2>14, <3>1, <3>3, StripType, KnownStripped
  <2>20. From(x, 2) = [i \in DOMAIN Past(a) |-> Unreasoned(Past(a)[i])]
    <3> DEFINE l == From(x, 2)
               r == [i \in 1..(q - 1) |-> Unreasoned(S[i])]
    <3>1. 2 \in 0..Len(x) /\ Len(x) - 2 = q - 1 /\ q - 1 \in Nat
      BY <2>13, <2>17, <2>19
    <3>2. /\ l \in Seq(Step) /\ Len(l) = q - 1
          /\ \A i \in 1..(q - 1) : l[i] = x[2 + i]
      <4>1. x \in Seq(Step)
        BY <2>19
      <4>2. /\ From(x, 2) \in Seq(Step) /\ Len(From(x, 2)) = Len(x) - 2
            /\ \A i \in 1..(Len(x) - 2) : From(x, 2)[i] = x[2 + i]
        BY <3>1, <4>1, FromType
      <4> QED BY <3>1, <4>2 DEF l
    <3>3. \A i \in 1..(q - 1) : x[2 + i] = Unreasoned(S[i])
      <4>1. \A i \in 1..(q - 1) : 2 + i \in 1..Len(full)
        BY <2>13, <2>17
      <4> QED BY <2>18, <2>19, <4>1
    <3> HIDE DEF l
    <3>4. l \in [1..(q - 1) -> Step]
      BY <3>1, <3>2
    <3>5. l = [i \in 1..(q - 1) |-> l[i]]
      BY <3>4
    <3>6. l = r
      BY <3>2, <3>3, <3>5
    <3>7. [i \in DOMAIN Past(a) |-> Unreasoned(Past(a)[i])] = r
      BY <2>10
    <3> QED BY <3>6, <3>7 DEF l
  <2>21. ASSUME NEW c \in Candidates
         PROVE  /\ Ids(ZAt(c, d)) \union {1} = Ids(x) \union {1}
                /\ \A i \in DOMAIN ZAt(c, d) : ~Reasons(ZAt(c, d)[i])
    <3> DEFINE b == BaseZ(c)
               zs == b \o h
    <3>1. b \in Seq(Step) /\ Known(b) \union {0, 1} = Known(Partial) \union {0, 1}
      BY <2>2, <2>4, BaseTells
    <3> HIDE DEF b
    <3>2. zs \in Seq(Step) /\ Known(zs) = Known(b) \union Known(h)
      BY <2>12, <3>1, KnownBoth
    <3>3. ZAt(c, d) = StripReasoning(zs)
      BY <2>11 DEF ZAt, b
    <3> HIDE DEF zs
    <3>4. /\ Known(ZAt(c, d)) = Known(zs)
          /\ \A i \in DOMAIN ZAt(c, d) : ~Reasons(ZAt(c, d)[i])
      BY <3>2, <3>3, KnownStripped
    <3>5. Known(ZAt(c, d)) \union {0, 1} = Known(x) \union {0, 1}
      BY <2>16, <2>19, <3>1, <3>2, <3>4
    <3>6. Ids(ZAt(c, d)) \union {1} = Ids(x) \union {1}
      <4> DEFINE k == Known(ZAt(c, d))
                 l == Known(x)
      <4>1. k \union {0, 1} = l \union {0, 1}
        BY <3>5
      <4> HIDE DEF k, l
      <4>2. (k \ {0}) \union {1} = (l \ {0}) \union {1}
        BY <4>1
      <4> QED BY <4>2 DEF Ids, k, l
    <3> QED BY <3>4, <3>6
  <2> QED BY <2>11, <2>20, <2>21 DEF x
<1> QED BY CutsInitially, CutsStep, <1>1, PTL DEF Spec

-----------------------------------------------------------------------------
(* Sizes *)

\* The recursion of MapThenSumSet on the first numbers of a list.
LEMMA ReachSums ==
  ASSUME NEW n \in Nat, NEW lens \in [1..n -> Nat], NEW k \in 0..n
  PROVE  LET g == [i \in 1..k |-> lens[i]]
         IN  /\ g \in [1..k -> Int] /\ IsFiniteSet(1..k)
             /\ \E h : Sums(h, g, 1..k) /\ Reach(lens, k) = h[1..k]
<1> DEFINE S == 1..k
           g == [i \in S |-> lens[i]]
           Rec(h) == [T \in SUBSET S |->
                        IF T = {} THEN 0
                        ELSE lens[CHOOSE x \in T : TRUE]
                               + h[T \ {CHOOSE x \in T : TRUE}]]
           sums == CHOOSE h : h = Rec(h)
<1>1. g \in [S -> Int] /\ IsFiniteSet(S)
  <2>1. S \subseteq 1..n
    OBVIOUS
  <2>2. IsFiniteSet(S)
    BY FS_Interval
  <2> HIDE DEF S
  <2>3. g \in [S -> Int]
    BY <2>1
  <2> QED BY <2>2, <2>3
<1>2. \A h : Sums(h, g, S) <=> h = Rec(h)
  <2> HIDE DEF S
  <2>1. \A T \in SUBSET S : T # {} => g[Pick(T)] = lens[Pick(T)]
    BY PickIn
  <2> QED BY <2>1 DEF Sums, Pick
<1>3. \E h : h = Rec(h)
  <2> HIDE DEF Rec, g, S
  <2> QED BY <1>1, <1>2, SumsExist
<1>4. sums = Rec(sums)
  <2> HIDE DEF Rec
  <2> QED BY <1>3
<1>5. Reach(lens, k) = sums[S]
  BY DEF Reach, MapThenSumSet, MapThenFoldSet
<1> QED BY <1>1, <1>2, <1>4, <1>5

\* The tokens up to a turn are those of the turn and of the turns before.
LEMMA ReachNext ==
  ASSUME NEW n \in Nat, NEW lens \in [1..n -> Nat]
  PROVE  /\ Reach(lens, 0) = 0
         /\ \A k \in 1..n : Reach(lens, k) = lens[k] + Reach(lens, k - 1)
<1>1. Reach(lens, 0) = 0
  <2>1. 0 \in 0..n /\ 1..0 = {}
    OBVIOUS
  <2>2. PICK h : /\ Sums(h, [i \in 1..0 |-> lens[i]], 1..0)
                 /\ Reach(lens, 0) = h[1..0]
    BY <2>1, ReachSums
  <2>3. h[{}] = 0
    BY <2>1, <2>2 DEF Sums
  <2> QED BY <2>1, <2>2, <2>3
<1>2. ASSUME NEW k \in 1..n PROVE Reach(lens, k) = lens[k] + Reach(lens, k - 1)
  <2> DEFINE S == 1..k
             R == 1..(k - 1)
             g == [i \in S |-> lens[i]]
             b == [i \in R |-> lens[i]]
  <2>1. k \in 0..n /\ k - 1 \in 0..n
    OBVIOUS
  <2>2. /\ g \in [S -> Int] /\ IsFiniteSet(S)
        /\ \E h : Sums(h, g, S) /\ Reach(lens, k) = h[S]
    BY <2>1, ReachSums
  <2>3. \E l : Sums(l, b, R) /\ Reach(lens, k - 1) = l[R]
    <3> DEFINE p == k - 1
    <3>1. p \in 0..n
      BY <2>1
    <3> HIDE DEF p
    <3>2. \E l : Sums(l, [i \in 1..p |-> lens[i]], 1..p) /\ Reach(lens, p) = l[1..p]
      BY <3>1, ReachSums
    <3> QED BY <3>2 DEF p
  <2>4. PICK h : Sums(h, g, S) /\ Reach(lens, k) = h[S]
    BY <2>2
  <2>5. PICK l : Sums(l, b, R) /\ Reach(lens, k - 1) = l[R]
    BY <2>3
  <2>6. k \in Nat \ {0} /\ g[k] = lens[k] /\ \A x \in R : b[x] = g[x]
    OBVIOUS
  <2> HIDE DEF g, b
  <2> DEFINE t == Reach(lens, k)
             r == Reach(lens, k - 1)
  <2>7. Follows(g, k, b)
    BY <2>2, <2>6 DEF Follows
  <2>8. Totals(g, 1..k, t)
    BY <2>4 DEF Totals
  <2>9. Totals(b, 1..(k - 1), r)
    BY <2>5 DEF Totals
  <2> HIDE DEF t, r
  <2>10. t = g[k] + r
    BY <2>7, <2>8, <2>9, TotalsNext
  <2> QED BY <2>6, <2>10 DEF t, r
<1> QED BY <1>1, <1>2

\* The tokens up to a turn are a number, and no fewer up to a later one.
LEMMA ReachGrows ==
  ASSUME NEW n \in Nat, NEW lens \in [1..n -> Nat]
  PROVE  /\ \A k \in 0..n : Reach(lens, k) \in Nat
         /\ \A k \in 0..n : \A j \in 0..k : Reach(lens, j) <= Reach(lens, k)
<1>1. /\ Reach(lens, 0) = 0
      /\ \A k \in 1..n : Reach(lens, k) = lens[k] + Reach(lens, k - 1)
      /\ \A k \in 1..n : lens[k] \in Nat
  BY ReachNext
<1> DEFINE Good(k) == /\ Reach(lens, k) \in Nat
                      /\ \A j \in 0..k : Reach(lens, j) <= Reach(lens, k)
           Bad == {k \in 0..n : ~Good(k)}
<1> SUFFICES ASSUME Bad # {} PROVE FALSE
  OBVIOUS
<1>2. PICK k \in Bad : \A m \in Bad : k <= m
  <2>1. Bad \in SUBSET Nat
    OBVIOUS
  <2> HIDE DEF Bad
  <2> QED BY <2>1, Least
<1>3. k # 0
  <2>1. \A j \in 0..0 : j = 0
    OBVIOUS
  <2>2. Good(0)
    BY <1>1, <2>1
  <2> HIDE DEF Good
  <2> QED BY <1>2, <2>2
<1>4. k \in 1..n /\ k - 1 \in 0..n /\ ~(k <= k - 1)
  BY <1>2, <1>3
<1>5. Good(k - 1)
  <2> HIDE DEF Good
  <2> QED BY <1>2, <1>4
<1>6. Reach(lens, k) = lens[k] + Reach(lens, k - 1) /\ lens[k] \in Nat
  BY <1>1, <1>4
<1>7. Reach(lens, k) \in Nat /\ Reach(lens, k - 1) <= Reach(lens, k)
  BY <1>5, <1>6
<1>8. ASSUME NEW j \in 0..k PROVE Reach(lens, j) <= Reach(lens, k)
  <2>1. CASE j = k
    BY <1>7, <2>1
  <2>2. CASE j # k
    <3>1. j \in 0..(k - 1)
      BY <1>4, <2>2
    <3>2. Reach(lens, j) <= Reach(lens, k - 1)
      BY <1>5, <3>1
    <3>3. j \in 0..n /\ ~(k <= j) /\ j \in 0..j
      BY <1>4, <3>1
    <3>4. Good(j)
      <4> HIDE DEF Good
      <4> QED BY <1>2, <3>3
    <3>5. Reach(lens, j) \in Nat
      BY <3>4
    <3> QED BY <1>5, <1>7, <3>2, <3>5
  <2> QED BY <2>1, <2>2
<1> QED BY <1>2, <1>7, <1>8

\* The size of a step as an EVENT block is a number.
LEMMA EventSizeType ==
  ASSUME NEW m \in Step
  PROVE  EventSize(m) \in Nat
<1>1. m.size \in Nat /\ m.calls \in Nat
  BY StepFields
<1>2. \A a, b, c, d \in Nat : a + b + c * d \in Nat
  <2>1. \A c, d \in Nat : c * d \in Nat
    OBVIOUS
  <2> QED BY <2>1
<1> QED BY <1>1, <1>2, TrajectoryAssumption DEF EventSize

\* The sizes of some steps as EVENT blocks, summed.
EventSum(m, S) == MapThenSumSet(LAMBDA i : EventSize(m[i]), S)

\* The recursion of MapThenSumSet on those sizes.
LEMMA EventSums ==
  ASSUME NEW m, NEW S, IsFiniteSet(S), \A i \in S : EventSize(m[i]) \in Nat
  PROVE  LET g == [i \in S |-> EventSize(m[i])]
         IN  /\ g \in [S -> Nat] /\ g \in [S -> Int]
             /\ \E h : /\ Sums(h, g, S)
                       /\ EventSum(m, S) = h[S]
<1> DEFINE g == [i \in S |-> EventSize(m[i])]
           F(h) == [T \in SUBSET S |->
                     IF T = {} THEN 0
                     ELSE EventSize(m[CHOOSE x \in T : TRUE])
                            + h[T \ {CHOOSE x \in T : TRUE}]]
           sums == CHOOSE h : h = F(h)
<1>1. g \in [S -> Nat] /\ g \in [S -> Int]
  OBVIOUS
<1>2. \A h : Sums(h, g, S) <=> h = F(h)
  <2>1. \A T \in SUBSET S : T # {} => g[Pick(T)] = EventSize(m[Pick(T)])
    BY PickIn
  <2> QED BY <2>1 DEF Sums, Pick
<1>3. \E h : h = F(h)
  <2> HIDE DEF F, g
  <2> QED BY <1>1, <1>2, SumsExist
<1>4. sums = F(sums)
  <2> HIDE DEF F
  <2> QED BY <1>3
<1>5. EventSum(m, S) = sums[S]
  BY DEF EventSum, MapThenSumSet, MapThenFoldSet
<1> QED BY <1>1, <1>2, <1>4, <1>5

\* A last message adds its own size.
LEMMA TokensLast ==
  ASSUME NEW m \in Seq(Step), NEW n \in Nat, n = Len(m)
  PROVE  /\ EventTokens(m) \in Int
         /\ n = 0 => EventTokens(m) = 0
         /\ n > 0 => EventTokens(m) = EventSize(m[n]) + EventTokens(Take(m, n - 1))
<1>1. DOMAIN m = 1..n /\ \A i \in 1..n : EventSize(m[i]) \in Nat
  <2>1. DOMAIN m = 1..n /\ \A i \in 1..n : m[i] \in Step
    OBVIOUS
  <2> QED BY <2>1, EventSizeType
<1> DEFINE S == 1..n
           g == [i \in S |-> EventSize(m[i])]
<1>2. IsFiniteSet(S)
  BY FS_Interval
<1>3. /\ g \in [S -> Nat] /\ g \in [S -> Int]
      /\ \E h : Sums(h, g, S) /\ EventSum(m, S) = h[S]
  <2>1. \A i \in S : EventSize(m[i]) \in Nat
    BY <1>1
  <2> HIDE DEF S
  <2> QED BY <1>2, <2>1, EventSums
<1>4. PICK h : Sums(h, g, S) /\ EventSum(m, S) = h[S]
  BY <1>3
<1>5. EventTokens(m) = h[S]
  BY <1>1, <1>4 DEF EventTokens, EventSum
<1>6. n = 0 => EventTokens(m) = 0
  <2>1. h[{}] = 0
    BY <1>4 DEF Sums
  <2>2. n = 0 => S = {}
    OBVIOUS
  <2> HIDE DEF S
  <2> QED BY <1>5, <2>1, <2>2
<1>7. ASSUME n > 0 PROVE EventTokens(m) = EventSize(m[n]) + EventTokens(Take(m, n - 1))
  <2> DEFINE w == Take(m, n - 1)
             R == 1..(n - 1)
             k == [i \in R |-> EventSize(w[i])]
  <2>1. n - 1 \in Nat /\ n - 1 <= n /\ ~(n <= n - 1)
    BY <1>7
  <2>2. w \in Seq(Step) /\ Len(w) = n - 1 /\ \A i \in 1..(n - 1) : w[i] = m[i]
    BY <2>1, TakeType
  <2> HIDE DEF w
  <2>3. DOMAIN w = R /\ \A i \in R : EventSize(w[i]) \in Nat
    <3>1. DOMAIN w = R /\ \A i \in R : w[i] \in Step
      BY <2>2
    <3> QED BY <3>1, EventSizeType
  <2>4. IsFiniteSet(R)
    BY <2>1, FS_Interval
  <2>5. n \in Nat \ {0} /\ g[n] = EventSize(m[n]) /\ \A x \in R : k[x] = g[x]
    BY <2>1, <2>2
  <2>6. \E l : Sums(l, k, R) /\ EventSum(w, R) = l[R]
    <3> HIDE DEF R
    <3> QED BY <2>3, <2>4, EventSums
  <2>7. PICK l : Sums(l, k, R) /\ EventSum(w, R) = l[R]
    BY <2>6
  <2>8. EventTokens(w) = l[R]
    BY <2>3, <2>7 DEF EventTokens, EventSum
  <2> HIDE DEF g, k
  <2> DEFINE t == EventTokens(m)
             r == EventTokens(w)
  <2>9. Follows(g, n, k)
    BY <1>3, <2>5 DEF Follows
  <2>10. Totals(g, 1..n, t)
    BY <1>4, <1>5 DEF Totals
  <2>11. Totals(k, 1..(n - 1), r)
    BY <2>7, <2>8 DEF Totals
  <2> HIDE DEF t, r
  <2>12. t = g[n] + r
    BY <2>9, <2>10, <2>11, TotalsNext
  <2> QED BY <2>5, <2>12 DEF t, r, w
<1>8. EventTokens(m) \in Int
  <2>1. S \in SUBSET S
    OBVIOUS
  <2> HIDE DEF S, g
  <2> QED BY <1>2, <1>3, <1>4, <1>5, <2>1, SumsInt
<1> QED BY <1>6, <1>7, <1>8

\* A turn has the tokens of its call and of its result.
LEMMA TurnTokens ==
  ASSUME NEW s \in Seq(Step), NEW k \in 1..(Len(s) \div 2)
  PROVE  /\ TurnLens(s)[k] = EventSize(s[2 * k - 1]) + EventSize(s[2 * k])
         /\ EventSize(s[2 * k - 1]) \in Nat /\ EventSize(s[2 * k]) \in Nat
         /\ TurnLens(s)[k] \in Nat
<1>1. 2 * k - 1 \in 1..Len(s) /\ 2 * k \in 1..Len(s) /\ Len(s) \in Nat
  <2>1. \A n \in Nat : \A j \in 1..(n \div 2) : 2 * j - 1 \in 1..n /\ 2 * j \in 1..n
    OBVIOUS
  <2> QED BY <2>1
<1>2. s[2 * k - 1] \in Step /\ s[2 * k] \in Step
  BY <1>1
<1>3. EventSize(s[2 * k - 1]) \in Nat /\ EventSize(s[2 * k]) \in Nat
  BY <1>2, EventSizeType
<1> DEFINE p == SubSeq(s, 2 * k - 1, 2 * k)
           f == Take(p, 1)
<1>4. p \in Seq(Step) /\ Len(p) = 2 /\ p[1] = s[2 * k - 1] /\ p[2] = s[2 * k]
  <2> DEFINE m == 2 * k - 1
             n == 2 * k
  <2>1. m \in Int /\ n \in Int /\ m <= n /\ n - m + 1 = 2
          /\ m + 1 - 1 = m /\ m + 2 - 1 = n
    OBVIOUS
  <2>2. \A i \in m..n : i = m \/ i = n
    OBVIOUS
  <2>3. s[m] \in Step /\ s[n] \in Step
    BY <1>2
  <2>4. p = SubSeq(s, m, n)
    OBVIOUS
  <2> HIDE DEF m, n, p
  <2>5. \A i \in m..n : s[i] \in Step
    BY <2>2, <2>3
  <2>6. p \in Seq(Step) /\ Len(p) = 2 /\ \A i \in 1..2 : p[i] = s[m + i - 1]
    BY <2>1, <2>4, <2>5, SubSeqProperties
  <2>7. p[1] = s[m] /\ p[2] = s[n]
    BY <2>1, <2>6
  <2> QED BY <2>6, <2>7 DEF m, n
<1>5. TurnLens(s)[k] = EventTokens(p)
  BY DEF TurnLens
<1> HIDE DEF p
<1>6. f \in Seq(Step) /\ Len(f) = 1 /\ f[1] = p[1]
  <2>1. 1 \in Nat /\ 1 <= Len(p) /\ 1 \in 1..1
    BY <1>4
  <2> QED BY <1>4, <2>1, TakeType
<1>7. EventTokens(p) = EventSize(p[2]) + EventTokens(f)
  <2>1. 2 \in Nat /\ 2 > 0 /\ 2 - 1 = 1
    OBVIOUS
  <2> HIDE DEF f
  <2>2. EventTokens(p) = EventSize(p[2]) + EventTokens(Take(p, 2 - 1))
    BY <1>4, <2>1, TokensLast
  <2> QED BY <2>1, <2>2 DEF f
<1> HIDE DEF f
<1>8. EventTokens(f) = EventSize(f[1]) + EventTokens(Take(f, 0))
  <2>1. 1 \in Nat /\ 1 > 0 /\ 1 - 1 = 0
    OBVIOUS
  <2>2. EventTokens(f) = EventSize(f[1]) + EventTokens(Take(f, 1 - 1))
    BY <1>6, <2>1, TokensLast
  <2> QED BY <2>1, <2>2
<1>9. EventTokens(Take(f, 0)) = 0
  <2>1. Take(f, 0) \in Seq(Step) /\ Len(Take(f, 0)) = 0
    BY <1>6, TakeType
  <2> QED BY <2>1, TokensLast
<1>10. /\ TurnLens(s)[k] = EventSize(p[1]) + EventSize(p[2])
       /\ EventSize(p[1]) \in Nat /\ EventSize(p[2]) \in Nat
  <2>1. EventSize(p[1]) \in Nat /\ EventSize(p[2]) \in Nat
    BY <1>3, <1>4
  <2>2. EventTokens(f) = EventSize(p[1]) + 0
    BY <1>6, <1>8, <1>9
  <2> QED BY <1>5, <1>7, <2>1, <2>2
<1> QED BY <1>3, <1>4, <1>10

\* Every turn has a length.
LEMMA TurnLensType ==
  ASSUME NEW s \in Seq(Step)
  PROVE  /\ Len(s) \in Nat /\ Len(s) \div 2 \in Nat
         /\ DOMAIN TurnLens(s) = 1..(Len(s) \div 2)
         /\ TurnLens(s) \in [1..(Len(s) \div 2) -> Nat]
<1> DEFINE n == Len(s) \div 2
           lens == TurnLens(s)
<1>1. Len(s) \in Nat /\ n \in Nat
  <2>1. \A m \in Nat : m \div 2 \in Nat
    OBVIOUS
  <2> QED BY <2>1
<1>2. lens = [i \in 1..n |-> lens[i]] /\ DOMAIN lens = 1..n
  BY DEF TurnLens
<1>3. \A i \in 1..n : lens[i] \in Nat
  BY TurnTokens
<1>4. lens \in [1..n -> Nat]
  <2> HIDE DEF lens, n
  <2> QED BY <1>2, <1>3
<1> QED BY <1>1, <1>2, <1>4

\* The first k turns have the tokens of their steps.
LEMMA TokensReach ==
  ASSUME NEW s \in Seq(Step), NEW k \in 0..(Len(s) \div 2)
  PROVE  EventTokens(Take(s, 2 * k)) = Reach(TurnLens(s), k)
<1> DEFINE n == Len(s) \div 2
           lens == TurnLens(s)
           Bad == {j \in 0..n : EventTokens(Take(s, 2 * j)) # Reach(lens, j)}
<1>1. /\ n \in Nat /\ Len(s) \in Nat
      /\ \A j \in 0..n : 2 * j \in 0..Len(s)
  <2>1. \A m \in Nat : m \div 2 \in Nat /\ \A j \in 0..(m \div 2) : 2 * j \in 0..m
    OBVIOUS
  <2> QED BY <2>1
<1>2. lens \in [1..n -> Nat]
  <2>1. lens = [i \in 1..n |-> lens[i]]
    BY DEF TurnLens
  <2>2. \A i \in 1..n : lens[i] \in Nat
    BY TurnTokens
  <2> HIDE DEF lens, n
  <2> QED BY <2>1, <2>2
<1>3. /\ Reach(lens, 0) = 0
      /\ \A j \in 1..n : Reach(lens, j) = lens[j] + Reach(lens, j - 1)
  <2> HIDE DEF lens, n
  <2> QED BY <1>1, <1>2, ReachNext
<1>4. \A j \in 1..n : /\ lens[j] = EventSize(s[2 * j - 1]) + EventSize(s[2 * j])
                     /\ EventSize(s[2 * j - 1]) \in Nat /\ EventSize(s[2 * j]) \in Nat
  BY TurnTokens
<1> HIDE DEF lens, n
<1> SUFFICES ASSUME Bad # {} PROVE FALSE
  BY DEF lens, n
<1>5. PICK j \in Bad : \A i \in Bad : j <= i
  <2>1. Bad \in SUBSET Nat
    BY <1>1
  <2> HIDE DEF Bad
  <2> QED BY <2>1, Least
<1>6. j # 0
  <2>1. Take(s, 2 * 0) \in Seq(Step) /\ Len(Take(s, 2 * 0)) = 0
    BY <1>1, TakeType
  <2>2. EventTokens(Take(s, 2 * 0)) = 0
    BY <2>1, TokensLast
  <2> QED BY <1>3, <1>5, <2>2
<1>7. j \in 1..n /\ j - 1 \in 0..n /\ ~(j <= j - 1)
  BY <1>1, <1>5, <1>6
<1>8. EventTokens(Take(s, 2 * (j - 1))) = Reach(lens, j - 1)
  BY <1>5, <1>7
<1> DEFINE b == 2 * j
<1>9. /\ b \in 0..Len(s) /\ b - 1 \in 0..Len(s) /\ b - 2 \in 0..Len(s)
      /\ b - 1 \in 0..b /\ b - 2 \in 0..(b - 1) /\ b - 2 = 2 * (j - 1)
      /\ b \in 1..b /\ b - 1 \in 1..(b - 1)
      /\ b > 0 /\ b - 1 > 0
      /\ b \in Nat /\ b - 1 \in Nat /\ b <= Len(s) /\ b - 1 <= Len(s)
  <2>1. b \in 0..Len(s)
    BY <1>1, <1>7
  <2>2. j >= 1 /\ j \in Nat
    BY <1>1, <1>7
  <2> QED BY <1>1, <2>1, <2>2
<1>10. /\ lens[j] = EventSize(s[b - 1]) + EventSize(s[b])
       /\ EventSize(s[b - 1]) \in Nat /\ EventSize(s[b]) \in Nat
  BY <1>4, <1>7
<1> HIDE DEF b, Bad
<1> DEFINE w == Take(s, b)
           v == Take(s, b - 1)
<1>11. w \in Seq(Step) /\ Len(w) = b /\ w[b] = s[b]
  BY <1>9, TakeType
<1>12. v \in Seq(Step) /\ Len(v) = b - 1 /\ v[b - 1] = s[b - 1]
  BY <1>9, TakeType
<1>13. Take(w, b - 1) = v /\ Take(v, b - 2) = Take(s, b - 2)
  BY <1>9, TakeTake
<1>14. EventTokens(w) = EventSize(w[b]) + EventTokens(v)
  <2> HIDE DEF w, v
  <2> QED BY <1>9, <1>11, <1>13, TokensLast
<1>15. EventTokens(v) = EventSize(v[b - 1]) + EventTokens(Take(s, b - 2))
  <2> DEFINE c == b - 1
  <2>1. c \in Nat /\ c > 0 /\ c = Len(v) /\ c - 1 = b - 2
    BY <1>9, <1>12
  <2> HIDE DEF w, v, c
  <2>2. EventTokens(v) = EventSize(v[c]) + EventTokens(Take(v, c - 1))
    BY <1>12, <2>1, TokensLast
  <2> QED BY <1>13, <2>1, <2>2 DEF c
<1>16. EventTokens(Take(s, b - 2)) \in Int
  <2>1. b - 2 \in Nat
    BY <1>9
  <2>2. Take(s, b - 2) \in Seq(Step) /\ Len(Take(s, b - 2)) \in Nat
    BY <2>1, TakeType
  <2> QED BY <2>2, TokensLast
<1>17. EventTokens(Take(s, b - 2)) = Reach(lens, j - 1)
  BY <1>8, <1>9
<1> HIDE DEF w, v
<1>18. EventTokens(w) = Reach(lens, j)
  <2>1. Reach(lens, j) = lens[j] + Reach(lens, j - 1)
    BY <1>3, <1>7
  <2>2. EventTokens(w) = EventSize(s[b]) + (EventSize(s[b - 1]) + Reach(lens, j - 1))
    BY <1>11, <1>12, <1>14, <1>15, <1>17
  <2>3. Reach(lens, j - 1) \in Int
    BY <1>16, <1>17
  <2> QED BY <1>10, <2>1, <2>2, <2>3
<1> QED BY <1>5, <1>18 DEF Bad, w, b

\* The continuation that was capped is under the cap.
LEMMA CapFits ==
  ASSUME NEW s \in Seq(Step), NEW max \in Nat
  PROVE  LET k == TurnsThatFit(TurnLens(s), max)
         IN  EventTokens(Take(s, 2 * k)) \in Nat /\ EventTokens(Take(s, 2 * k)) <= max
<1> DEFINE n == Len(s) \div 2
           lens == TurnLens(s)
           fit == {j \in DOMAIN lens : Reach(lens, j) <= max}
           k == Cardinality(fit)
<1>1. n \in Nat /\ DOMAIN lens = 1..n /\ lens \in [1..n -> Nat]
  BY TurnLensType
<1> HIDE DEF n, lens
<1>2. /\ \A i \in 0..n : Reach(lens, i) \in Nat
      /\ \A i \in 0..n : \A j \in 0..i : Reach(lens, j) <= Reach(lens, i)
      /\ Reach(lens, 0) = 0
  BY <1>1, ReachGrows, ReachNext
<1>3. fit \in SUBSET (1..n) /\ \A i \in fit : \A j \in 1..i : j \in fit
  <2>1. fit \subseteq 1..n
    BY <1>1
  <2>2. ASSUME NEW i \in fit, NEW j \in 1..i PROVE j \in fit
    <3>1. i \in 1..n /\ Reach(lens, i) <= max
      BY <1>1
    <3>2. i \in 0..n /\ j \in 0..i /\ j \in 0..n /\ j \in 1..n
      BY <1>1, <3>1
    <3>3. /\ Reach(lens, j) <= Reach(lens, i)
          /\ Reach(lens, i) \in Nat /\ Reach(lens, j) \in Nat
      BY <1>2, <3>2
    <3>4. Reach(lens, j) <= max
      BY <3>1, <3>3
    <3> QED BY <1>1, <3>2, <3>4
  <2> QED BY <2>1, <2>2
<1>4. k \in 0..n /\ fit = 1..k
  <2> HIDE DEF fit
  <2> QED BY <1>1, <1>3, InitialSegment
<1>5. TurnsThatFit(lens, max) = k
  BY DEF TurnsThatFit
<1> HIDE DEF k
<1>6. Reach(lens, k) \in Nat /\ Reach(lens, k) <= max
  <2>1. CASE k = 0
    BY <1>2, <1>4, <2>1
  <2>2. CASE k # 0
    <3>1. k \in fit
      <4>1. k \in 1..k
        BY <1>1, <1>4, <2>2
      <4> HIDE DEF fit
      <4> QED BY <1>4, <4>1
    <3> QED BY <1>2, <1>4, <3>1
  <2> QED BY <2>1, <2>2
<1>7. EventTokens(Take(s, 2 * k)) = Reach(lens, k)
  BY <1>4, TokensReach DEF n, lens
<1> QED BY <1>5, <1>6, <1>7 DEF lens

\* What head and tail cost is a number.
LEMMA CompactionTokensType ==
  ASSUME NEW t \in Trail, NEW f \in Nat, NEW l \in Int
  PROVE  CompactionTokens(t, f, l) \in Int
<1> DEFINE msgs == StepsToMessages(t.steps, t.sys, t.task)
           head == Take(msgs, f)
           tail == LastNTurns(From(msgs, f), l)
           m == head \o tail
           S == DOMAIN m \ At(m, "system")
<1>1. msgs \in Seq(Step)
  BY PartialType
<1> HIDE DEF msgs
<1>2. head \in Seq(Step) /\ From(msgs, f) \in Seq(Step)
  BY <1>1, TakeType, FromAny
<1>3. tail \in Seq(Step)
  <2> DEFINE r == From(msgs, f)
  <2>1. r \in Seq(Step)
    BY <1>2
  <2> HIDE DEF r
  <2>2. LastNTurns(r, l) \in Seq(Step)
    BY <2>1, LastNTurnsAny
  <2> QED BY <2>2 DEF r
<1> HIDE DEF head, tail
<1>4. m \in Seq(Step)
  BY <1>2, <1>3
<1>5. CompactionTokens(t, f, l) = SizeSum(m, S)
  BY DEF CompactionTokens, HeadAndTail, TextTokens, SizeSum, msgs, head, tail
<1> HIDE DEF m
<1>6. IsFiniteSet(S) /\ \A i \in S : m[i].size \in Nat
  <2>1. DOMAIN m = 1..Len(m) /\ Len(m) \in Nat /\ \A i \in DOMAIN m : m[i] \in Step
    BY <1>4
  <2>2. IsFiniteSet(DOMAIN m)
    BY <2>1, FS_Interval
  <2>3. IsFiniteSet(S)
    BY <2>2, FS_Subset
  <2> QED BY <2>1, <2>3, StepFields
<1> HIDE DEF S
<1> DEFINE g == [i \in S |-> m[i].size]
<1>7. g \in [S -> Int] /\ \E h : Sums(h, g, S) /\ SizeSum(m, S) = h[S]
  BY <1>6, SizeSums
<1> HIDE DEF g
<1>8. PICK h : Sums(h, g, S) /\ SizeSum(m, S) = h[S]
  BY <1>7
<1>9. \A T \in SUBSET S : h[T] \in Int
  BY <1>6, <1>7, <1>8, SumsInt
<1> QED BY <1>5, <1>8, <1>9

\* Behind the first turn that reaches the threshold: the turns before stay
\* under it.
LEMMA FirstReached ==
  ASSUME NEW t \in Trail, NEW n \in ReachedAt(t), \A j \in ReachedAt(t) : n <= j
  PROVE  LET steps == Take(t.steps, 2 * n)
         IN  /\ Len(steps) \div 2 = n
             /\ EventTokens(steps) >= SplitAt
             /\ EventTokens(Take(steps, 2 * n - 2)) < SplitAt
<1> DEFINE s == t.steps
           lens == TurnLens(s)
           last == Len(s) \div 2
           steps == Take(s, 2 * n)
<1>1. s \in Seq(Step)
  BY DEF Trail
<1>2. /\ Len(s) \in Nat /\ last \in Nat /\ DOMAIN lens = 1..last
      /\ lens \in [1..last -> Nat]
  <2> HIDE DEF s
  <2> QED BY <1>1, TurnLensType
<1>3. n \in 1..last /\ Reach(lens, n) >= SplitAt
  BY <1>2 DEF ReachedAt
<1>4. \A j \in 1..last : Reach(lens, j) >= SplitAt => n <= j
  BY <1>2 DEF ReachedAt
<1> HIDE DEF s
<1>5. 2 * n \in 0..Len(s) /\ 2 * n - 2 \in 0..(2 * n) /\ 2 * n - 2 = 2 * (n - 1)
      /\ n \in 0..last /\ n - 1 \in 0..last /\ n \in Nat
  <2>1. \A m \in Nat : \A j \in 1..(m \div 2) : 2 * j \in 0..m
    OBVIOUS
  <2> QED BY <1>2, <1>3, <2>1
<1>6. Len(steps) = 2 * n /\ Len(steps) \div 2 = n
  <2>1. Len(steps) = 2 * n
    BY <1>1, <1>5, TakeType
  <2>2. \A m \in Nat : (2 * m) \div 2 = m
    OBVIOUS
  <2> HIDE DEF steps
  <2> QED BY <1>5, <2>1, <2>2
<1>7. EventTokens(steps) = Reach(lens, n)
  BY <1>1, <1>5, TokensReach
<1>8. EventTokens(Take(steps, 2 * n - 2)) = Reach(lens, n - 1)
  <2> DEFINE p == n - 1
  <2>1. p \in 0..last /\ 2 * p = 2 * n - 2
    BY <1>5
  <2> HIDE DEF p, lens
  <2>2. EventTokens(Take(s, 2 * p)) = Reach(lens, p)
    BY <1>1, <2>1, TokensReach DEF lens
  <2>3. Take(steps, 2 * n - 2) = Take(s, 2 * n - 2)
    BY <1>1, <1>5, TakeTake
  <2> QED BY <2>1, <2>2, <2>3 DEF p
<1>9. Reach(lens, n - 1) < SplitAt
  <2> HIDE DEF lens
  <2>1. SplitAt \in Nat /\ SplitAt > 0
    BY ScoringAssumption
  <2>2. Reach(lens, n - 1) \in Nat /\ Reach(lens, 0) = 0
    BY <1>2, <1>5, ReachGrows, ReachNext
  <2>3. CASE n - 1 = 0
    BY <2>1, <2>2, <2>3
  <2>4. CASE n - 1 # 0
    <3>1. n - 1 \in 1..last /\ ~(n <= n - 1)
      BY <1>2, <1>5, <2>4
    <3>2. ~(Reach(lens, n - 1) >= SplitAt)
      BY <1>4, <3>1
    <3> QED BY <2>1, <2>2, <3>2
  <2> QED BY <2>3, <2>4
<1> HIDE DEF steps, lens
<1> QED BY <1>3, <1>6, <1>7, <1>8, <1>9 DEF steps, s

\* FitsWindow (threshold_split, train_rl.py's room for the summary and the
\* sweep's window): whatever the run, the prefix reaches the trigger and not a
\* turn earlier, the contents of what stands beside the summary leave it room,
\* what is left to predict fits behind it as EVENT blocks, and a sweep's
\* prefix is inside its window.
THEOREM CutsFitTheWindow == Spec => []FitsWindow
<1>1. CutsAsTold => FitsWindow
  <2> SUFFICES ASSUME CutsAsTold, cut # << >> PROVE FitsWindow
    BY DEF FitsWindow
  <2> DEFINE t == FromCollect(log)
             kt == KeepTurns(MaxSize, KeepFirst)
  <2>1. PICK u \in Cuts : cut = << u >>
    BY DEF CutsAsTold
  <2>2. Recorded(log) /\ cut[1] = u
    BY <2>1, ScoringAssumption DEF CutsAsTold
  <2>3. t \in Trail /\ t.continuation = << >> /\ t.steps \in Seq(Step)
    <3>1. t \in Trail /\ t.continuation = << >>
      BY <2>2, LoadedType
    <3> QED BY <3>1 DEF Trail
  <2>4. /\ SplitAt - Budget \in Nat /\ SplitAt \in Nat /\ Budget \in Nat
        /\ MinSummary \in Nat /\ KeepFirst \in Nat /\ MaxSize \in Nat
    BY ScoringAssumption
  <2>5. ASSUME caller = "threshold"
        PROVE  /\ EventTokens(u.steps) >= SplitAt
               /\ EventTokens(Take(u.steps, 2 * (Len(u.steps) \div 2) - 2)) < SplitAt
               /\ CompactionTokens(u, KeepFirst, kt)
                    + MinSummary + EventTokens(u.continuation) <= SplitAt
    <3> HIDE DEF t
    <3>1. /\ u \in ToSet(ThresholdSplit(t, SplitAt, MinPrefix, MinSuffix, SplitAt - Budget))
          /\ Fits(u)
      BY <2>5 DEF Cuts, t
    <3>2. PICK n \in ReachedAt(t) :
            LET rest == From(t.steps, 2 * n)
            IN  /\ \A j \in ReachedAt(t) : n <= j
                /\ u \in Trail /\ u.sys = << >> /\ u.task = t.task
                /\ u.steps = Take(t.steps, 2 * n)
                /\ \E k \in Nat : /\ k = TurnsThatFit(TurnLens(rest), SplitAt - Budget)
                                  /\ 2 * k <= Len(rest)
                                  /\ u.continuation = Take(rest, 2 * k)
      BY <2>3, <3>1, ThresholdCut
    <3>3. /\ Len(u.steps) \div 2 = n
          /\ EventTokens(u.steps) >= SplitAt
          /\ EventTokens(Take(u.steps, 2 * n - 2)) < SplitAt
      BY <2>3, <3>2, FirstReached
    <3>4. EventTokens(u.continuation) \in Nat /\ EventTokens(u.continuation) <= SplitAt - Budget
      <4> DEFINE rest == From(t.steps, 2 * n)
                 max == SplitAt - Budget
                 k == TurnsThatFit(TurnLens(rest), max)
      <4>1. 2 * n \in Nat
        BY <2>3, TurnLensType DEF ReachedAt
      <4>2. rest \in Seq(Step) /\ max \in Nat
        BY <2>3, <2>4, <4>1, FromAny
      <4>3. u.continuation = Take(rest, 2 * k)
        BY <3>2
      <4> HIDE DEF rest, max
      <4>4. EventTokens(Take(rest, 2 * k)) \in Nat /\ EventTokens(Take(rest, 2 * k)) <= max
        BY <4>2, CapFits
      <4> HIDE DEF k
      <4> QED BY <4>3, <4>4 DEF max
    <3>5. CompactionTokens(u, KeepFirst, kt) <= Budget - MinSummary
      BY <3>1 DEF Fits
    <3>6. CompactionTokens(u, KeepFirst, kt) \in Int
      <4>1. kt \in Int
        <5>1. \A m \in Int : \A f \in Nat : KeepTurns(m, f) \in Int
          BY DEF KeepTurns
        <5> QED BY <2>4, <5>1
      <4> HIDE DEF kt
      <4> QED BY <2>4, <3>2, <4>1, CompactionTokensType
    <3> HIDE DEF kt
    <3>7. CompactionTokens(u, KeepFirst, kt) + MinSummary + EventTokens(u.continuation) <= SplitAt
      BY <2>4, <3>4, <3>5, <3>6
    <3> QED BY <3>3, <3>7
  <2>6. ASSUME caller = "sweep" PROVE EventTokens(u.steps) \in WindowMin..WindowMax
    <3> HIDE DEF t
    <3> DEFINE cuts == SplitTurns(t, WindowMin, WindowMax, MinPrefix, MinSuffix)
               last == Len(t.steps) \div 2
    <3>1. PICK n \in cuts : u = [WithPrefix(t, 2 * n) EXCEPT !.sys = t.sys]
      BY <2>6 DEF Cuts, t
    <3>2. DOMAIN TurnLens(t.steps) = 1..last /\ last \in Nat
      BY <2>3, TurnLensType
    <3>3. n \in 1..last /\ Reach(TurnLens(t.steps), n) \in WindowMin..WindowMax
      BY <3>2 DEF SplitTurns
    <3> HIDE DEF last, cuts
    <3>4. u.steps = Take(t.steps, 2 * n)
      <4> DEFINE w == WithPrefix(t, 2 * n)
      <4>1. 2 * n \in Nat
        <5>1. \A m \in Nat : \A j \in 1..m : 2 * j \in Nat
          OBVIOUS
        <5> QED BY <3>2, <3>3, <5>1
      <4>2. w \in Trail /\ w.steps = Take(t.steps, 2 * n)
        BY <2>3, <4>1, PrefixType
      <4> HIDE DEF w
      <4> QED BY <3>1, <4>2 DEF Trail, w
    <3>5. EventTokens(Take(t.steps, 2 * n)) = Reach(TurnLens(t.steps), n)
      <4>1. n \in 0..last
        BY <3>2, <3>3
      <4> QED BY <2>3, <4>1, TokensReach DEF last
    <3> QED BY <3>3, <3>4, <3>5
  <2> QED BY <2>2, <2>5, <2>6 DEF FitsWindow
<1> QED BY CutsInitially, CutsStep, <1>1, PTL DEF Spec
=============================================================================
