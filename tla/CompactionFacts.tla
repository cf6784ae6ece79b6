-------------------------- MODULE CompactionFacts --------------------------
(***************************************************************************)
(* Facts about message histories and the operators of Compaction: prefixes *)
(* and suffixes, the three parts of a history, masking, concatenation.     *)
(***************************************************************************)
EXTENDS Compaction, FiniteFacts, SequenceTheorems

-----------------------------------------------------------------------------
(* Sequences of messages *)

\* A suffix that starts within the sequence is a sequence no longer than it.
LEMMA FromType ==
  ASSUME NEW S, NEW s \in Seq(S), NEW k \in 0..Len(s)
  PROVE  /\ From(s, k) \in Seq(S) /\ Len(From(s, k)) = Len(s) - k
         /\ \A i \in 1..(Len(s) - k) : From(s, k)[i] = s[k + i]
BY DEF From

\* The smaller of two numbers.
LEMMA MinOfTwo ==
  ASSUME NEW a \in Int, NEW b \in Int
  PROVE  Min({a, b}) = IF a <= b THEN a ELSE b
<1> DEFINE m == IF a <= b THEN a ELSE b
<1>1. m \in {a, b} /\ \A y \in {a, b} : m <= y
  OBVIOUS
<1>2. \A x \in {a, b} : (\A y \in {a, b} : x <= y) => x = m
  OBVIOUS
<1> HIDE DEF m
<1>3. (CHOOSE x \in {a, b} : \A y \in {a, b} : x <= y) = m
  BY <1>1, <1>2
<1> QED BY <1>3 DEF Min, m

\* A prefix, or the whole sequence when it is no longer.
LEMMA TakeType ==
  ASSUME NEW S, NEW s \in Seq(S), NEW n \in Nat
  PROVE  /\ Take(s, n) \in Seq(S)
         /\ Len(Take(s, n)) = IF n <= Len(s) THEN n ELSE Len(s)
         /\ \A i \in 1..Len(Take(s, n)) : Take(s, n)[i] = s[i]
<1> DEFINE m == IF n <= Len(s) THEN n ELSE Len(s)
<1>1. m \in 0..Len(s) /\ Len(s) \in Nat
  OBVIOUS
<1>2. Take(s, n) = SubSeq(s, 1, m)
  BY MinOfTwo DEF Take
<1> HIDE DEF m
<1>3. /\ SubSeq(s, 1, m) \in Seq(S) /\ Len(SubSeq(s, 1, m)) = m
      /\ \A i \in 1..m : SubSeq(s, 1, m)[i] = s[i]
  BY <1>1
<1> QED BY <1>2, <1>3 DEF m

\* The element of a sequence of length one.
LEMMA OnlyElement ==
  ASSUME NEW S, NEW s \in Seq(S), Len(s) = 1
  PROVE  s[1] \in S
<1>1. 1 \in 1..Len(s)
  OBVIOUS
<1>2. \A i \in 1..Len(s) : s[i] \in S
  OBVIOUS
<1> QED BY <1>1, <1>2

\* A set of positions up to k has at most k elements.
LEMMA PositionsBound ==
  ASSUME NEW k \in Nat, NEW P \in SUBSET (1..k)
  PROVE  IsFiniteSet(P) /\ Cardinality(P) \in 0..k
<1>1. IsFiniteSet(1..k)
  BY FS_Interval
<1>2. Cardinality(1..k) = k
  BY FS_Interval
<1>3. IsFiniteSet(P) /\ Cardinality(P) <= Cardinality(1..k)
  BY <1>1, FS_Subset
<1>4. Cardinality(P) \in Nat
  BY <1>3, FS_CardinalityType
<1> QED BY <1>2, <1>3, <1>4

\* LastNTurns cuts within the history.
LEMMA LastNTurnsType ==
  ASSUME NEW S, NEW msgs \in Seq(S), NEW n \in Nat
  PROVE  /\ LastNTurns(msgs, n) \in Seq(S)
         /\ Len(LastNTurns(msgs, n)) \in 0..Len(msgs)
         /\ LastNTurns(msgs, n) = From(msgs, Len(msgs) - Len(LastNTurns(msgs, n)))
<1> DEFINE tools   == At(msgs, "tool")
           rest(i) == Cardinality({t \in tools : t >= i})
           cut     == {i \in DOMAIN msgs : rest(i) > n}
<1>1. cut \in SUBSET (1..Len(msgs)) /\ Len(msgs) \in Nat
  OBVIOUS
<1>4. Cardinality(cut) \in 0..Len(msgs)
  <2> HIDE DEF cut
  <2> QED BY <1>1, PositionsBound
<1>5. From(msgs, Cardinality(cut)) \in Seq(S)
      /\ Len(From(msgs, Cardinality(cut))) = Len(msgs) - Cardinality(cut)
  <2> HIDE DEF cut
  <2> QED BY <1>4, FromType
<1>6. CASE n = 0
  <2>1. LastNTurns(msgs, n) = << >>
    BY <1>6 DEF LastNTurns
  <2>2. From(msgs, Len(msgs)) = << >>
    BY DEF From
  <2> QED BY <2>1, <2>2, <1>1
<1>7. CASE n > 0
  <2>1. LastNTurns(msgs, n) = From(msgs, Cardinality(cut))
    BY <1>7 DEF LastNTurns
  <2> HIDE DEF cut
  <2>2. Len(LastNTurns(msgs, n)) = Len(msgs) - Cardinality(cut)
    BY <2>1, <1>5
  <2>3. Cardinality(cut) = Len(msgs) - Len(LastNTurns(msgs, n))
    BY <2>2, <1>1, <1>4
  <2> QED BY <2>1, <2>2, <2>3, <1>1, <1>4, <1>5
<1> QED BY <1>6, <1>7

\* The three parts are what was there: up to f, up to a cut, the rest.
AreParts(s, S, msgs, f, cut) ==
  /\ cut \in f..Len(msgs)
  /\ s.head \in Seq(S) /\ Len(s.head) = f
  /\ \A i \in 1..f : s.head[i] = msgs[i]
  /\ s.middle \in Seq(S) /\ Len(s.middle) = cut - f
  /\ \A i \in 1..(cut - f) : s.middle[i] = msgs[f + i]
  /\ s.tail \in Seq(S) /\ s.tail = From(msgs, cut)

LEMMA Splits ==
  ASSUME NEW S, NEW msgs \in Seq(S), NEW f \in Nat, NEW l \in Nat,
         f <= Len(msgs)
  PROVE  AreParts(SplitHeadTail(msgs, f, l), S, msgs, f,
                  Len(msgs) - Len(LastNTurns(From(msgs, f), l)))
<1> DEFINE rest == From(msgs, f)
           tail == LastNTurns(rest, l)
           end  == Len(msgs) - Len(tail)
<1>0. rest \in Seq(S) /\ Len(rest) = Len(msgs) - f
  BY FromType
<1>1. tail \in Seq(S) /\ Len(tail) \in 0..(Len(msgs) - f)
      /\ tail = From(rest, Len(rest) - Len(tail))
  <2> HIDE DEF rest
  <2> QED BY <1>0, LastNTurnsType
<1>2. end \in f..Len(msgs)
  BY <1>1
<1>3. /\ Take(msgs, f) \in Seq(S) /\ Len(Take(msgs, f)) = f
      /\ \A i \in 1..f : Take(msgs, f)[i] = msgs[i]
  BY TakeType
<1>4. /\ SubSeq(msgs, f + 1, end) \in Seq(S)
      /\ Len(SubSeq(msgs, f + 1, end)) = end - f
      /\ \A i \in 1..(end - f) : SubSeq(msgs, f + 1, end)[i] = msgs[f + i]
  <2> HIDE DEF end
  <2> QED BY <1>2
<1>5. tail = From(msgs, end)
  <2> DEFINE k == Len(rest) - Len(tail)
  <2>1. k \in 0..Len(rest) /\ end = f + k
    BY <1>0, <1>1
  <2> HIDE DEF k, end, rest
  <2>2. /\ From(rest, k) \in Seq(S) /\ Len(From(rest, k)) = Len(rest) - k
        /\ \A i \in 1..(Len(rest) - k) : From(rest, k)[i] = rest[k + i]
    BY <2>1, <1>0, FromType
  <2>3. \A i \in 1..(Len(msgs) - f) : rest[i] = msgs[f + i]
    BY FromType DEF rest
  <2>4. /\ From(msgs, end) \in Seq(S) /\ Len(From(msgs, end)) = Len(msgs) - end
        /\ \A i \in 1..(Len(msgs) - end) : From(msgs, end)[i] = msgs[end + i]
    BY <1>2, FromType
  <2>5. Len(From(rest, k)) = Len(From(msgs, end))
    BY <2>1, <2>2, <2>4, <1>0
  <2>6. \A i \in 1..Len(From(rest, k)) : From(rest, k)[i] = From(msgs, end)[i]
    <3> SUFFICES ASSUME NEW i \in 1..Len(From(rest, k))
                 PROVE  From(rest, k)[i] = From(msgs, end)[i]
      OBVIOUS
    <3>1. From(rest, k)[i] = rest[k + i] /\ From(msgs, end)[i] = msgs[end + i]
      BY <2>1, <2>2, <2>4, <1>0, <1>2
    <3>2. k + i \in 1..(Len(msgs) - f) /\ f + (k + i) = end + i
      BY <2>1, <2>2, <1>0
    <3> QED BY <3>1, <3>2, <2>3
  <2>7. From(rest, k) = From(msgs, end)
    BY <2>2, <2>4, <2>5, <2>6, SeqEqual
  <2> QED BY <2>7, <1>1 DEF k
<1> HIDE DEF rest
<1> QED BY <1>1, <1>2, <1>3, <1>4, <1>5 DEF SplitHeadTail, rest, AreParts

LEMMA SplitParts ==
  ASSUME NEW S, NEW msgs \in Seq(S), NEW f \in Nat, NEW l \in Nat,
         f <= Len(msgs)
  PROVE  LET s   == SplitHeadTail(msgs, f, l)
             cut == Len(msgs) - Len(LastNTurns(From(msgs, f), l))
         IN  /\ cut \in f..Len(msgs)
             /\ s.head \in Seq(S) /\ Len(s.head) = f
             /\ \A i \in 1..f : s.head[i] = msgs[i]
             /\ s.middle \in Seq(S) /\ Len(s.middle) = cut - f
             /\ \A i \in 1..(cut - f) : s.middle[i] = msgs[f + i]
             /\ s.tail \in Seq(S) /\ s.tail = From(msgs, cut)
<1> DEFINE s   == SplitHeadTail(msgs, f, l)
           cut == Len(msgs) - Len(LastNTurns(From(msgs, f), l))
<1>1. AreParts(s, S, msgs, f, cut)
  BY Splits
<1> HIDE DEF s, cut
<1>2. /\ cut \in f..Len(msgs)
      /\ s.head \in Seq(S) /\ Len(s.head) = f
      /\ \A i \in 1..f : s.head[i] = msgs[i]
      /\ s.middle \in Seq(S) /\ Len(s.middle) = cut - f
      /\ \A i \in 1..(cut - f) : s.middle[i] = msgs[f + i]
      /\ s.tail \in Seq(S) /\ s.tail = From(msgs, cut)
  BY <1>1 DEF AreParts
<1> QED BY <1>2 DEF s, cut

\* Messages taken out of a history keep to what is said of them.
LEMMA SelectedType ==
  ASSUME NEW S, NEW msgs \in Seq(S), NEW P \in SUBSET (DOMAIN msgs)
  PROVE  Selected(msgs, P) \in Seq(S)
<1> DEFINE n == Cardinality(P)
           nth(k) == Nth(P, k)
<1>1. IsFiniteSet(P) /\ n \in Nat /\ P \in SUBSET Nat
  <2>1. P \in SUBSET (1..Len(msgs)) /\ Len(msgs) \in Nat
    OBVIOUS
  <2> QED BY <2>1, PositionsBound
<1>2. \A k \in 1..n : nth(k) \in P
  BY <1>1, Ranked DEF Nth
<1>3. \A i \in P : msgs[i] \in S
  OBVIOUS
<1> HIDE DEF nth, n
<1>4. [k \in 1..n |-> msgs[nth(k)]] \in [1..n -> S]
  BY <1>2, <1>3
<1>5. [k \in 1..n |-> msgs[nth(k)]] \in Seq(S)
  BY <1>1, <1>4
<1> QED BY <1>5 DEF Selected, n, nth

-----------------------------------------------------------------------------
(* What the strategies insert *)

\* A summary message of the kind the strategies insert.
Digest(role, size, covered) ==
  [Plain(role, 0, size) EXCEPT !.form = "summary", !.covers = covered]

LEMMA PlainType ==
  ASSUME NEW role \in Roles, NEW id \in Nat, NEW size \in Nat
  PROVE  Plain(role, id, size) \in Message
BY DEF Plain, Message

LEMMA InsertedType ==
  ASSUME NEW size \in Nat, NEW covered \in SUBSET Nat, NEW role \in Roles
  PROVE  /\ Digest(role, size, covered) \in Message
         /\ Digest(role, size, covered).id = 0
         /\ Digest(role, size, covered).form = "summary"
         /\ Digest(role, size, covered).role = role
         /\ Digest(role, size, covered).covers = covered
BY DEF Digest, Plain, Message, Roles

\* The call a summary stands behind.
SummaryCall == [Plain("assistant", 0, 1) EXCEPT !.form = "summary", !.calls = 1]

LEMMA SummaryCallType ==
  /\ SummaryCall \in Message /\ SummaryCall.id = 0
  /\ SummaryCall.form = "summary" /\ SummaryCall.role = "assistant"
  /\ SummaryCall.calls = 1
BY DEF SummaryCall, Plain, Message, Roles

\* What the messages at some positions tell is a set of ids.
LEMMA KnownType ==
  ASSUME NEW msgs \in Seq(Message), NEW positions \in SUBSET (DOMAIN msgs)
  PROVE  KnownAt(msgs, positions) \in SUBSET Nat
<1>1. \A m \in Message : m.id \in Nat /\ m.covers \in SUBSET Nat
  BY DEF Message
<1>2. \A i \in positions : msgs[i] \in Message
  OBVIOUS
<1> QED BY <1>1, <1>2 DEF KnownAt

\* A set of messages the strategy st does not leave: it masks or summarizes
\* into the set.
Closed(T, st) ==
  /\ st = "mask" =>
       \A m \in T : m.role = "tool" /\ ~KeepTagged(m) => Masked(m) \in T
  /\ st \in {"model", "cliff", "subtask"} =>
       \A m \in Message :
         m.id = 0 /\ m.form = "summary" /\ m.role # "system" => m \in T

\* Masking changes messages, never their number.
LEMMA MaskType ==
  ASSUME NEW T \in SUBSET Message, Closed(T, "mask"), NEW msgs \in Seq(T)
  PROVE  /\ MaskEnv(msgs) \in Seq(T) /\ Len(MaskEnv(msgs)) = Len(msgs)
         /\ \A i \in DOMAIN msgs :
              \/ MaskEnv(msgs)[i] = msgs[i]
              \/ msgs[i].role = "tool" /\ ~KeepTagged(msgs[i])
                   /\ MaskEnv(msgs)[i] = Masked(msgs[i])
<1>1. \A i \in DOMAIN msgs :
        \/ MaskEnv(msgs)[i] = msgs[i]
        \/ msgs[i].role = "tool" /\ ~KeepTagged(msgs[i])
             /\ MaskEnv(msgs)[i] = Masked(msgs[i])
  BY DEF MaskEnv, At
<1>2. \A i \in DOMAIN msgs : MaskEnv(msgs)[i] \in T
  <2>1. \A i \in DOMAIN msgs : msgs[i] \in T
    OBVIOUS
  <2> QED BY <1>1, <2>1 DEF Closed
<1>3. Len(msgs) \in Nat /\ DOMAIN msgs = 1..Len(msgs)
  OBVIOUS
<1>4. MaskEnv(msgs) \in [1..Len(msgs) -> T]
  <2>1. MaskEnv(msgs) = [i \in DOMAIN msgs |-> MaskEnv(msgs)[i]]
    BY DEF MaskEnv
  <2> QED BY <1>2, <1>3, <2>1
<1>5. \A f \in [1..Len(msgs) -> T] : f \in Seq(T) /\ Len(f) = Len(msgs)
  BY <1>3
<1> QED BY <1>1, <1>4, <1>5

\* A concatenation holds the messages of both parts.
LEMMA TwoParts ==
  ASSUME NEW T, NEW h \in Seq(T), NEW x \in Seq(T)
  PROVE  /\ h \o x \in Seq(T) /\ Len(h \o x) = Len(h) + Len(x)
         /\ \A i \in 1..Len(h) : (h \o x)[i] = h[i]
         /\ \A i \in 1..Len(x) : (h \o x)[Len(h) + i] = x[i]
OBVIOUS

\* So does one of a head, an insertion and a tail.
LEMMA ThreeParts ==
  ASSUME NEW T, NEW h \in Seq(T), NEW x \in Seq(T), NEW t \in Seq(T)
  PROVE  /\ (h \o x) \o t \in Seq(T)
         /\ Len((h \o x) \o t) = Len(h) + Len(x) + Len(t)
         /\ \A i \in 1..Len(h) : ((h \o x) \o t)[i] = h[i]
         /\ \A i \in 1..Len(x) : ((h \o x) \o t)[Len(h) + i] = x[i]
         /\ \A i \in 1..Len(t) : ((h \o x) \o t)[Len(h) + Len(x) + i] = t[i]
<1> DEFINE w == h \o x
<1>1. /\ w \in Seq(T) /\ Len(w) = Len(h) + Len(x)
      /\ \A i \in 1..Len(h) : w[i] = h[i]
      /\ \A i \in 1..Len(x) : w[Len(h) + i] = x[i]
  BY TwoParts
<1> HIDE DEF w
<1>2. /\ w \o t \in Seq(T) /\ Len(w \o t) = Len(w) + Len(t)
      /\ \A i \in 1..Len(w) : (w \o t)[i] = w[i]
      /\ \A i \in 1..Len(t) : (w \o t)[Len(w) + i] = t[i]
  <2>1. w \in Seq(T)
    BY <1>1
  <2> QED BY <2>1, TwoParts
<1>3. Len(h) \in Nat /\ Len(x) \in Nat /\ Len(t) \in Nat
  OBVIOUS
<1>4. \A i \in 1..Len(h) : (w \o t)[i] = h[i]
  <2> SUFFICES ASSUME NEW i \in 1..Len(h) PROVE (w \o t)[i] = h[i]
    OBVIOUS
  <2>1. i \in 1..Len(w)
    BY <1>1, <1>3
  <2> QED BY <1>1, <1>2, <2>1
<1>5. \A i \in 1..Len(x) : (w \o t)[Len(h) + i] = x[i]
  <2> SUFFICES ASSUME NEW i \in 1..Len(x)
               PROVE  (w \o t)[Len(h) + i] = x[i]
    OBVIOUS
  <2>1. Len(h) + i \in 1..Len(w)
    BY <1>1, <1>3
  <2> QED BY <1>1, <1>2, <2>1
<1>6. \A i \in 1..Len(t) : (w \o t)[Len(h) + Len(x) + i] = t[i]
  <2>1. Len(w) = Len(h) + Len(x)
    BY <1>1
  <2> QED BY <1>2, <2>1
<1> QED BY <1>1, <1>2, <1>4, <1>5, <1>6 DEF w

\* The greater of two numbers.
LEMMA MaxOfTwo ==
  ASSUME NEW a \in Int, NEW b \in Int
  PROVE  Max({a, b}) = IF a <= b THEN b ELSE a
<1> DEFINE m == IF a <= b THEN b ELSE a
<1>1. m \in {a, b} /\ \A y \in {a, b} : m >= y
  OBVIOUS
<1>2. \A x \in {a, b} : (\A y \in {a, b} : x >= y) => x = m
  OBVIOUS
<1> HIDE DEF m
<1>3. (CHOOSE x \in {a, b} : \A y \in {a, b} : x >= y) = m
  BY <1>1, <1>2
<1> QED BY <1>3 DEF Max, m

\* The least of some natural numbers.
LEMMA MinIn ==
  ASSUME NEW N \in SUBSET Nat, N # {}
  PROVE  Min(N) \in N /\ \A m \in N : Min(N) <= m
<1>1. \E n \in N : \A m \in N : n <= m
  BY Least
<1> QED BY <1>1 DEF Min

\* A prefix of a prefix.
LEMMA TakeTake ==
  ASSUME NEW S, NEW s \in Seq(S), NEW a \in 0..Len(s), NEW b \in 0..a
  PROVE  Take(Take(s, a), b) = Take(s, b)
<1>1. a \in Nat /\ b \in Nat /\ b <= a /\ a <= Len(s) /\ Len(s) \in Nat /\ b <= Len(s)
  OBVIOUS
<1> DEFINE w == Take(s, a)
           v == Take(w, b)
           u == Take(s, b)
<1>2. w \in Seq(S) /\ Len(w) = a /\ \A i \in 1..a : w[i] = s[i]
  BY <1>1, TakeType
<1>3. u \in Seq(S) /\ Len(u) = b /\ \A i \in 1..b : u[i] = s[i]
  BY <1>1, TakeType
<1> HIDE DEF w, u
<1>4. v \in Seq(S) /\ Len(v) = b /\ \A i \in 1..b : v[i] = w[i]
  BY <1>1, <1>2, TakeType
<1> HIDE DEF v
<1>5. \A i \in 1..b : v[i] = u[i]
  <2>1. \A i \in 1..b : i \in 1..a
    BY <1>1
  <2> QED BY <1>2, <1>3, <1>4, <2>1
<1> QED BY <1>3, <1>4, <1>5, SeqEqual DEF u, v, w

\* A suffix behind the end is empty.
LEMMA FromAny ==
  ASSUME NEW S, NEW s \in Seq(S), NEW k \in Nat
  PROVE  /\ From(s, k) \in Seq(S)
         /\ k >= Len(s) => From(s, k) = << >>
<1>1. CASE k <= Len(s)
  <2>1. From(s, k) \in Seq(S) /\ Len(From(s, k)) = Len(s) - k
    BY <1>1, FromType
  <2> QED BY <1>1, <2>1
<1>2. CASE ~(k <= Len(s))
  BY <1>2 DEF From
<1> QED BY <1>1, <1>2

\* The last turns, however few are asked for.
LEMMA LastNTurnsAny ==
  ASSUME NEW S, NEW msgs \in Seq(S), NEW n \in Int
  PROVE  LastNTurns(msgs, n) \in Seq(S) /\ Len(LastNTurns(msgs, n)) \in 0..Len(msgs)
<1>1. CASE n \in Nat
  BY <1>1, LastNTurnsType
<1>2. CASE n \notin Nat
  BY <1>2 DEF LastNTurns
<1> QED BY <1>1, <1>2

\* Wherever a history is split, the parts are histories.
LEMMA SplitType ==
  ASSUME NEW S, NEW msgs \in Seq(S), NEW f \in Nat, NEW l \in Int
  PROVE  LET s == SplitHeadTail(msgs, f, l)
         IN  s.head \in Seq(S) /\ s.middle \in Seq(S) /\ s.tail \in Seq(S)
<1> DEFINE rest == From(msgs, f)
           tail == LastNTurns(rest, l)
           end  == Len(msgs) - Len(tail)
<1>1. rest \in Seq(S)
  BY FromAny
<1>2. tail \in Seq(S) /\ Len(tail) \in 0..Len(rest)
  <2> HIDE DEF rest
  <2> QED BY <1>1, LastNTurnsAny
<1>3. Take(msgs, f) \in Seq(S)
  BY TakeType
<1>4. end <= Len(msgs) /\ end \in Int
  <2> HIDE DEF tail, rest
  <2> QED BY <1>1, <1>2
<1>5. SubSeq(msgs, f + 1, end) \in Seq(S)
  <2> HIDE DEF end
  <2>1. CASE f + 1 <= end
    BY <1>4, <2>1
  <2>2. CASE ~(f + 1 <= end)
    BY <1>4, <2>2
  <2> QED BY <2>1, <2>2
<1> QED BY <1>2, <1>3, <1>5 DEF SplitHeadTail

-----------------------------------------------------------------------------
(* Selections and sizes *)

\* How many of some positions are up to one of them: their rank.
LEMMA RankOrder ==
  ASSUME NEW P \in SUBSET Nat, IsFiniteSet(P)
  PROVE  LET rank(i) == Cardinality({j \in P : j <= i})
         IN  /\ \A i \in P : rank(i) \in 1..Cardinality(P)
             /\ \A i, j \in P : i < j => rank(i) < rank(j)
<1> DEFINE Upto(i) == {j \in P : j <= i}
           rank(i) == Cardinality(Upto(i))
<1>0. Cardinality(P) \in Nat /\ \A x \in P : x \in Nat
  BY FS_CardinalityType
<1>1. \A i \in P : /\ IsFiniteSet(Upto(i)) /\ rank(i) \in Nat
                   /\ rank(i) <= Cardinality(P)
  BY FS_Subset, FS_CardinalityType
<1>2. ASSUME NEW i \in P PROVE rank(i) \in 1..Cardinality(P)
  <2>1. i \in Upto(i)
    BY <1>0
  <2> HIDE DEF Upto
  <2>2. Cardinality(Upto(i)) # 0
    BY <1>1, <2>1, FS_EmptySet
  <2> QED BY <1>0, <1>1, <2>2
<1>3. ASSUME NEW i \in P, NEW j \in P, i < j PROVE rank(i) < rank(j)
  <2>1. Upto(i) \union {j} \in SUBSET Upto(j) /\ j \notin Upto(i)
    <3>1. \A x \in P : x <= i => x <= j
      BY <1>0, <1>3
    <3>2. ~(j <= i) /\ j <= j
      BY <1>0, <1>3
    <3> QED BY <3>1, <3>2
  <2> HIDE DEF Upto
  <2>2. Cardinality(Upto(i) \union {j}) = Cardinality(Upto(i)) + 1
    BY <1>1, <2>1, FS_AddElement
  <2>3. Cardinality(Upto(i) \union {j}) <= Cardinality(Upto(j))
    BY <1>1, <2>1, FS_Subset
  <2> QED BY <1>1, <2>2, <2>3
<1> QED BY <1>2, <1>3

\* Every position is the one of its rank.
LEMMA NthOnto ==
  ASSUME NEW P \in SUBSET Nat, IsFiniteSet(P), NEW i \in P
  PROVE  \E k \in 1..Cardinality(P) : Nth(P, k) = i
<1> DEFINE rank(j) == Cardinality({h \in P : h <= j})
           k == rank(i)
<1>1. /\ \A j \in P : rank(j) \in 1..Cardinality(P)
      /\ \A j, h \in P : j < h => rank(j) < rank(h)
  BY RankOrder
<1>2. k \in 1..Cardinality(P) /\ Cardinality(P) \in Nat
  BY <1>1, FS_CardinalityType
<1>3. Nth(P, k) \in P /\ rank(Nth(P, k)) = k
  BY <1>2, Ranked DEF Nth
<1>4. ASSUME NEW j \in P, rank(j) = rank(i) PROVE j = i
  <2>1. rank(i) \in Nat /\ ~(rank(i) < rank(i))
    BY <1>2
  <2>2. ~(j < i) /\ ~(i < j)
    <3> HIDE DEF rank
    <3> QED BY <1>1, <1>4, <2>1
  <2>3. j \in Nat /\ i \in Nat
    OBVIOUS
  <2> QED BY <2>2, <2>3
<1> HIDE DEF rank
<1> QED BY <1>2, <1>3, <1>4

\* The k-th positions are in order, and none is between two neighbours.
LEMMA NthOrder ==
  ASSUME NEW P \in SUBSET Nat, IsFiniteSet(P)
  PROVE  /\ \A k \in 1..Cardinality(P) : Nth(P, k) \in P
         /\ \A j, k \in 1..Cardinality(P) : j < k => Nth(P, j) < Nth(P, k)
         /\ \A k \in 1..Cardinality(P), i \in P :
              /\ k = 1 => Nth(P, 1) <= i
              /\ k > 1 /\ i > Nth(P, k - 1) => Nth(P, k) <= i
<1> DEFINE n == Cardinality(P)
           Upto(i) == {j \in P : j <= i}
           rank(i) == Cardinality(Upto(i))
<1>1. n \in Nat
  BY FS_CardinalityType
<1>2. \A i \in P : IsFiniteSet(Upto(i)) /\ rank(i) \in Nat
  BY FS_Subset, FS_CardinalityType
<1>3. \A i, j \in P : i < j => rank(i) < rank(j)
  BY RankOrder
<1>4. \A k \in 1..n : Nth(P, k) \in P /\ rank(Nth(P, k)) = k
  BY Ranked DEF Nth
<1>5. \A i \in P : rank(i) >= 1
  BY RankOrder
<1> HIDE DEF rank, n
<1>6. \A i \in P : i \in Nat
  OBVIOUS
<1>7. ASSUME NEW j \in 1..n, NEW k \in 1..n, j < k PROVE Nth(P, j) < Nth(P, k)
  <2>1. /\ Nth(P, j) \in P /\ Nth(P, k) \in P
        /\ rank(Nth(P, j)) = j /\ rank(Nth(P, k)) = k
    BY <1>4
  <2>2. Nth(P, k) < Nth(P, j) => k < j
    BY <1>3, <2>1
  <2>3. Nth(P, k) # Nth(P, j)
    BY <1>7, <1>1, <2>1
  <2>4. Nth(P, j) \in Nat /\ Nth(P, k) \in Nat /\ j \in Nat /\ k \in Nat
    <3>1. Nth(P, j) \in Nat
      BY <1>6, <2>1
    <3>2. Nth(P, k) \in Nat
      BY <1>6, <2>1
    <3>3. j \in Nat /\ k \in Nat
      BY <1>1
    <3> QED BY <3>1, <3>2, <3>3
  <2>5. ~(k < j)
    BY <1>7, <2>4
  <2> QED BY <2>2, <2>3, <2>4, <2>5
<1>8. ASSUME NEW k \in 1..n, NEW i \in P
      PROVE  /\ k = 1 => Nth(P, 1) <= i
             /\ k > 1 /\ i > Nth(P, k - 1) => Nth(P, k) <= i
  <2>1. Nth(P, k) \in P /\ rank(Nth(P, k)) = k
    BY <1>4
  <2>2. i < Nth(P, k) => rank(i) < k
    BY <1>3, <2>1
  <2>3. rank(i) \in Nat /\ rank(i) >= 1
    BY <1>2, <1>5
  <2>4. ASSUME k > 1, i > Nth(P, k - 1) PROVE rank(i) > k - 1
    <3>1. k - 1 \in 1..n
      BY <1>1, <2>4
    <3>2. Nth(P, k - 1) \in P /\ rank(Nth(P, k - 1)) = k - 1
      BY <1>4, <3>1
    <3>3. Nth(P, k - 1) < i
      BY <1>6, <2>4, <3>2
    <3> QED BY <1>1, <1>3, <2>3, <3>2, <3>3
  <2>5. Nth(P, k) \in Nat /\ i \in Nat /\ k \in Nat
    <3>1. Nth(P, k) \in Nat /\ i \in Nat
      BY <1>6, <2>1
    <3>2. k \in Nat
      BY <1>1
    <3> QED BY <3>1, <3>2
  <2>6. k = 1 => Nth(P, 1) <= i
    BY <2>2, <2>3, <2>5
  <2>7. k > 1 /\ i > Nth(P, k - 1) => Nth(P, k) <= i
    BY <2>2, <2>3, <2>4, <2>5
  <2> QED BY <2>6, <2>7
<1> QED BY <1>4, <1>7, <1>8 DEF n

\* The step at a position of the kept ones.
LEMMA SelectedAt ==
  ASSUME NEW S, NEW msgs \in Seq(S), NEW P \in SUBSET (DOMAIN msgs)
  PROVE  /\ P \in SUBSET Nat /\ IsFiniteSet(P) /\ Cardinality(P) \in Nat
         /\ Len(Selected(msgs, P)) = Cardinality(P)
         /\ \A k \in 1..Cardinality(P) : Selected(msgs, P)[k] = msgs[Nth(P, k)]
<1>1. DOMAIN msgs = 1..Len(msgs) /\ Len(msgs) \in Nat
  OBVIOUS
<1>2. P \in SUBSET (1..Len(msgs)) /\ P \in SUBSET Nat
  BY <1>1
<1>3. IsFiniteSet(P) /\ Cardinality(P) \in Nat
  BY <1>1, <1>2, PositionsBound
<1>4. Selected(msgs, P) = [k \in 1..Cardinality(P) |-> msgs[Nth(P, k)]]
  BY DEF Selected
<1> HIDE DEF Selected
<1> QED BY <1>2, <1>3, <1>4

\* The first m positions select a prefix.
LEMMA FirstSelected ==
  ASSUME NEW S, NEW s \in Seq(S), NEW m \in 0..Len(s)
  PROVE  Selected(s, 1..m) = [k \in 1..m |-> s[k]]
<1>1. m \in Nat /\ 1..m \in SUBSET Nat
  OBVIOUS
<1>2. IsFiniteSet(1..m) /\ Cardinality(1..m) = m
  BY <1>1, FS_Interval
<1>3. ASSUME NEW k \in 1..m PROVE Nth(1..m, k) = k
  <2> DEFINE i == Nth(1..m, k)
  <2>1. \E j \in 1..m : Cardinality({h \in 1..m : h <= j}) = k
    BY <1>1, <1>2, <1>3, Ranked
  <2>2. i \in 1..m /\ Cardinality({h \in 1..m : h <= i}) = k
    BY <2>1 DEF Nth
  <2> HIDE DEF i
  <2>3. {h \in 1..m : h <= i} = 1..i /\ i \in Nat
    BY <1>1, <2>2
  <2>4. Cardinality(1..i) = i
    BY <2>3, FS_Interval
  <2> QED BY <2>2, <2>3, <2>4 DEF i
<1>4. Selected(s, 1..m) = [k \in 1..m |-> s[Nth(1..m, k)]]
  BY <1>2 DEF Selected
<1> QED BY <1>3, <1>4

\* The sizes of some messages, summed.
SizeSum(m, S) == MapThenSumSet(LAMBDA i : m[i].size, S)

\* The recursion of MapThenSumSet on the sizes of some messages.
LEMMA SizeSums ==
  ASSUME NEW m, NEW S, IsFiniteSet(S), \A i \in S : m[i].size \in Nat
  PROVE  LET g == [i \in S |-> m[i].size]
         IN  /\ g \in [S -> Nat] /\ g \in [S -> Int]
             /\ \E h : /\ Sums(h, g, S)
                       /\ SizeSum(m, S) = h[S]
<1> DEFINE g == [i \in S |-> m[i].size]
           Body(h) == [T \in SUBSET S |->
                        IF T = {} THEN 0
                        ELSE m[CHOOSE x \in T : TRUE].size
                               + h[T \ {CHOOSE x \in T : TRUE}]]
           sums == CHOOSE h : h = Body(h)
<1>1. g \in [S -> Nat] /\ g \in [S -> Int]
  OBVIOUS
<1>2. \A h : Sums(h, g, S) <=> h = Body(h)
  <2>1. \A T \in SUBSET S : T # {} => g[Pick(T)] = m[Pick(T)].size
    BY PickIn
  <2> QED BY <2>1 DEF Sums, Pick
<1>3. \E h : h = Body(h)
  <2> HIDE DEF Body, g
  <2> QED BY <1>1, <1>2, SumsExist
<1>4. sums = Body(sums)
  <2> HIDE DEF Body
  <2> QED BY <1>3
<1>5. SizeSum(m, S) = sums[S]
  BY DEF SizeSum, MapThenSumSet, MapThenFoldSet
<1> QED BY <1>1, <1>2, <1>4, <1>5
=============================================================================
