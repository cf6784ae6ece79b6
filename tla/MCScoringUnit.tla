--------------------------- MODULE MCScoringUnit ---------------------------
(* Small instances of ScoringUnit, and facts about the operators of        *)
(* Trajectory over bounded inputs.                                         *)
EXTENDS ScoringUnit

\* What an agent does in one turn: a call with a short or a long result, a
\* call it reasoned about, two calls at once, an answer that is a format error.
TurnKinds == {"short", "long", "thought", "parallel", "format_error"}

Assistant(id, calls) == [Plain("assistant", id, 1) EXCEPT !.calls = calls]

Observation(id, size, of) == [Plain("tool", id, size) EXCEPT !.of = of]

TurnMessages(kind, id) ==
  CASE kind = "short" -> << Assistant(id, 1), Observation(id + 1, 1, id) >>
    [] kind = "long" -> << Assistant(id, 1), Observation(id + 1, 5, id) >>
    [] kind = "thought" -> << Assistant(id, 1) @@ [reasoning |-> TRUE],
                              Observation(id + 1, 1, id) >>
    [] kind = "parallel" -> << Assistant(id, 2), Observation(id + 1, 1, id),
                               Observation(id + 2, 1, id) >>
    [] kind = "format_error" -> << Plain("user", id, 1) >>

\* A run may end in a call that was never executed (the submission).
LogOf(kinds, submits) ==
  LET start == << Plain("system", 1, 1), Plain("user", 2, 1) >>
      turns == FoldLeft(LAMBDA msgs, kind :
                          msgs \o TurnMessages(kind, Len(msgs) + 1), start, kinds)
  IN  IF submits THEN Append(turns, Assistant(Len(turns) + 1, 1)) ELSE turns

CONSTANT MaxTurns \* bound: turns of a recorded run

MCRuns == {LogOf(kinds, submits) : kinds \in BoundedSeq(TurnKinds, MaxTurns),
                                   submits \in BOOLEAN}

MCSpecs == {[mask |-> FALSE, keepFirst |-> 4, keepLast |-> 1],
            [mask |-> TRUE, keepFirst |-> 4, keepLast |-> 0]}

MCThemes == << >>

MCDigestCap == [system |-> 2, user |-> 2, assistant |-> 2, tool |-> 4]

-----------------------------------------------------------------------------
\* from_collect_dict as the loop it is: at a call, take it and a result right
\* behind it.
FromCollectLoop(run) ==
  LET loop[i \in 1..(Len(run) + 2)] ==
        IF i > Len(run) THEN << >>
        ELSE IF run[i].role # "assistant" \/ run[i].calls = 0 THEN loop[i + 1]
        ELSE IF i < Len(run) /\ run[i + 1].role = "tool"
             THEN << run[i], run[i + 1] >> \o loop[i + 2]
        ELSE << run[i] >> \o loop[i + 1]
  IN  loop[1]

ASSUME FromCollectIsTheLoop ==
  \A len \in 0..5 :
    \A roles \in [1..len -> {"user", "tool", "talk", "call"}] :
      LET msg(i) == IF roles[i] \in {"talk", "call"}
                    THEN Assistant(i, IF roles[i] = "call" THEN 1 ELSE 0)
                    ELSE Plain(roles[i], i, 1)
          run == [i \in 1..len |-> msg(i)]
      IN  FromCollect(run).steps = FromCollectLoop(run)

\* A spec hXtY keeps Y turns: parse_spec undoes what build_z_scoring_messages
\* does to max_size.
ASSUME SpecsKeepTheirTurns ==
  \A x, y \in 0..6 : KeepTurns(MaxSizeOf(x, y), x) = y

\* Held out is held out: no trajectory is both, and none is lost.
ASSUME EvalIsHeldOut ==
  \A n, size \in 0..5 :
    \A r \in ToSet(ReserveEval(n, size, FALSE)) :
      r.eval \intersect r.train = {} /\ r.eval \union r.train = 1..n
        /\ Cardinality(r.eval) = size

\* An eval value is a mean of what was scored, between the least and the most.
ASSUME EvalIsAMean ==
  \A scores \in BoundedSeq(-1..2, 4) :
    LET ok == ToSet(scores) \ {2} \* 2 stands for a failure
    IN  /\ EvalMean(scores, 2) = << >> <=> ok = {}
        /\ \A e \in ToSet(EvalMean(scores, 2)) :
             e.n * Min(ok) <= e.sum /\ e.sum <= e.n * Max(ok)

\* The coverage of a summary does not depend on where the run was cut.
ASSUME CoverageIgnoresTheCut ==
  \A kinds \in [1..3 -> TurnKinds] :
    LET t == FromCollect(LogOf(kinds, FALSE))
        entities == [m \in ToSet(t.steps) |-> IF m.calls > 0 THEN {9} ELSE {m.size}]
    IN  \A n \in 0..Len(t.steps), mentioned \in SUBSET {5, 6} :
          CoverageReward(mentioned, WithPrefix(t, n), entities)
            = CoverageReward(mentioned, t, entities)

\* The copy term is nothing without a copied span and everything for a
\* transcription, never more, and never falls when more is copied.
ASSUME CopyTermRamps ==
  \A threshold \in {0, 30, 99}, of \in 1..4 :
    /\ CopyTerm([hits |-> 0, of |-> of], threshold) = 0
    /\ CopyTerm([hits |-> of, of |-> of], threshold) = 100
    /\ \A h \in 1..of : CopyTerm([hits |-> h - 1, of |-> of], threshold)
                          <= CopyTerm([hits |-> h, of |-> of], threshold)

\* A transcription has full overlap as soon as it has one n-gram; a text
\* shorter than n has none whatever it copies.
ASSUME OverlapOfCopies ==
  \A source \in BoundedSeq({"a", "b"}, 4) :
    \A i, j \in 1..Len(source) :
      LET part == SubSeq(source, i, j)
          o    == NgramOverlap(part, source, 2)
      IN  IF Len(part) >= 2 THEN o.hits = o.of ELSE o.hits = 0
=============================================================================
