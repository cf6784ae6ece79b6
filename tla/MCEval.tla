------------------------------- MODULE MCEval -------------------------------
(* Small instances of EvalRun, and facts about grading and about patches   *)
(* over bounded inputs.                                                    *)
EXTENDS EvalRun, Sequences

Grades == INSTANCE Grading

Diffs == INSTANCE Patch

Invocation(what, redo, grade, skip) ==
  [what |-> what, redo |-> redo, grade |-> grade, skip |-> skip]

\* An evaluation grades in process, and may redo, or leaves the grading to
\* grade_preds, which may skip what is graded.
MCOptions ==
  {Invocation("eval", TRUE, TRUE, FALSE), Invocation("eval", FALSE, TRUE, FALSE),
   Invocation("eval", FALSE, FALSE, FALSE)}
    \union {Invocation("grade", FALSE, TRUE, skip) : skip \in BOOLEAN}
    \union {Invocation("clean", FALSE, FALSE, FALSE)}

-----------------------------------------------------------------------------
Tests == {1, 2}

Outputs ==
  LET mark(m) == [is |-> m, test |-> 0]
      items == {mark("start"), mark("end")} \union
               [is : {"passed", "failed"}, test : Tests]
  IN  UNION { [1..n -> items] : n \in 0..4 }

Golds == [fail_to_pass : SUBSET Tests, pass_to_pass : SUBSET Tests]

\* The two numbers of a grade agree: an instance counts as resolved exactly
\* when its partial score is the full one, with empty lists and unknown
\* repositories too.
ASSUME GradesAgree ==
  \A output \in Outputs, gold \in Golds :
    \A r \in {Grades!SwebenchReports(gold, output, TRUE),
              Grades!SwebenchReports(gold, output, FALSE),
              Grades!SwesmithReports(gold, output)} :
      Grades!ResolvedBy(r) <=> Grades!PartialScore(r) = 100

\* Between its markers an output counts the same for both harnesses, and
\* nothing outside of them does; without a start marker swe-smith counts
\* nothing.
ASSUME MarkersBound ==
  \A output \in Outputs, gold \in Golds :
    LET s == Grades!Find(output, "start")
        e == Grades!Find(output, "end")
        inside == SubSeq(output, s + 1, e - 1)
    IN  /\ 0 < s /\ s < e =>
             \A all \in {Grades!SwebenchReports(gold, output, TRUE),
                         Grades!SwesmithReports(gold, output)} :
               all = [g \in DOMAIN gold |->
                        Grades!Report(gold[g], Grades!Passed(inside))]
        /\ s = 0 => \A g \in DOMAIN gold :
                      Grades!SwesmithReports(gold, output)[g].success = {}

-----------------------------------------------------------------------------
Line(kind, text) == [kind |-> kind, text |-> text, old |-> 0, new |-> 0]

\* Hunks of up to five lines; the text of a line is its place.
Hunks == { h \in UNION { { [i \in 1..n |-> Line(kinds[i], i)] :
                            kinds \in [1..n -> {"context", "minus", "plus", "nonl"}] } :
                        n \in 0..5 } : Diffs!WellFormedHunk(h) }

\* The reverse of a hunk has its two sides exchanged, with the newline at the
\* end of the file where it was, and is again a hunk as git writes it, whose
\* reverse is the first one.
ASSUME ReversalExchangesSides ==
  \A h \in Hunks :
    LET r == Diffs!ReverseHunk(h)
        sides(x) == <<Diffs!Side(x, "minus"), Diffs!Side(x, "plus")>>
    IN  /\ sides(r) = <<sides(h)[2], sides(h)[1]>>
        /\ Diffs!WellFormedHunk(r) /\ Diffs!ReverseHunk(r) = h

\* In a diff of several files and hunks every hunk is reversed by itself and
\* every header once: reversing twice gives the diff.
ASSUME ReversalTwice ==
  \A h1, h2 \in { h \in Hunks : Len(h) \in {2, 3} } :
    LET headers == << Line("diff", 0), [Line("index", 0) EXCEPT !.old = 1],
                      Line("other", 1), Line("other", 2) >>
        hunk(n, h) == << [Line("hunk", 0) EXCEPT !.old = n, !.new = n + 1] >> \o h
        back(n, h) == << [Line("hunk", 0) EXCEPT !.old = n + 1, !.new = n] >>
                      \o Diffs!ReverseHunk(h)
        diff == headers \o hunk(1, h1) \o hunk(9, h2) \o headers \o hunk(3, h2)
        r == Diffs!ReverseDiff(diff)
    IN  /\ Diffs!ReverseDiff(r) = diff
        /\ SubSeq(r, 5, Len(h1) + 5) = back(1, h1)
=============================================================================
