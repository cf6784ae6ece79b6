------------------------------- MODULE Grading -------------------------------
(***************************************************************************)
(* How the output of an instance's tests becomes a grade                   *)
(* (src/tts/utils/mini_swe.py), as operators.  An output is a sequence of  *)
(* records: the markers "start" and "end", and the result of a test that   *)
(* "passed" or "failed"; a run that is cut off has no "end".               *)
(***************************************************************************)
EXTENDS Integers, Sequences, SequencesExt, FiniteSets, FiniteSetsExt

\* str.find: the first place, or 0 for none.
Find(output, mark) ==
  LET places == { i \in DOMAIN output : output[i].is = mark }
  IN  IF places = {} THEN 0 ELSE Min(places)

\* swe-bench: between the markers; the whole output if one is missing.
SwebenchContent(output) ==
  LET s == Find(output, "start")
      e == Find(output, "end")
  IN  IF 0 \in {s, e} THEN output ELSE SubSeq(output, s + 1, e - 1)

\* swe-smith: python's slice from the start marker; a missing end marker is
\* the index -1, which only costs the last character, and a missing start
\* marker leaves nothing.
SwesmithContent(output) ==
  LET s == Find(output, "start")
      e == Find(output, "end")
  IN  IF s = 0 THEN << >>
      ELSE SubSeq(output, s + 1, IF e = 0 THEN Len(output) ELSE e - 1)

\* The log parser: the last result of every test.
Passed(content) ==
  LET result(i, t) == content[i].is \in {"passed", "failed"} /\ content[i].test = t
  IN  { t \in { content[i].test : i \in DOMAIN content } :
          \E i \in DOMAIN content :
            /\ result(i, t) /\ content[i].is = "passed"
            /\ \A k \in (i + 1)..Len(content) : ~result(k, t) }

Report(gold, passed) == [success |-> gold \intersect passed, failure |-> gold \ passed]

\* A repository without a parser has every test fail.
SwebenchReports(gold, output, parser) ==
  [g \in DOMAIN gold |->
     Report(gold[g], IF parser THEN Passed(SwebenchContent(output)) ELSE {})]

SwesmithReports(gold, output) ==
  [g \in DOMAIN gold |-> Report(gold[g], Passed(SwesmithContent(output)))]

\* ResolvedStatus.FULL: no test of either list fails.
ResolvedBy(reports) == \A g \in DOMAIN reports : reports[g].failure = {}

\* The share of a list that passed, in hundredths; an empty list counts as
\* passed.
Score(report) ==
  LET total == Cardinality(report.success) + Cardinality(report.failure)
  IN  IF total > 0 THEN (100 * Cardinality(report.success)) \div total ELSE 100

PartialScore(reports) ==
  (Score(reports.fail_to_pass) + Score(reports.pass_to_pass)) \div 2
=============================================================================
