-------------------------------- MODULE Patch --------------------------------
(***************************************************************************)
(* The reversal of a git diff (src/tts/utils/patch.py) as operators.       *)
(*                                                                         *)
(* A line of a diff is what its beginning says it is: "diff", "index",     *)
(* "hunk" (a header, with the two sides' start and count), "context",      *)
(* "minus", "plus", "nonl" (no newline at the end of the file), or "other" *)
(* (the file headers); text stands for the rest of it.                     *)
(***************************************************************************)
EXTENDS Integers, Sequences, SequencesExt, FiniteSetsExt

Kinds == {"diff", "index", "hunk", "context", "minus", "plus", "nonl", "other"}

As(kind, line) == [line EXCEPT !.kind = kind]

\* The first line at or behind i that is not in the set.
FirstNot(lines, i, inside) ==
  Min(((i..Len(lines)) \ inside) \union {Len(lines) + 1})

\* The end of a run of minus or plus lines, each with its marker if it has one.
RunEnd(lines, i, kind) ==
  FirstNot(lines, i, { j \in i..Len(lines) :
    \/ lines[j].kind = kind
    \/ lines[j].kind = "nonl" /\ j > i /\ lines[j - 1].kind = kind })

\* One side of a change group on the other side: the marker, wherever it was,
\* comes last.
Turned(run, from, to) ==
  [i \in DOMAIN SelectSeq(run, LAMBDA l : l.kind = from) |->
     As(to, SelectSeq(run, LAMBDA l : l.kind = from)[i])]
  \o (IF \E i \in DOMAIN run : run[i].kind = "nonl"
      THEN << CHOOSE l \in ToSet(run) : l.kind = "nonl" >> ELSE << >>)

ReverseHunk(lines) ==
  LET rest[i \in 1..(Len(lines) + 1)] ==
        IF i > Len(lines) THEN << >>
        ELSE IF lines[i].kind \notin {"minus", "plus"}
             THEN << lines[i] >> \o rest[i + 1]
        ELSE LET p == RunEnd(lines, i, "minus")
                 e == RunEnd(lines, p, "plus")
             IN  Turned(SubSeq(lines, p, e - 1), "plus", "minus")
                 \o Turned(SubSeq(lines, i, p - 1), "minus", "plus")
                 \o rest[e]
  IN  rest[1]

\* The two sides of a header change places; the file headers do not.
ReverseHeader(line) ==
  IF line.kind \in {"hunk", "index"}
  THEN [line EXCEPT !.old = line.new, !.new = line.old] ELSE line

\* A hunk ends at the next one or at the next file.
HunkEnd(lines, i) ==
  FirstNot(lines, i, { j \in DOMAIN lines : lines[j].kind \notin {"hunk", "diff"} })

ReverseDiff(lines) ==
  LET rest[i \in 1..(Len(lines) + 1)] ==
        IF i > Len(lines) THEN << >>
        ELSE IF lines[i].kind # "hunk"
             THEN << ReverseHeader(lines[i]) >> \o rest[i + 1]
        ELSE LET e == HunkEnd(lines, i + 1)
             IN  << ReverseHeader(lines[i]) >>
                 \o ReverseHunk(SubSeq(lines, i + 1, e - 1)) \o rest[e]
  IN  rest[1]

-----------------------------------------------------------------------------
(* What a hunk means *)

\* The lines of a side ("minus" for the old one), each with whether a newline
\* ends it.
Side(lines, kind) ==
  LET own(i) == lines[i].kind \in {"context", kind}
      idx == SetToSortSeq({ i \in DOMAIN lines : own(i) }, <)
  IN  [n \in DOMAIN idx |->
         [text |-> lines[idx[n]].text,
          newline |-> idx[n] = Len(lines) \/ lines[idx[n] + 1].kind # "nonl"]]

\* As git writes them: in a group minus before plus, and nothing of a side
\* behind a line of it without newline.
WellFormedHunk(lines) ==
  /\ \A i \in DOMAIN lines : lines[i].kind = "nonl" =>
       /\ i > 1 /\ lines[i - 1].kind # "nonl"
       /\ \A j \in (i + 1)..Len(lines) :
            lines[j].kind \in {"nonl", "plus"} /\ lines[i - 1].kind = "minus"
  /\ \A i \in DOMAIN lines : i < Len(lines) /\ lines[i].kind = "plus" =>
       lines[i + 1].kind # "minus"
=============================================================================
