------------------------------ MODULE MCAgent ------------------------------
(* Small instances of SummarizingAgent. *)
EXTENDS SummarizingAgent

\* last_n_turns as the code finds it: the n-th tool message from the end,
\* then back to the tool message before that one.
LastNTurnsLoop(msgs, n) ==
  LET tools  == At(msgs, "tool")
      start  == CHOOSE i \in tools : Cardinality({t \in tools : t >= i}) = n
      before == {t \in tools : t < start}
      cut    == IF before = {} THEN 0
                ELSE CHOOSE t \in before : \A u \in before : u <= t
  IN  IF n <= 0 THEN << >>
      ELSE IF Cardinality(tools) < n THEN msgs ELSE From(msgs, cut)

\* The suffix LastNTurns describes is the one the loop computes, for every
\* arrangement of roles in up to five messages.
ASSUME LastNTurnsIsTheLoop ==
  \A len \in 0..5, n \in 0..4 :
    \A roles \in [1..len -> {"user", "assistant", "tool"}] :
      LET s == [i \in 1..len |-> Plain(roles[i], i, 1)]
      IN  LastNTurns(s, n) = LastNTurnsLoop(s, n)

\* A short output, a short one with a traceback, and a long one.
MCOutputs == {[size |-> 3, lines |-> 2, bug |-> FALSE],
              [size |-> 3, lines |-> 2, bug |-> TRUE],
              [size |-> 6, lines |-> 5, bug |-> TRUE]}

MCTaggedOutputs == {o \in MCOutputs : o.bug}

MCLongOutputs == {o \in MCOutputs : o.lines > 2}

Theme(start, end, in_progress, done) ==
  [start |-> start, end |-> end, in_progress |-> in_progress, done |-> done]

\* Caps of the digest: the long outputs do not fit, nor do the longer digests.
MCDigestCap == [system |-> 2, user |-> 2, assistant |-> 2, tool |-> 4]

\* What SUBTASK_SYSTEM_PROMPT asks for: contiguous ranges that span every
\* step, the last one (and only it) in progress.
MCContractThemes ==
  [n \in 1..20 |->
     {<<Theme(0, n - 1, TRUE, FALSE)>>} \union
     {<<Theme(0, k - 1, FALSE, TRUE), Theme(k, n - 1, TRUE, FALSE)>> :
        k \in 1..(n - 1)}]

\* The contract, and answers that are off it where the code is lenient: bounds
\* that are out of range or overlap, no theme marked as in progress.
MCLenientThemes ==
  [n \in 1..20 |->
     MCContractThemes[n] \union
     {<<Theme(-1, n + 2, TRUE, FALSE)>>, <<Theme(0, n, FALSE, TRUE)>>,
      <<Theme(-2, n - 1, FALSE, TRUE), Theme(n - 1, n - 1, TRUE, FALSE)>>}]

\* No theme in progress, and the bounds of the only one are swapped.
MCSwappedThemes == [n \in 1..20 |-> {<<Theme(n - 1, 0, FALSE, TRUE)>>}]
-----------------------------------------------------------------------------
\* Bound: a run in which an answer makes two calls at once segments no
\* subtasks and has only long outputs.
ParallelBound ==
  (\E i \in DOMAIN log : log[i].calls > 1) =>
    /\ strategy # "subtask"
    /\ \A i \in At(log, "tool") : log[i].lines > 2

BoundedNext == Next /\ ParallelBound'

BoundedSpec == Init /\ [][BoundedNext]_vars
=============================================================================
