------------------------------- MODULE Sweep -------------------------------
(***************************************************************************)
(* The offline reward sweep (src/tts/sweep_reward.py): shards of           *)
(* (trajectory, turn) units scored by a thread pool, rows appended to one  *)
(* file per shard, and a killed sweep that is started again with --resume  *)
(* and continues from its file.                                            *)
(*                                                                         *)
(* A row is [traj, turn, spec, status]; a unit that fails as a whole has   *)
(* one row without a spec.  A file may end in a line cut by a kill.        *)
(***************************************************************************)
EXTENDS Integers, Sequences, SequencesExt, FiniteSets

CONSTANTS
  NTrajs,       \* trajectories, in the order of the listing
  Turns,        \* trajectory -> turns inside the token window
  Specs,        \* hXtY specs
  NShards,
  Concurrency,  \* --concurrency of each shard
  MaxLaunches,  \* bound: times each shard is launched
  NoSpec

ASSUME SweepAssumption ==
  /\ NTrajs \in Nat /\ NShards \in Nat \ {0} /\ Concurrency \in Nat \ {0}
  /\ Turns \in [1..NTrajs -> SUBSET Nat]
  /\ IsFiniteSet(Specs) /\ Specs # {} /\ NoSpec \notin Specs
  /\ MaxLaunches \in Nat \ {0}

Shards == 0..(NShards - 1)

VARIABLES
  launches, \* shard -> times it was launched
  up,       \* shard -> whether its process runs
  queue,    \* shard -> units submitted and not started
  running,  \* shard -> units in a worker
  ready,    \* shard -> units whose future is done, with their rows
  writing,  \* shard -> rows of the unit being written that are not in the file
  file,     \* shard -> rows in its file
  cut,      \* shard -> its file ends in an incomplete line
  split     \* history: shard -> units whose rows a kill divided

sweepVars == <<launches, up, queue, running, ready, writing, file, cut, split>>

Ofs_LastShardMissing(s) == { t \in 1..NTrajs : (t - 1) % (NShards + 1) = s }

\* trajectories[idx::n_shards]
Ofs(s) == { t \in 1..NTrajs : (t - 1) % NShards = s }

Units(s) == UNION { {t} \X Turns[t] : t \in Ofs(s) }

UnitOf(row) == <<row.traj, row.turn>>

Done_Succeeded(s) ==
  { UnitOf(r) : r \in { x \in ToSet(file[s]) : x.status = "ok" } }

\* Resume: every unit with a row, successful or not, is skipped.
Done(s) == { UnitOf(r) : r \in ToSet(file[s]) }

SweepInit ==
  /\ launches = [s \in Shards |-> 0] /\ up = [s \in Shards |-> FALSE]
  /\ queue = [s \in Shards |-> {}] /\ running = [s \in Shards |-> {}]
  /\ ready = [s \in Shards |-> {}] /\ writing = [s \in Shards |-> << >>]
  /\ file = [s \in Shards |-> << >>] /\ cut = [s \in Shards |-> FALSE]
  /\ split = [s \in Shards |-> {}]

\* main(): json.loads raises on an incomplete last line.
Launch(s) ==
  /\ ~up[s] /\ launches[s] < MaxLaunches
  /\ ~cut[s]
  /\ launches' = [launches EXCEPT ![s] = @ + 1]
  /\ up' = [up EXCEPT ![s] = TRUE]
  /\ queue' = [queue EXCEPT ![s] = Units(s) \ Done(s)]
  /\ UNCHANGED <<running, ready, writing, file, cut, split>>

HasWorker(s) == Cardinality(running[s]) < Concurrency

StartUnit(s, u) ==
  /\ u \in queue[s] /\ HasWorker(s)
  /\ queue' = [queue EXCEPT ![s] = @ \ {u}]
  /\ running' = [running EXCEPT ![s] = @ \union {u}]
  /\ UNCHANGED <<launches, up, ready, writing, file, cut, split>>

Row(u, spec, status) ==
  [traj |-> u[1], turn |-> u[2], spec |-> spec, status |-> status]

SpecSeq == SetToSeq(Specs)

UnitRows_StopsAtFailure(u) ==
  { << Row(u, NoSpec, "failed") >>, << Row(u, SpecSeq[1], "failed") >>,
    [i \in DOMAIN SpecSeq |-> Row(u, SpecSeq[i], "ok")] }

\* What sweep_one returns, or the row of the exception: one row for a unit
\* without a next action, summary or x context, otherwise one for every spec.
UnitRows(u) ==
  { << Row(u, NoSpec, "failed") >> } \union
  { [i \in DOMAIN SpecSeq |-> Row(u, SpecSeq[i], st[i])] :
      st \in [DOMAIN SpecSeq -> {"ok", "failed"}] }

Finish(s, u) ==
  /\ u \in running[s]
  /\ running' = [running EXCEPT ![s] = @ \ {u}]
  /\ \E rows \in UnitRows(u) : ready' = [ready EXCEPT ![s] = @ \union {rows}]
  /\ UNCHANGED <<launches, up, queue, writing, file, cut, split>>

\* The main thread takes finished units in any order and writes their rows one
\* after the other; the buffer of the file is handed to the system whenever it
\* is full, and flushed after the unit.
TakeUnit(s) ==
  /\ writing[s] = << >>
  /\ \E rows \in ready[s] : /\ writing' = [writing EXCEPT ![s] = rows]
                            /\ ready' = [ready EXCEPT ![s] = @ \ {rows}]
  /\ UNCHANGED <<launches, up, queue, running, file, cut, split>>

WriteRow(s) ==
  /\ writing[s] # << >>
  /\ file' = [file EXCEPT ![s] = Append(@, Head(writing[s]))]
  /\ writing' = [writing EXCEPT ![s] = Tail(@)]
  /\ UNCHANGED <<launches, up, queue, running, ready, cut, split>>

Idle(s) == /\ queue[s] = {} /\ running[s] = {} /\ ready[s] = {}
           /\ writing[s] = << >>

\* The pool is empty: the file is reloaded for the report.
EndShard(s) ==
  /\ up[s] /\ Idle(s)
  /\ up' = [up EXCEPT ![s] = FALSE]
  /\ UNCHANGED <<launches, queue, running, ready, writing, file, cut, split>>

\* A kill loses everything that is not in the file; between two rows of a unit
\* it may also cut the line being written.
KillShard(s) ==
  /\ up[s] /\ launches[s] < MaxLaunches
  /\ up' = [up EXCEPT ![s] = FALSE]
  /\ queue' = [queue EXCEPT ![s] = {}] /\ running' = [running EXCEPT ![s] = {}]
  /\ ready' = [ready EXCEPT ![s] = {}] /\ writing' = [writing EXCEPT ![s] = << >>]
  /\ \/ UNCHANGED cut
     \/ writing[s] # << >> /\ cut' = [cut EXCEPT ![s] = TRUE]
  /\ split' = [split EXCEPT ![s] =
                 @ \union (Done(s) \intersect { UnitOf(r) : r \in ToSet(writing[s]) })]
  /\ UNCHANGED <<launches, file>>

Work(s) == \/ \E u \in Units(s) : StartUnit(s, u) \/ Finish(s, u)
           \/ TakeUnit(s) \/ WriteRow(s) \/ EndShard(s)

SweepNext == \E s \in Shards : Launch(s) \/ Work(s) \/ KillShard(s)

\* Every call returns or raises; whoever runs the sweep launches it again.
Fairness == \A s \in Shards : WF_sweepVars(Work(s)) /\ WF_sweepVars(Launch(s))

SweepSpec == SweepInit /\ [][SweepNext]_sweepVars /\ Fairness

-----------------------------------------------------------------------------
(* load_rows: the rows of all shards, the last one of every key *)

AllRows == UNION { ToSet(file[s]) : s \in Shards }

Key(row) == <<UnitOf(row), row.spec>>

-----------------------------------------------------------------------------
(* Properties *)

AllUnits == UNION { {t} \X Turns[t] : t \in 1..NTrajs }

\* "Shards are disjoint": with --resume no key is written twice, by any shard
\* or launch.
KeysOnce ==
  \A s, r \in Shards : \A i \in DOMAIN file[s], j \in DOMAIN file[r] :
    Key(file[s][i]) = Key(file[r][j]) => s = r /\ i = j

\* "skipping on that key never loses a partial unit": what a resume skips is
\* complete, but for the one unit whose rows a kill of the shard divided.
SkippedUnitsComplete ==
  \A s \in Shards :
    ~up[s] => \A u \in Done(s) \ split[s] :
                LET specs == { r.spec : r \in { x \in ToSet(file[s]) : UnitOf(x) = u } }
                IN  specs \in {Specs, {NoSpec}}

\* Whatever is killed, the shards together come to cover every unit of the
\* listing, unless a shard's file was cut and cannot be resumed from.
AllSwept ==
  <>[]( \/ \E s \in Shards : cut[s]
        \/ AllUnits \subseteq { UnitOf(r) : r \in AllRows } )
=============================================================================
