---------------------------- MODULE OfflineProofs ----------------------------
(***************************************************************************)
(* Proofs about the two programs that fill a directory over several        *)
(* launches: the trajectory collection (Collect) and the reward sweep      *)
(* (Sweep).                                                                *)
(*                                                                         *)
(* Collect: CollectInv counts the completed files of an instance.  An      *)
(* instance that is waiting or with a worker is short of a run and has no  *)
(* file of this invocation yet, so the file a worker writes is new and     *)
(* counts one; what an invocation has finished with has, as long as        *)
(* nothing failed, one more than every clean invocation gave it.           *)
(*                                                                         *)
(* Sweep: ShardInv looks at the rows of the file followed by the rows      *)
(* being written, which writing a row leaves as they are.  A unit is in    *)
(* one place of the shard, so its rows are new when they are taken up.     *)
(***************************************************************************)
EXTENDS Collect, Sweep, FiniteSetTheorems, SequenceTheorems, TLAPS

-----------------------------------------------------------------------------
(* Collect *)

\* Instances waiting or with a worker.
Underway == todo \union { job[w] : w \in { x \in Workers : pc[x] # "idle" } }

AtMostAsked(n) == IF n < RunsPerInstance THEN n ELSE RunsPerInstance

CollectTyped ==
  /\ invocations \in Nat /\ clean \in Nat /\ failed \in BOOLEAN
  /\ pc \in [Workers -> {"idle", "environment", "agent", "grade", "write"}]
  /\ DOMAIN job = Workers /\ DOMAIN exit = Workers
  /\ todo \subseteq Instances
  /\ IsFiniteSet(files)
  /\ \A f \in files : f.run \in 0..invocations

\* An instance is in one place: waiting, or with one worker.
OnePlace ==
  /\ \A w \in Workers : pc[w] # "idle" => job[w] \in Instances \ todo
  /\ \A v, w \in Workers :
       v # w /\ pc[v] # "idle" /\ pc[w] # "idle" => job[v] # job[w]

\* An instance under way is short of a run and has no file of this invocation.
Short ==
  \A i \in Underway :
    /\ DoneCount(i) < RunsPerInstance
    /\ \A f \in files : f.instance = i => f.run # invocations

\* Without a failure, what is about to be written is a completed run.
NoneFailed ==
  ~failed => \A w \in Workers :
               pc[w] \in {"grade", "write"} => exit[w] \in DoneStatuses

\* Every clean invocation has added a run to what was short of one, and the
\* current one, as long as nothing failed, to all it has finished with.
Counted ==
  \A i \in Instances :
    /\ DoneCount(i) <= RunsPerInstance
    /\ DoneCount(i) >= AtMostAsked(clean)
    /\ ~failed /\ invocations > 0 /\ i \notin Underway
         => DoneCount(i) >= AtMostAsked(clean + 1)

CollectInv == CollectTyped /\ OnePlace /\ Short /\ NoneFailed /\ Counted

-----------------------------------------------------------------------------
\* The completed runs of an instance among some files.
DoneIn(F, i) == { f \in F : f.instance = i /\ Completed(f) }

LEMMA CountsDone ==
  ASSUME NEW i
  PROVE  /\ DoneCount(i) = Cardinality(DoneIn(files, i))
         /\ DoneCount(i)' = Cardinality(DoneIn(files', i))
BY DEF DoneCount, DoneIn, Completed

LEMMA DoneInFinite ==
  ASSUME NEW F, IsFiniteSet(F), NEW i
  PROVE  IsFiniteSet(DoneIn(F, i)) /\ Cardinality(DoneIn(F, i)) \in Nat
<1>1. IsFiniteSet(DoneIn(F, i))
  BY FS_Subset DEF DoneIn
<1> QED BY <1>1, FS_CardinalityType

\* Files that are not about i, or not completed, leave its count alone.
LEMMA CountKept ==
  ASSUME NEW F, NEW new, NEW i,
         \A f \in new : f.instance # i \/ ~Completed(f)
  PROVE  DoneIn(F \union new, i) = DoneIn(F, i)
BY DEF DoneIn

\* A new completed file counts one.
LEMMA CountAdds ==
  ASSUME NEW F, IsFiniteSet(F), NEW f, f \notin F, Completed(f)
  PROVE  Cardinality(DoneIn(F \union {f}, f.instance))
           = Cardinality(DoneIn(F, f.instance)) + 1
<1>1. DoneIn(F \union {f}, f.instance) = DoneIn(F, f.instance) \union {f}
      /\ f \notin DoneIn(F, f.instance)
  BY DEF DoneIn
<1> QED BY <1>1, DoneInFinite, FS_AddElement

LEMMA CollectInit == Init => CollectInv
<1> SUFFICES ASSUME Init PROVE CollectInv
  OBVIOUS
<1> USE CollectAssumption DEF Init
<1>1. Underway = {}
  BY DEF Underway
<1>2. IsFiniteSet(files)
  BY FS_EmptySet
<1>3. \A i : DoneCount(i) = 0
  <2>1. \A i : DoneIn(files, i) = {}
    BY DEF DoneIn
  <2> QED BY <2>1, CountsDone, FS_EmptySet
<1>4. CollectTyped
  BY <1>2 DEF CollectTyped
<1>5. OnePlace /\ Short /\ NoneFailed
  BY <1>1 DEF OnePlace, Short, NoneFailed
<1>6. Counted
  BY <1>3 DEF Counted, AtMostAsked
<1> QED BY <1>4, <1>5, <1>6 DEF CollectInv

\* A worker moves on inside its run and writes nothing.
LEMMA InsideRun ==
  ASSUME CollectInv, NEW w \in Workers, NEW to \in {"agent", "grade", "write"},
         pc[w] # "idle", pc' = [pc EXCEPT ![w] = to],
         UNCHANGED <<invocations, todo, job, files, clean>>,
         DOMAIN exit' = Workers,
         \A v \in Workers \ {w} : exit'[v] = exit[v],
         failed' \in BOOLEAN, failed => failed',
         ~failed' /\ to \in {"grade", "write"} => exit'[w] \in DoneStatuses
  PROVE  CollectInv'
<1> USE DEF CollectInv
<1>1. /\ pc'[w] = to /\ to # "idle"
      /\ \A v \in Workers \ {w} : pc'[v] = pc[v]
  BY DEF CollectTyped
<1>2. CollectTyped'
  BY DEF CollectTyped
<1>3. OnePlace'
  BY <1>1 DEF OnePlace
<1>4. Underway' = Underway
  <2>1. { x \in Workers : pc'[x] # "idle" } = { x \in Workers : pc[x] # "idle" }
    BY <1>1
  <2> QED BY <2>1 DEF Underway
<1>5. \A i : DoneCount(i)' = DoneCount(i)
  BY DEF DoneCount, Completed
<1>6. Short'
  BY <1>4, <1>5 DEF Short
<1>7. NoneFailed'
  BY <1>1 DEF NoneFailed
<1>8. Counted'
  BY <1>4, <1>5 DEF Counted, AtMostAsked
<1> QED BY <1>2, <1>3, <1>6, <1>7, <1>8

LEMMA InvokeStep ==
  ASSUME CollectInv, Invoke
  PROVE  CollectInv'
<1> USE CollectAssumption DEF CollectInv
<1>1. /\ todo = {} /\ invocations' = invocations + 1 /\ todo' = Pending
      /\ failed' = FALSE /\ clean' = CleanRuns
      /\ pc' = pc /\ job' = job /\ exit' = exit /\ files' = files
      /\ \A w \in Workers : pc[w] = "idle"
  BY DEF Invoke, threads, AllIdle
<1>2. \A i : DoneCount(i)' = DoneCount(i)
  BY <1>1 DEF DoneCount, Completed
<1>3. Underway = {} /\ Underway' = Pending
  BY <1>1 DEF Underway
<1>4. /\ clean' \in {clean, clean + 1}
      /\ clean' = clean + 1 => invocations > 0 /\ ~failed
  BY <1>1 DEF CleanRuns, Ended, CollectTyped
<1>9. clean' \in Nat
  <2>1. clean \in Nat
    BY DEF CollectTyped
  <2> QED BY <1>4, <2>1
<1>5. CollectTyped'
  <2>1. invocations' \in Nat /\ clean' \in Nat /\ failed' \in BOOLEAN
    <3>1. invocations \in Nat
      BY DEF CollectTyped
    <3>2. invocations' \in Nat
      BY <1>1, <3>1
    <3>3. failed' \in BOOLEAN
      BY <1>1
    <3> QED BY <1>9, <3>2, <3>3
  <2>2. \A f \in files' : f.run \in 0..invocations'
    BY <1>1 DEF CollectTyped
  <2>3. todo' \subseteq Instances
    BY <1>1 DEF Pending
  <2> QED BY <1>1, <2>1, <2>2, <2>3 DEF CollectTyped
<1>6. OnePlace' /\ NoneFailed'
  BY <1>1 DEF OnePlace, NoneFailed
<1>7. Short'
  BY <1>1, <1>2, <1>3 DEF Short, Pending, CollectTyped
<1>8. Counted'
  <2> SUFFICES ASSUME NEW i \in Instances
               PROVE  /\ DoneCount(i)' <= RunsPerInstance
                      /\ DoneCount(i)' >= AtMostAsked(clean)'
                      /\ i \notin Pending => DoneCount(i)' >= AtMostAsked(clean + 1)'
    BY <1>1, <1>3 DEF Counted
  <2>1. /\ DoneCount(i) <= RunsPerInstance /\ DoneCount(i) >= AtMostAsked(clean)
        /\ ~failed /\ invocations > 0 => DoneCount(i) >= AtMostAsked(clean + 1)
    BY <1>3 DEF Counted
  <2>3. DoneCount(i) \in Nat /\ clean \in Nat /\ RunsPerInstance \in Nat
    BY DoneInFinite, CountsDone DEF CollectTyped
  <2>2. i \notin Pending => DoneCount(i) >= RunsPerInstance
    BY <2>3 DEF Pending
  <2>4. DoneCount(i)' = DoneCount(i)
    BY <1>2
  <2>5. i \notin Pending => DoneCount(i) >= AtMostAsked(clean')
                          /\ DoneCount(i) >= AtMostAsked(clean' + 1)
    <3>1. ASSUME NEW n \in Nat, i \notin Pending PROVE DoneCount(i) >= AtMostAsked(n)
      BY <2>2, <2>3, <3>1 DEF AtMostAsked
    <3> QED BY <1>4, <2>3, <3>1
  <2>6. DoneCount(i) >= AtMostAsked(clean')
    BY <1>4, <2>1
  <2> QED BY <2>1, <2>4, <2>5, <2>6 DEF AtMostAsked
<1> QED BY <1>5, <1>6, <1>7, <1>8

LEMMA StartStep ==
  ASSUME CollectInv, NEW w \in Workers, Start(w)
  PROVE  CollectInv'
<1> USE DEF CollectInv
<1>1. PICK i \in todo : todo' = todo \ {i} /\ job' = [job EXCEPT ![w] = i]
  BY DEF Start
<1>2. /\ pc[w] = "idle" /\ pc' = [pc EXCEPT ![w] = "environment"]
      /\ exit' = [exit EXCEPT ![w] = None]
      /\ UNCHANGED <<invocations, files, failed, clean>>
  BY DEF Start
<1>3. /\ job'[w] = i /\ \A v \in Workers \ {w} : job'[v] = job[v] /\ pc'[v] = pc[v]
                                                 /\ exit'[v] = exit[v]
      /\ pc'[w] = "environment"
  BY <1>1, <1>2 DEF CollectTyped
<1>4. \A j : DoneCount(j)' = DoneCount(j)
  BY <1>2 DEF DoneCount, Completed
<1>5. Underway' = Underway
  BY <1>1, <1>2, <1>3 DEF Underway
<1>6. CollectTyped'
  BY <1>1, <1>2 DEF CollectTyped
<1>7. OnePlace'
  BY <1>1, <1>2, <1>3 DEF OnePlace, CollectTyped
<1>8. Short' /\ Counted'
  BY <1>2, <1>4, <1>5 DEF Short, Counted, AtMostAsked
<1>9. NoneFailed'
  BY <1>2, <1>3 DEF NoneFailed
<1> QED BY <1>6, <1>7, <1>8, <1>9

\* A worker is done with its instance: without a file, or with one.
LEMMA EndStep ==
  ASSUME CollectInv, NEW w \in Workers, pc[w] # "idle", End({w}),
         UNCHANGED <<invocations, todo, clean>>,
         \/ files' = files /\ failed' = TRUE
         \/ pc[w] = "write" /\ files' = files \union {File(w, FALSE)} /\ failed' = failed
  PROVE  CollectInv'
<1> USE DEF CollectInv
<1>0. PICK me, f : me = job[w] /\ f = File(w, FALSE)
  OBVIOUS
<1>1. /\ pc'[w] = "idle" /\ DOMAIN job' = Workers /\ DOMAIN exit' = Workers
      /\ \A v \in Workers \ {w} : pc'[v] = pc[v] /\ job'[v] = job[v] /\ exit'[v] = exit[v]
  BY DEF End
<1>2. f.run = invocations /\ f.instance = me /\ f.exit = exit[w] /\ f.cut = FALSE
  BY <1>0 DEF File
<1>3. files' \in {files, files \union {f}} /\ IsFiniteSet(files')
  BY <1>0, FS_AddElement DEF CollectTyped
<1>4. CollectTyped'
  <2>1. pc' \in [Workers -> {"idle", "environment", "agent", "grade", "write"}]
    BY DEF End, CollectTyped
  <2>2. \A g \in files' : g.run \in 0..invocations'
    BY <1>2, <1>3 DEF CollectTyped
  <2> QED BY <1>1, <1>3, <2>1, <2>2 DEF CollectTyped
<1>5. OnePlace'
  BY <1>1 DEF OnePlace
<1>6. me \in Underway /\ me \in Instances /\ Underway' = Underway \ {me}
  <2>1. job[w] \in Instances \ todo
    BY DEF OnePlace
  <2>2. \A v \in Workers \ {w} : pc[v] # "idle" => job[v] # job[w]
    BY DEF OnePlace
  <2>3. todo' = todo
    OBVIOUS
  <2> QED BY <1>0, <1>1, <2>1, <2>2, <2>3 DEF Underway
<1>7. \A i : i # me => DoneCount(i)' = DoneCount(i)
  <2> SUFFICES ASSUME NEW i, i # me PROVE DoneCount(i)' = DoneCount(i)
    OBVIOUS
  <2>1. DoneIn(files \union {f}, i) = DoneIn(files, i)
    BY <1>2 DEF DoneIn
  <2> QED BY <1>3, <2>1, CountsDone
<1>8. Short'
  BY <1>2, <1>3, <1>6, <1>7 DEF Short
<1>9. NoneFailed'
  BY <1>1 DEF NoneFailed
<1>10. \A i : /\ DoneCount(i) \in Nat /\ clean \in Nat /\ RunsPerInstance \in Nat
              /\ DoneCount(i)' \in Nat
  BY <1>3, DoneInFinite, CountsDone, CollectAssumption DEF CollectTyped
<1>11. /\ DoneCount(me)' \in {DoneCount(me), DoneCount(me) + 1}
       /\ ~failed' => DoneCount(me)' = DoneCount(me) + 1
  <2>1. f \notin files
    BY <1>2, <1>6 DEF Short
  <2>2. CASE files' = files /\ failed' = TRUE
    BY <2>2, CountsDone
  <2>3. CASE files' = files \union {f} /\ Completed(f)
    <3>1. Cardinality(DoneIn(files \union {f}, me)) = Cardinality(DoneIn(files, me)) + 1
      BY <1>2, <2>1, <2>3, CountAdds DEF CollectTyped
    <3> QED BY <2>3, <3>1, CountsDone
  <2>4. CASE pc[w] = "write" /\ files' = files \union {f} /\ failed' = failed /\ ~Completed(f)
    <3>1. DoneCount(me)' = DoneCount(me)
      <4>1. DoneIn(files \union {f}, me) = DoneIn(files, me)
        BY <2>4 DEF DoneIn
      <4> QED BY <2>4, <4>1, CountsDone
    <3>2. failed
      BY <1>2, <2>4 DEF NoneFailed, Completed
    <3> QED BY <2>4, <3>1, <3>2
  <2> QED BY <1>0, <2>2, <2>3, <2>4
<1>12. DoneCount(me) < RunsPerInstance
  BY <1>6 DEF Short
<1>13. Counted'
  <2> SUFFICES ASSUME NEW i \in Instances
               PROVE  /\ DoneCount(i)' <= RunsPerInstance
                      /\ DoneCount(i)' >= AtMostAsked(clean)
                      /\ ~failed' /\ invocations > 0 /\ i \notin Underway'
                           => DoneCount(i)' >= AtMostAsked(clean + 1)
    BY DEF Counted, AtMostAsked
  <2>1. /\ DoneCount(i) <= RunsPerInstance /\ DoneCount(i) >= AtMostAsked(clean)
        /\ ~failed /\ invocations > 0 /\ i \notin Underway
             => DoneCount(i) >= AtMostAsked(clean + 1)
    BY DEF Counted
  <2>2. ~failed' => ~failed
    OBVIOUS
  <2>3. CASE i = me
    BY <1>10, <1>11, <1>12, <2>1, <2>3 DEF AtMostAsked
  <2>4. CASE i # me
    BY <1>6, <1>7, <2>1, <2>2, <2>4
  <2> QED BY <2>3, <2>4
<1> QED BY <1>4, <1>5, <1>8, <1>9, <1>13

LEMMA KillStep ==
  ASSUME CollectInv, Kill
  PROVE  CollectInv'
<1> USE CollectAssumption DEF CollectInv
<1>1. PICK S \in SUBSET { w \in Workers : pc[w] = "write" } :
        files' = files \union { File(w, TRUE) : w \in S }
  BY DEF Kill
<1> DEFINE new == { File(w, TRUE) : w \in S }
<1>2. /\ todo' = {} /\ failed' = TRUE /\ invocations' = invocations /\ clean' = clean
      /\ pc' = [w \in Workers |-> "idle"] /\ DOMAIN job' = Workers /\ DOMAIN exit' = Workers
  BY DEF Kill, End
<1>3. \A f \in new : f.run = invocations /\ f.cut = TRUE
  BY DEF File
<1>4. IsFiniteSet(new)
  <2>1. IsFiniteSet(S)
    BY FS_Subset
  <2>2. [w \in S |-> File(w, TRUE)] \in Surjection(S, new)
    BY DEF Surjection
  <2> QED BY <2>1, <2>2, FS_Surjection
<1>5. IsFiniteSet(files')
  BY <1>1, <1>4, FS_Union DEF CollectTyped
<1> HIDE DEF new
<1>6. files' = files \union new
  BY <1>1 DEF new
<1>7. CollectTyped'
  BY <1>2, <1>3, <1>5, <1>6 DEF CollectTyped
<1>8. Underway' = {}
  BY <1>2 DEF Underway
<1>9. OnePlace' /\ Short' /\ NoneFailed'
  BY <1>2, <1>8 DEF OnePlace, Short, NoneFailed
<1>10. \A i : DoneCount(i)' = DoneCount(i)
  BY <1>3, <1>6, CountKept, CountsDone DEF Completed
<1>11. Counted'
  BY <1>2, <1>10 DEF Counted, AtMostAsked
<1> QED BY <1>7, <1>9, <1>11

LEMMA CollectStep ==
  ASSUME CollectInv, [Next]_vars
  PROVE  CollectInv'
<1>1. ASSUME NEW w \in Workers, Environment(w) PROVE CollectInv'
  <2>1. CASE pc' = [pc EXCEPT ![w] = "agent"] /\ UNCHANGED <<job, exit, failed>>
    BY <1>1, <2>1, InsideRun DEF Environment, CollectInv, CollectTyped
  <2>2. CASE End({w}) /\ failed' = TRUE
    BY <1>1, <2>2, EndStep DEF Environment
  <2> QED BY <1>1, <2>1, <2>2 DEF Environment
<1>2. ASSUME NEW w \in Workers, AgentEnds(w) PROVE CollectInv'
  <2>1. PICK status \in ExitStatuses :
       /\ exit' = [exit EXCEPT ![w] = status]
       /\ pc' = [pc EXCEPT ![w] = IF status \in DoneStatuses THEN "grade" ELSE "write"]
       /\ failed' = (failed \/ status \notin DoneStatuses)
    BY <1>2 DEF AgentEnds
  <2>2. /\ pc[w] # "idle" /\ UNCHANGED <<invocations, todo, job, files, clean>>
    BY <1>2 DEF AgentEnds
  <2>3. /\ DOMAIN exit' = Workers /\ exit'[w] = status
        /\ \A v \in Workers \ {w} : exit'[v] = exit[v]
        /\ failed' \in BOOLEAN /\ (failed => failed')
        /\ ~failed' => status \in DoneStatuses
    BY <2>1 DEF CollectInv, CollectTyped
  <2> DEFINE to == IF status \in DoneStatuses THEN "grade" ELSE "write"
  <2>4. to \in {"agent", "grade", "write"} /\ pc' = [pc EXCEPT ![w] = to]
    BY <2>1
  <2> HIDE DEF to
  <2> QED BY <2>2, <2>3, <2>4, InsideRun
<1>3. ASSUME NEW w \in Workers, Grade(w) PROVE CollectInv'
  BY <1>3, InsideRun DEF Grade, CollectInv, CollectTyped, NoneFailed
<1>4. ASSUME NEW w \in Workers, WriteFile(w) PROVE CollectInv'
  BY <1>4, EndStep DEF WriteFile
<1>5. CASE Interrupt
  <2>1. \A i : DoneCount(i)' = DoneCount(i)
    BY <1>5 DEF Interrupt, DoneCount, Completed
  <2>2. Underway' \subseteq Underway /\ pc' = pc /\ job' = job /\ exit' = exit
    BY <1>5 DEF Interrupt, Underway, threads
  <2> QED BY <1>5, <2>1, <2>2
      DEF Interrupt, CollectInv, CollectTyped, OnePlace, Short, NoneFailed, Counted, AtMostAsked
<1>6. CASE UNCHANGED vars
  <2>1. \A i : DoneCount(i)' = DoneCount(i)
    BY <1>6 DEF vars, DoneCount, Completed
  <2>2. Underway' = Underway /\ pc' = pc /\ job' = job /\ exit' = exit
    BY <1>6 DEF vars, Underway, threads
  <2> QED BY <1>6, <2>1, <2>2
      DEF vars, CollectInv, CollectTyped, OnePlace, Short, NoneFailed, Counted, AtMostAsked
<1> QED
  BY <1>1, <1>2, <1>3, <1>4, <1>5, <1>6, InvokeStep, StartStep, KillStep DEF Next, Thread

LEMMA CollectInvariant == Spec => []CollectInv
BY CollectInit, CollectStep, PTL DEF Spec

\* CollectsWhatWasAsked: whatever is interrupted or killed, no instance gets
\* more completed runs than asked for, and every clean invocation adds one to
\* what is short.
THEOREM CollectsExactly == Spec => []CollectsWhatWasAsked
<1>1. CollectInv => CollectsWhatWasAsked
  <2> SUFFICES ASSUME CollectInv, NEW i \in Instances
               PROVE  /\ DoneCount(i) <= RunsPerInstance
                      /\ Cardinality(Collected(i)) >= AtMostAsked(CleanRuns)
    BY DEF CollectsWhatWasAsked, AtMostAsked
  <2>1. Cardinality(Collected(i)) = DoneCount(i)
    BY DEF Collected, DoneCount, Completed
  <2>2. Ended => Underway = {}
    BY DEF Ended, AllIdle, Underway
  <2> QED BY <2>1, <2>2 DEF CollectInv, Counted, CleanRuns, Ended
<1> QED BY <1>1, CollectInvariant, PTL

-----------------------------------------------------------------------------
(* Sweep *)

AnyRow ==
  [traj : Nat, turn : Nat, spec : Specs \union {NoSpec}, status : {"ok", "failed"}]

\* The units and, of a unit, the specs that some rows are about.
UnitsIn(rows) == { UnitOf(rows[i]) : i \in DOMAIN rows }

SpecsIn(rows, u) == { rows[i].spec : i \in { j \in DOMAIN rows : UnitOf(rows[j]) = u } }

DistinctKeys(rows) ==
  \A i, j \in DOMAIN rows : Key(rows[i]) = Key(rows[j]) => i = j

ReadyUnits(done) == UNION { UnitsIn(rows) : rows \in done }

\* A unit is in one place: waiting, with a worker, done, or in the rows that
\* are written or being written.
UnitOnce(waiting, inWorker, done, rows) ==
  /\ waiting \intersect inWorker = {}
  /\ (waiting \union inWorker) \intersect ReadyUnits(done) = {}
  /\ (waiting \union inWorker \union ReadyUnits(done)) \intersect UnitsIn(rows) = {}
  /\ \A x, y \in done : x # y => UnitsIn(x) \intersect UnitsIn(y) = {}

\* What is written and what is being written, together, has every unit in full
\* except those a kill divided.
WholeUnits(rows, divided) ==
  \A u \in UnitsIn(rows) \ divided : SpecsIn(rows, u) \in {Specs, {NoSpec}}

ShardInv(s, on, waiting, inWorker, done, left, written, divided) ==
  /\ waiting \subseteq Units(s) /\ inWorker \subseteq Units(s)
  /\ \A rows \in done : \E u \in Units(s) : rows \in UnitRows(u)
  /\ left \in Seq(AnyRow) /\ written \in Seq(AnyRow)
  /\ UnitsIn(written \o left) \subseteq Units(s)
  /\ UnitOnce(waiting, inWorker, done, written \o left)
  /\ DistinctKeys(written \o left)
  /\ WholeUnits(written \o left, divided)
  /\ ~on => waiting = {} /\ inWorker = {} /\ done = {} /\ left = << >>

SweepInv ==
  /\ \A v \in {up, queue, running, ready, writing, file, split} : DOMAIN v = Shards
  /\ \A s \in Shards :
       ShardInv(s, up[s], queue[s], running[s], ready[s], writing[s], file[s], split[s])

-----------------------------------------------------------------------------
\* SetToSeq lists every spec once.
LEMMA SpecSeqLists ==
  /\ SpecSeq \in [1..Cardinality(Specs) -> Specs]
  /\ Cardinality(Specs) \in Nat
  /\ \A i, j \in DOMAIN SpecSeq : SpecSeq[i] = SpecSeq[j] => i = j
  /\ \A x \in Specs : \E i \in DOMAIN SpecSeq : SpecSeq[i] = x
<1> DEFINE n == Cardinality(Specs)
<1>1. IsFiniteSet(Specs)
  BY SweepAssumption
<1>2. n \in Nat /\ ExistsBijection(1..n, Specs)
  BY <1>1, FS_CardinalityType
<1>3. \E f \in [1..n -> Specs] : IsInjective(f)
  BY <1>2 DEF ExistsBijection, Bijection, Injection
<1>4. SpecSeq \in [1..n -> Specs] /\ IsInjective(SpecSeq)
  BY <1>3 DEF SpecSeq, SetToSeq
<1>5. SpecSeq \in Injection(1..n, Specs)
  BY <1>4 DEF Injection
<1>6. Cardinality(1..n) = n
  BY <1>2, FS_Interval
<1>7. SpecSeq \in Surjection(1..n, Specs)
  BY <1>1, <1>5, <1>6, FS_Injection
<1> QED BY <1>2, <1>4, <1>7 DEF IsInjective, Surjection

LEMMA SpecSeqLen == SpecSeq \in Seq(Specs) /\ SpecSeq # << >>
<1>1. PICK x \in Specs : TRUE
  BY SweepAssumption
<1>2. PICK i \in DOMAIN SpecSeq : SpecSeq[i] = x
  BY SpecSeqLists
<1> QED BY <1>2, SpecSeqLists

LEMMA UnitShape ==
  ASSUME NEW s, NEW u \in Units(s)
  PROVE  u[1] \in Ofs(s) /\ u[1] \in Nat /\ u[2] \in Nat /\ u = <<u[1], u[2]>>
BY SweepAssumption DEF Units, Ofs

\* Units of different shards are different.
LEMMA ShardsDisjoint ==
  ASSUME NEW s, NEW r, NEW u, u \in Units(s), u \in Units(r)
  PROVE  s = r
BY UnitShape DEF Ofs

\* The rows of one unit.
LEMMA RowsOfUnit ==
  ASSUME NEW s, NEW u \in Units(s), NEW rows \in UnitRows(u)
  PROVE  /\ rows \in Seq(AnyRow) /\ rows # << >>
         /\ UnitsIn(rows) = {u}
         /\ DistinctKeys(rows)
         /\ SpecsIn(rows, u) \in {Specs, {NoSpec}}
<1>1. u[1] \in Nat /\ u[2] \in Nat /\ u = <<u[1], u[2]>>
  BY UnitShape
<1>2. CASE rows = << Row(u, NoSpec, "failed") >>
  <2>1. /\ Row(u, NoSpec, "failed") \in AnyRow /\ UnitOf(Row(u, NoSpec, "failed")) = u
        /\ Row(u, NoSpec, "failed").spec = NoSpec
    BY <1>1 DEF Row, AnyRow, UnitOf
  <2>2. rows \in Seq(AnyRow) /\ DOMAIN rows = {1} /\ rows[1] = Row(u, NoSpec, "failed")
    BY <1>2, <2>1
  <2>3. UnitsIn(rows) = {u} /\ DistinctKeys(rows)
    BY <2>1, <2>2 DEF UnitsIn, DistinctKeys
  <2>4. SpecsIn(rows, u) = {NoSpec}
    BY <2>1, <2>2 DEF SpecsIn
  <2>5. rows # << >>
    BY <1>2
  <2> QED BY <2>2, <2>3, <2>4, <2>5
<1>3. ASSUME NEW st \in [DOMAIN SpecSeq -> {"ok", "failed"}],
             rows = [i \in DOMAIN SpecSeq |-> Row(u, SpecSeq[i], st[i])]
      PROVE  /\ rows \in Seq(AnyRow) /\ rows # << >>
             /\ UnitsIn(rows) = {u} /\ DistinctKeys(rows) /\ SpecsIn(rows, u) = Specs
  <2>1. \A i \in DOMAIN SpecSeq :
          /\ rows[i] \in AnyRow /\ UnitOf(rows[i]) = u /\ rows[i].spec = SpecSeq[i]
    BY <1>1, <1>3, SpecSeqLists DEF Row, AnyRow, UnitOf
  <2>2. DOMAIN rows = DOMAIN SpecSeq /\ DOMAIN SpecSeq # {}
    BY <1>3, SpecSeqLen
  <2>3. rows \in Seq(AnyRow) /\ rows # << >>
    <3>1. DOMAIN rows = 1..Cardinality(Specs)
      BY <2>2, SpecSeqLists
    <3>2. rows = [i \in 1..Cardinality(Specs) |-> rows[i]]
      BY <1>3, <3>1, <2>2
    <3>3. rows \in [1..Cardinality(Specs) -> AnyRow]
      BY <2>1, <2>2, <3>1, <3>2
    <3> QED BY <3>3, <3>1, <2>2, SpecSeqLists, SpecSeqLen
  <2>4. UnitsIn(rows) = {u}
    BY <2>1, <2>2 DEF UnitsIn
  <2>5. DistinctKeys(rows)
    BY <2>1, <2>2, SpecSeqLists DEF DistinctKeys, Key
  <2>6. SpecsIn(rows, u) = Specs
    <3>1. { j \in DOMAIN rows : UnitOf(rows[j]) = u } = DOMAIN SpecSeq
      BY <2>1, <2>2
    <3>2. SpecsIn(rows, u) = { SpecSeq[i] : i \in DOMAIN SpecSeq }
      BY <2>1, <3>1 DEF SpecsIn
    <3> QED BY <3>2, SpecSeqLists
  <2> QED BY <2>3, <2>4, <2>5, <2>6
<1> QED BY <1>2, <1>3 DEF UnitRows

LEMMA Concat ==
  ASSUME NEW f \in Seq(AnyRow), NEW w \in Seq(AnyRow)
  PROVE  /\ f \o w \in Seq(AnyRow)
         /\ DOMAIN f = 1..Len(f) /\ DOMAIN w = 1..Len(w)
         /\ DOMAIN (f \o w) = 1..(Len(f) + Len(w))
         /\ \A i \in DOMAIN f : i \in DOMAIN (f \o w) /\ (f \o w)[i] = f[i]
         /\ \A i \in DOMAIN w : Len(f) + i \in DOMAIN (f \o w) /\ (f \o w)[Len(f) + i] = w[i]
         /\ \A i \in DOMAIN (f \o w) :
              IF i <= Len(f) THEN i \in DOMAIN f /\ (f \o w)[i] = f[i]
              ELSE i - Len(f) \in DOMAIN w /\ (f \o w)[i] = w[i - Len(f)]
BY ConcatProperties

LEMMA ConcatUnits ==
  ASSUME NEW f \in Seq(AnyRow), NEW w \in Seq(AnyRow)
  PROVE  /\ UnitsIn(f \o w) = UnitsIn(f) \union UnitsIn(w)
         /\ \A u : SpecsIn(f \o w, u) = SpecsIn(f, u) \union SpecsIn(w, u)
<1> HIDE DEF UnitOf
<1>1. UnitsIn(f \o w) = UnitsIn(f) \union UnitsIn(w)
  <2>1. UnitsIn(f \o w) \subseteq UnitsIn(f) \union UnitsIn(w)
    BY Concat DEF UnitsIn
  <2>2. UnitsIn(f) \subseteq UnitsIn(f \o w)
    BY Concat DEF UnitsIn
  <2>3. UnitsIn(w) \subseteq UnitsIn(f \o w)
    <3> SUFFICES ASSUME NEW i \in DOMAIN w PROVE UnitOf(w[i]) \in UnitsIn(f \o w)
      BY DEF UnitsIn
    <3>1. Len(f) + i \in DOMAIN (f \o w) /\ (f \o w)[Len(f) + i] = w[i]
      BY Concat
    <3> QED BY <3>1 DEF UnitsIn
  <2> QED BY <2>1, <2>2, <2>3
<1>2. ASSUME NEW u PROVE SpecsIn(f \o w, u) = SpecsIn(f, u) \union SpecsIn(w, u)
  <2>1. ASSUME NEW x \in SpecsIn(f \o w, u) PROVE x \in SpecsIn(f, u) \union SpecsIn(w, u)
    <3>1. PICK i \in DOMAIN (f \o w) : UnitOf((f \o w)[i]) = u /\ x = (f \o w)[i].spec
      BY DEF SpecsIn
    <3> QED BY <3>1, Concat DEF SpecsIn
  <2>2. SpecsIn(f, u) \subseteq SpecsIn(f \o w, u)
    BY Concat DEF SpecsIn
  <2>3. SpecsIn(w, u) \subseteq SpecsIn(f \o w, u)
    <3> SUFFICES ASSUME NEW i \in DOMAIN w, UnitOf(w[i]) = u
                 PROVE  w[i].spec \in SpecsIn(f \o w, u)
      BY DEF SpecsIn
    <3>1. Len(f) + i \in DOMAIN (f \o w) /\ (f \o w)[Len(f) + i] = w[i]
      BY Concat
    <3> QED BY <3>1 DEF SpecsIn
  <2> QED BY <2>1, <2>2, <2>3
<1> QED BY <1>1, <1>2

LEMMA ConcatKeys ==
  ASSUME NEW f \in Seq(AnyRow), NEW w \in Seq(AnyRow),
         DistinctKeys(f), DistinctKeys(w), UnitsIn(f) \intersect UnitsIn(w) = {}
  PROVE  DistinctKeys(f \o w)
<1>1. \A i \in DOMAIN f, j \in DOMAIN w : UnitOf(f[i]) # UnitOf(w[j])
  BY DEF UnitsIn
<1>2. \A i \in DOMAIN f, j \in DOMAIN w : Key(f[i]) # Key(w[j])
  BY <1>1 DEF Key
<1> SUFFICES ASSUME NEW i \in DOMAIN (f \o w), NEW j \in DOMAIN (f \o w),
                    Key((f \o w)[i]) = Key((f \o w)[j])
             PROVE  i = j
  BY DEF DistinctKeys
<1>3. Len(f) \in Nat /\ i \in Nat /\ j \in Nat
  BY Concat
<1>4. CASE i <= Len(f) /\ j <= Len(f)
  BY <1>4, Concat DEF DistinctKeys
<1>5. CASE ~(i <= Len(f)) /\ ~(j <= Len(f))
  <2>1. i - Len(f) = j - Len(f)
    BY <1>5, Concat DEF DistinctKeys
  <2> QED BY <1>3, <2>1
<1>6. CASE i <= Len(f) /\ ~(j <= Len(f))
  BY <1>2, <1>6, Concat
<1>7. CASE ~(i <= Len(f)) /\ j <= Len(f)
  BY <1>2, <1>7, Concat
<1> QED BY <1>4, <1>5, <1>6, <1>7

LEMMA PrefixKeys ==
  ASSUME NEW f \in Seq(AnyRow), NEW w \in Seq(AnyRow), DistinctKeys(f \o w)
  PROVE  DistinctKeys(f)
BY Concat DEF DistinctKeys

\* Writing a row moves it from what is left to what is written.
LEMMA RowMoves ==
  ASSUME NEW f \in Seq(AnyRow), NEW w \in Seq(AnyRow), w # << >>
  PROVE  /\ Append(f, Head(w)) \in Seq(AnyRow) /\ Tail(w) \in Seq(AnyRow)
         /\ Append(f, Head(w)) \o Tail(w) = f \o w
<1>1. Head(w) \in AnyRow /\ Tail(w) \in Seq(AnyRow) /\ <<Head(w)>> \in Seq(AnyRow)
  BY HeadTailProperties
<1>2. Append(f, Head(w)) = f \o <<Head(w)>>
  BY <1>1, AppendIsConcat
<1>3. <<Head(w)>> \o Tail(w) = w
  BY <1>1
<1> QED BY <1>1, <1>2, <1>3, ConcatAssociative, AppendProperties

-----------------------------------------------------------------------------
(* What each step does to the shard it is about *)

LEMMA DoneUnits ==
  ASSUME NEW s \in Shards
  PROVE  /\ Done(s) = UnitsIn(file[s]) /\ Done(s)' = UnitsIn(file'[s])
         /\ { UnitOf(r) : r \in ToSet(writing[s]) } = UnitsIn(writing[s])
BY DEF Done, UnitsIn, ToSet

LEMMA LaunchShard ==
  ASSUME NEW s, NEW q, NEW r, NEW d, NEW w, NEW f, NEW x, NEW on,
         r = {}, d = {}, w = << >>, ShardInv(s, on, q, r, d, w, f, x)
  PROVE  ShardInv(s, TRUE, Units(s) \ UnitsIn(f), r, d, w, f, x)
<1>1. r = {} /\ d = {} /\ w = << >> /\ f \in Seq(AnyRow) /\ w \in Seq(AnyRow)
  BY DEF ShardInv
<1>2. UnitsIn(f \o w) = UnitsIn(f)
  BY <1>1, ConcatEmptySeq
<1>3. ReadyUnits(d) = {}
  BY <1>1 DEF ReadyUnits
<1>4. UnitOnce(Units(s) \ UnitsIn(f), r, d, f \o w)
  BY <1>1, <1>2, <1>3 DEF UnitOnce
<1> QED BY <1>4 DEF ShardInv

LEMMA StartShard ==
  ASSUME NEW s, NEW q, NEW r, NEW d, NEW w, NEW f, NEW x, NEW u \in q, NEW on,
         ShardInv(s, on, q, r, d, w, f, x)
  PROVE  ShardInv(s, on, q \ {u}, r \union {u}, d, w, f, x)
<1>1. UnitOnce(q \ {u}, r \union {u}, d, f \o w)
  BY DEF ShardInv, UnitOnce
<1> QED BY <1>1 DEF ShardInv

LEMMA FinishShard ==
  ASSUME NEW s, NEW q, NEW r, NEW d, NEW w, NEW f, NEW x, NEW on, NEW u \in r,
         NEW rows \in UnitRows(u),
         ShardInv(s, on, q, r, d, w, f, x)
  PROVE  ShardInv(s, on, q, r \ {u}, d \union {rows}, w, f, x)
<1>1. u \in Units(s)
  BY DEF ShardInv
<1>2. UnitsIn(rows) = {u}
  BY <1>1, RowsOfUnit
<1>3. ReadyUnits(d \union {rows}) = ReadyUnits(d) \union {u}
  BY <1>2 DEF ReadyUnits
<1>4. \A y \in d : u \notin UnitsIn(y)
  BY DEF ShardInv, UnitOnce, ReadyUnits
<1>5. UnitOnce(q, r \ {u}, d \union {rows}, f \o w)
  <2>1. UnitOnce(q, r, d, f \o w)
    BY DEF ShardInv
  <2>2. \A y \in d : UnitsIn(y) \intersect UnitsIn(rows) = {}
    BY <1>2, <1>4
  <2> QED BY <1>3, <2>1, <2>2 DEF UnitOnce
<1> QED BY <1>1, <1>5 DEF ShardInv

LEMMA TakeShard ==
  ASSUME NEW s, NEW q, NEW r, NEW d, NEW f, NEW x, NEW on, NEW rows \in d,
         ShardInv(s, on, q, r, d, << >>, f, x)
  PROVE  ShardInv(s, on, q, r, d \ {rows}, rows, f, x)
<1>1. PICK u \in Units(s) : rows \in UnitRows(u)
  BY DEF ShardInv
<1>2. /\ rows \in Seq(AnyRow) /\ UnitsIn(rows) = {u} /\ DistinctKeys(rows)
      /\ SpecsIn(rows, u) \in {Specs, {NoSpec}}
  BY <1>1, RowsOfUnit
<1>3. f \in Seq(AnyRow) /\ f \o << >> = f
  BY ConcatEmptySeq DEF ShardInv
<1>4. UnitsIn(f \o rows) = UnitsIn(f) \union {u}
  BY <1>2, <1>3, ConcatUnits
<1>5. u \notin UnitsIn(f)
  BY <1>2, <1>3 DEF ShardInv, UnitOnce, ReadyUnits
<1>6. u \notin ReadyUnits(d \ {rows}) /\ ReadyUnits(d \ {rows}) \subseteq ReadyUnits(d)
      /\ u \in ReadyUnits(d)
  BY <1>2 DEF ShardInv, UnitOnce, ReadyUnits
<1>7. UnitOnce(q, r, d \ {rows}, f \o rows)
  BY <1>3, <1>4, <1>6 DEF ShardInv, UnitOnce
<1>8. DistinctKeys(f \o rows)
  <2>1. DistinctKeys(f)
    BY <1>3 DEF ShardInv
  <2> QED BY <1>2, <1>3, <1>5, <2>1, ConcatKeys
<1>9. WholeUnits(f \o rows, x)
  <2> SUFFICES ASSUME NEW v \in UnitsIn(f \o rows) \ x
               PROVE  SpecsIn(f \o rows, v) \in {Specs, {NoSpec}}
    BY DEF WholeUnits
  <2>1. SpecsIn(f \o rows, v) = SpecsIn(f, v) \union SpecsIn(rows, v)
    BY <1>2, <1>3, ConcatUnits
  <2>2. CASE v = u
    <3>1. SpecsIn(f, u) = {}
      BY <1>5 DEF SpecsIn, UnitsIn
    <3> QED BY <1>2, <2>1, <2>2, <3>1
  <2>3. CASE v # u
    <3>1. SpecsIn(rows, v) = {}
      BY <1>2, <2>3 DEF SpecsIn, UnitsIn
    <3>2. v \in UnitsIn(f) \ x
      BY <1>4, <2>3
    <3> QED BY <1>3, <2>1, <3>1, <3>2 DEF ShardInv, WholeUnits
  <2> QED BY <2>2, <2>3
<1>10. UnitsIn(f \o rows) \subseteq Units(s)
  BY <1>3, <1>4 DEF ShardInv
<1>11. on
  BY DEF ShardInv
<1> QED BY <1>2, <1>7, <1>8, <1>9, <1>10, <1>11 DEF ShardInv

LEMMA WriteShard ==
  ASSUME NEW s, NEW q, NEW r, NEW d, NEW w, NEW f, NEW x, NEW on, w # << >>,
         ShardInv(s, on, q, r, d, w, f, x)
  PROVE  ShardInv(s, on, q, r, d, Tail(w), Append(f, Head(w)), x)
BY RowMoves DEF ShardInv

LEMMA EndedShard ==
  ASSUME NEW s, NEW f, NEW x, NEW on,
         ShardInv(s, on, {}, {}, {}, << >>, f, x)
  PROVE  ShardInv(s, FALSE, {}, {}, {}, << >>, f, x)
BY DEF ShardInv

LEMMA KilledShard ==
  ASSUME NEW s, NEW q, NEW r, NEW d, NEW w, NEW f, NEW x, NEW on,
         ShardInv(s, on, q, r, d, w, f, x)
  PROVE  ShardInv(s, FALSE, {}, {}, {}, << >>, f,
                  x \union (UnitsIn(f) \intersect UnitsIn(w)))
<1> DEFINE y == x \union (UnitsIn(f) \intersect UnitsIn(w))
<1>1. /\ f \in Seq(AnyRow) /\ w \in Seq(AnyRow) /\ << >> \in Seq(AnyRow)
      /\ f \o << >> = f
  BY ConcatEmptySeq DEF ShardInv
<1>2. UnitsIn(f \o w) = UnitsIn(f) \union UnitsIn(w)
  BY <1>1, ConcatUnits
<1>3. UnitOnce({}, {}, {}, f)
  BY DEF UnitOnce, ReadyUnits
<1>4. DistinctKeys(f)
  BY <1>1, PrefixKeys DEF ShardInv
<1>5. WholeUnits(f, y)
  <2> SUFFICES ASSUME NEW v \in UnitsIn(f) \ y
               PROVE  SpecsIn(f, v) \in {Specs, {NoSpec}}
    BY DEF WholeUnits
  <2>1. SpecsIn(f \o w, v) \in {Specs, {NoSpec}}
    BY <1>2 DEF ShardInv, WholeUnits
  <2>2. SpecsIn(w, v) = {}
    BY DEF SpecsIn, UnitsIn
  <2>3. SpecsIn(f \o w, v) = SpecsIn(f, v) \union SpecsIn(w, v)
    BY <1>1, ConcatUnits
  <2> QED BY <2>1, <2>2, <2>3
<1> QED BY <1>1, <1>2, <1>3, <1>4, <1>5 DEF ShardInv

-----------------------------------------------------------------------------
LEMMA SweepStarts == SweepInit => SweepInv
<1> SUFFICES ASSUME SweepInit PROVE SweepInv
  OBVIOUS
<1>1. << >> \in Seq(AnyRow) /\ << >> \o << >> = << >> /\ UnitsIn(<< >>) = {}
      /\ DistinctKeys(<< >>)
  BY DEF UnitsIn, DistinctKeys
<1>2. \A s \in Shards : ShardInv(s, FALSE, {}, {}, {}, << >>, << >>, {})
  BY <1>1 DEF ShardInv, UnitOnce, ReadyUnits, WholeUnits
<1> QED BY <1>2 DEF SweepInv, SweepInit

\* A step of one shard leaves the others alone.
OnlyAt(s, v, w) == DOMAIN w = Shards /\ \A r \in Shards \ {s} : w[r] = v[r]

StepOf(s) ==
  /\ OnlyAt(s, up, up') /\ OnlyAt(s, queue, queue') /\ OnlyAt(s, running, running')
  /\ OnlyAt(s, ready, ready') /\ OnlyAt(s, writing, writing') /\ OnlyAt(s, file, file')
  /\ OnlyAt(s, split, split')

LEMMA OtherShards ==
  ASSUME SweepInv, NEW s \in Shards, StepOf(s),
         ShardInv(s, up'[s], queue'[s], running'[s], ready'[s], writing'[s], file'[s],
                  split'[s])
  PROVE  SweepInv'
<1>1. \A v \in {up', queue', running', ready', writing', file', split'} : DOMAIN v = Shards
  BY DEF StepOf, OnlyAt
<1>2. \A r \in Shards \ {s} :
        /\ up'[r] = up[r] /\ queue'[r] = queue[r] /\ running'[r] = running[r]
        /\ ready'[r] = ready[r] /\ writing'[r] = writing[r] /\ file'[r] = file[r]
        /\ split'[r] = split[r]
  BY DEF StepOf, OnlyAt
<1> QED BY <1>1, <1>2 DEF SweepInv

LEMMA SweepStep ==
  ASSUME SweepInv, [SweepNext]_sweepVars
  PROVE  SweepInv'
<1>0. CASE UNCHANGED sweepVars
  BY <1>0 DEF sweepVars, SweepInv
<1> SUFFICES ASSUME NEW s \in Shards, Launch(s) \/ Work(s) \/ KillShard(s)
             PROVE  SweepInv'
  BY <1>0 DEF SweepNext
<1>1. ShardInv(s, up[s], queue[s], running[s], ready[s], writing[s], file[s], split[s])
  BY DEF SweepInv
<1>2. /\ DOMAIN up = Shards /\ DOMAIN queue = Shards /\ DOMAIN running = Shards
      /\ DOMAIN ready = Shards /\ DOMAIN writing = Shards /\ DOMAIN file = Shards
      /\ DOMAIN split = Shards
  BY DEF SweepInv
<1> DEFINE Now == ShardInv(s, up'[s], queue'[s], running'[s], ready'[s], writing'[s],
                           file'[s], split'[s])
<1>3. ASSUME Launch(s) PROVE SweepInv'
  <2>1. Now
    <3>1. up'[s] = TRUE /\ queue'[s] = Units(s) \ UnitsIn(file[s])
      BY <1>2, <1>3, DoneUnits DEF Launch
    <3>2. /\ ~up[s] /\ running'[s] = running[s] /\ ready'[s] = ready[s]
          /\ writing'[s] = writing[s] /\ file'[s] = file[s] /\ split'[s] = split[s]
      BY <1>3 DEF Launch
    <3>3. ShardInv(s, TRUE, Units(s) \ UnitsIn(file[s]), running[s], ready[s], writing[s],
                   file[s], split[s])
      <4>1. running[s] = {} /\ ready[s] = {} /\ writing[s] = << >>
        BY <1>1, <3>2 DEF ShardInv
      <4> QED BY <1>1, <4>1, LaunchShard
    <3> QED BY <3>1, <3>2, <3>3
  <2>2. StepOf(s)
    BY <1>2, <1>3 DEF Launch, StepOf, OnlyAt
  <2> QED BY <2>1, <2>2, OtherShards
<1>4. ASSUME NEW u \in Units(s), StartUnit(s, u) PROVE SweepInv'
  <2>1. Now
    BY <1>1, <1>2, <1>4, StartShard DEF StartUnit
  <2>2. StepOf(s)
    BY <1>2, <1>4 DEF StartUnit, StepOf, OnlyAt
  <2> QED BY <2>1, <2>2, OtherShards
<1>5. ASSUME NEW u \in Units(s), Finish(s, u) PROVE SweepInv'
  <2>1. Now
    BY <1>1, <1>2, <1>5, FinishShard DEF Finish
  <2>2. StepOf(s)
    BY <1>2, <1>5 DEF Finish, StepOf, OnlyAt
  <2> QED BY <2>1, <2>2, OtherShards
<1>6. ASSUME TakeUnit(s) PROVE SweepInv'
  <2>1. Now
    BY <1>1, <1>2, <1>6, TakeShard DEF TakeUnit
  <2>2. StepOf(s)
    BY <1>2, <1>6 DEF TakeUnit, StepOf, OnlyAt
  <2> QED BY <2>1, <2>2, OtherShards
<1>7. ASSUME WriteRow(s) PROVE SweepInv'
  <2>1. Now
    BY <1>1, <1>2, <1>7, WriteShard DEF WriteRow
  <2>2. StepOf(s)
    BY <1>2, <1>7 DEF WriteRow, StepOf, OnlyAt
  <2> QED BY <2>1, <2>2, OtherShards
<1>8. ASSUME EndShard(s) PROVE SweepInv'
  <2>1. Now
    <3>1. /\ queue[s] = {} /\ running[s] = {} /\ ready[s] = {}
          /\ writing[s] = << >>
      BY <1>8 DEF EndShard, Idle
    <3>2. ShardInv(s, FALSE, {}, {}, {}, << >>, file[s], split[s])
      BY <1>1, <3>1, EndedShard
    <3>3. /\ up'[s] = FALSE
          /\ UNCHANGED <<queue, running, ready, writing, file, split>>
      BY <1>2, <1>8 DEF EndShard
    <3> QED BY <3>1, <3>2, <3>3
  <2>2. StepOf(s)
    BY <1>2, <1>8 DEF EndShard, StepOf, OnlyAt
  <2> QED BY <2>1, <2>2, OtherShards
<1>9. ASSUME KillShard(s) PROVE SweepInv'
  <2>1. Now
    <3>1. /\ up'[s] = FALSE /\ queue'[s] = {} /\ running'[s] = {} /\ ready'[s] = {}
          /\ writing'[s] = << >> /\ file'[s] = file[s]
      BY <1>2, <1>9 DEF KillShard
    <3>2. split'[s] = split[s] \union (Done(s) \intersect { UnitOf(r) : r \in ToSet(writing[s]) })
      BY <1>2, <1>9 DEF KillShard
    <3>3. split'[s] = split[s] \union (UnitsIn(file[s]) \intersect UnitsIn(writing[s]))
      BY <3>2, DoneUnits
    <3>4. ShardInv(s, FALSE, {}, {}, {}, << >>, file[s],
                   split[s] \union (UnitsIn(file[s]) \intersect UnitsIn(writing[s])))
      BY <1>1, KilledShard
    <3> QED BY <3>1, <3>3, <3>4
  <2>2. StepOf(s)
    BY <1>2, <1>9 DEF KillShard, StepOf, OnlyAt
  <2> QED BY <2>1, <2>2, OtherShards
<1> QED BY <1>3, <1>4, <1>5, <1>6, <1>7, <1>8, <1>9 DEF Work

LEMMA SweepInvariant == SweepSpec => []SweepInv
BY SweepStarts, SweepStep, PTL DEF SweepSpec

\* KeysOnce: no (trajectory, turn, spec) key is written twice, whichever shards
\* are killed and resumed.
THEOREM NoKeyTwice == SweepSpec => []KeysOnce
<1>1. SweepInv => KeysOnce
  <2> SUFFICES ASSUME SweepInv, NEW s \in Shards, NEW r \in Shards,
                      NEW i \in DOMAIN file[s], NEW j \in DOMAIN file[r],
                      Key(file[s][i]) = Key(file[r][j])
               PROVE  s = r /\ i = j
    BY DEF KeysOnce
  <2>1. \A t \in Shards : /\ file[t] \in Seq(AnyRow) /\ writing[t] \in Seq(AnyRow)
                          /\ UnitsIn(file[t] \o writing[t]) \subseteq Units(t)
                          /\ DistinctKeys(file[t] \o writing[t])
    BY DEF SweepInv, ShardInv
  <2>2. UnitOf(file[s][i]) = UnitOf(file[r][j])
    BY DEF Key
  <2>3. UnitOf(file[s][i]) \in Units(s) /\ UnitOf(file[r][j]) \in Units(r)
    <3>1. UnitOf(file[s][i]) \in UnitsIn(file[s]) /\ UnitOf(file[r][j]) \in UnitsIn(file[r])
      BY DEF UnitsIn
    <3> QED BY <2>1, <3>1, ConcatUnits
  <2>4. s = r
    BY <2>2, <2>3, ShardsDisjoint
  <2>5. DistinctKeys(file[s])
    BY <2>1, PrefixKeys
  <2> QED BY <2>4, <2>5 DEF DistinctKeys
<1> QED BY <1>1, SweepInvariant, PTL

\* SkippedUnitsComplete: every unit a resume skips has all its rows, except one
\* whose rows a kill divided.
THEOREM SkippedComplete == SweepSpec => []SkippedUnitsComplete
<1>1. SweepInv => SkippedUnitsComplete
  <2> SUFFICES ASSUME SweepInv, NEW s \in Shards, ~up[s], NEW u \in Done(s) \ split[s]
               PROVE  { r.spec : r \in { x \in ToSet(file[s]) : UnitOf(x) = u } }
                        \in {Specs, {NoSpec}}
    BY DEF SkippedUnitsComplete
  <2>1. ShardInv(s, up[s], queue[s], running[s], ready[s], writing[s], file[s], split[s])
    BY DEF SweepInv
  <2>2. file[s] \in Seq(AnyRow) /\ file[s] \o writing[s] = file[s]
    BY <2>1, ConcatEmptySeq DEF ShardInv
  <2>3. SpecsIn(file[s], u) \in {Specs, {NoSpec}}
    BY <2>1, <2>2, DoneUnits DEF ShardInv, WholeUnits
  <2>4. { r.spec : r \in { x \in ToSet(file[s]) : UnitOf(x) = u } } = SpecsIn(file[s], u)
    BY DEF SpecsIn, ToSet
  <2> QED BY <2>3, <2>4
<1> QED BY <1>1, SweepInvariant, PTL
=============================================================================
