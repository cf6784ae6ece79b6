----------------------------- MODULE EvalProofs -----------------------------
(***************************************************************************)
(* Proofs about evaluation.                                                *)
(*                                                                         *)
(* EvalRun: for any instances, threads, flags and number of launches, the  *)
(* threads that read, change and rewrite preds.json, with the programs     *)
(* that grade and clean the directory and kills anywhere, implement        *)
(* EvalStore, a prediction matches the trajectory next to it, and what an  *)
(* invocation reports at its end is true.                                  *)
(*                                                                         *)
(* HarborJob: for any trials and any number of jobs, a job stops the relay *)
(* it deployed, and takes the model from no trial, except as HarborJob     *)
(* names.                                                                  *)
(*                                                                         *)
(* Relay: for any nodes, requests and number of connections, pending holds *)
(* what is open, traffic stays on its connection, and the newest live      *)
(* connection is the registered one.                                       *)
(***************************************************************************)
EXTENDS EvalRun, HarborJob, Relay, TLAPS

(* The evaluation with mini-swe-agent *)

EvalSteps == {"clear", "unlink", "image", "build", "agent", "regrade",
              "rebuild", "grade", "save", "record"}

GradeSteps == {"regrade", "rebuild", "grade", "update"}

\* A program keeps to its own part of the code.
StepsOf(what) == IF what = "eval" THEN EvalSteps
                 ELSE IF what = "grade" THEN GradeSteps ELSE {}

ModeInv ==
  /\ options.what \in {"eval", "grade", "clean"}
  /\ pc = [w \in Workers |-> pc[w]]
  /\ \A w \in Workers : pc[w] \in StepsOf(options.what) \union {"idle"}

\* Nothing runs without a program, and no program runs on a broken file.
UpInv ==
  /\ up \in BOOLEAN
  /\ up => ~torn
  /\ ~up => todo = {} /\ \A w \in Workers : pc[w] = "idle"

\* An instance is in one place: waiting, or with one thread.
JobInv ==
  /\ DOMAIN preds \subseteq Instances /\ (~written => DOMAIN preds = {})
  /\ todo \subseteq Instances /\ removed \subseteq Instances
  /\ options.what = "grade" => todo \subseteq DOMAIN preds
  /\ DOMAIN job = Workers
  /\ \A w \in Workers : pc[w] # "idle" => job[w] \in Instances \ todo
  /\ \A v, w \in Workers :
       v # w /\ pc[v] # "idle" /\ pc[w] # "idle" => job[v] # job[w]

\* What a thread has read is what is in the file, and the thread holds the lock.
LockInv ==
  /\ DOMAIN read = Workers
  /\ \A w \in Workers : read[w] # << >> =>
       /\ lock = w /\ read[w] = <<preds>> /\ pc[w] \in {"clear", "record"}
       /\ pc[w] = "clear" => written

\* What is recorded is a patch.
PatchInv ==
  /\ \A i \in DOMAIN preds : preds[i] \in Patches
  /\ DOMAIN result = Workers
  /\ \A w \in Workers : pc[w] = "idle" => result[w] = NoResult
  /\ \A w \in Workers : result[w] \in Trajectories

Inv == ModeInv /\ UpInv /\ JobInv /\ LockInv /\ PatchInv

-----------------------------------------------------------------------------
LEMMA NoResultTyped == NoResult \in Trajectories
BY DEF NoResult, Trajectories, Patches, Scores

LEMMA InitInv == Init => Inv
<1> SUFFICES ASSUME Init PROVE Inv
  OBVIOUS
<1> USE DEF Init
<1>1. ModeInv
  BY DEF ModeInv
<1>2. UpInv
  BY DEF UpInv
<1>3. JobInv
  BY DEF JobInv
<1>4. LockInv
  BY DEF LockInv
<1>5. PatchInv
  BY NoResultTyped DEF PatchInv
<1> QED BY <1>1, <1>2, <1>3, <1>4, <1>5 DEF Inv

LEMMA InitStore == Init => Store!Init
<1> SUFFICES ASSUME Init PROVE Store!Init
  OBVIOUS
<1>1. Running = {}
  BY DEF Init, Running
<1> QED BY <1>1 DEF Init, Store!Init

\* A step of a thread inside its run, which touches neither the file nor what
\* the others do: nothing happens to the store.
LEMMA Inside ==
  ASSUME Inv, NEW w \in Workers, NEW to \in StepsOf(options.what),
         pc[w] # "idle", read[w] = << >>,
         Goto(w, to),
         UNCHANGED <<options, up, removed, todo, preds, written, torn, lock, read, job>>,
         DOMAIN result' = Workers,
         \A v \in Workers \ {w} : result'[v] = result[v],
         result'[w] \in Trajectories
  PROVE  Inv' /\ UNCHANGED Store!vars
<1> USE DEF Inv
<1>1. /\ pc' = [v \in Workers |-> pc'[v]]
      /\ pc'[w] = to /\ \A v \in Workers \ {w} : pc'[v] = pc[v]
  BY DEF Goto, ModeInv
<1>2. to # "idle"
  BY DEF StepsOf, EvalSteps, GradeSteps
<1>3. /\ options' = options /\ up' = up /\ removed' = removed /\ todo' = todo
      /\ preds' = preds /\ torn' = torn /\ written' = written /\ lock' = lock /\ read' = read
      /\ job' = job
  OBVIOUS
<1> USE <1>1, <1>2, <1>3
<1>4. ModeInv'
  BY DEF ModeInv
<1>5. UpInv'
  BY DEF UpInv
<1>6. JobInv'
  BY DEF JobInv
<1>7. LockInv'
  BY DEF LockInv
<1>8. PatchInv'
  BY DEF PatchInv
<1>9. Running' = Running
  <2>1. \A v \in Workers : pc'[v] # "idle" <=> pc[v] # "idle"
    OBVIOUS
  <2>2. { job'[v] : v \in {x \in Workers : pc'[x] # "idle"} }
          = { job[v] : v \in {x \in Workers : pc[x] # "idle"} }
    BY <2>1
  <2> QED BY <2>2 DEF Running
<1> QED BY <1>4, <1>5, <1>6, <1>7, <1>8, <1>9 DEF Store!vars

LEMMA StartStep ==
  ASSUME Inv, NEW w \in Workers, Start(w)
  PROVE  Inv' /\ (Store!Next \/ UNCHANGED Store!vars)
<1>0. PICK i \in todo :
        /\ job' = [job EXCEPT ![w] = i]
        /\ todo' = todo \ {i}
        /\ result' = IF options.what = "eval" THEN result
                     ELSE [result EXCEPT ![w] = [result[w] EXCEPT !.patch = preds[i]]]
  BY Zenon DEF Start
<1> DEFINE r == [result[w] EXCEPT !.patch = preds[i]]
<1>1. /\ job' = [job EXCEPT ![w] = i]
      /\ todo' = todo \ {i}
      /\ result' = IF options.what = "eval" THEN result
                   ELSE [result EXCEPT ![w] = r]
  BY <1>0
<1>11. options.what # "eval" => r \in Trajectories
  <2>1. options.what # "eval" => preds[i] \in Patches
    BY DEF Inv, ModeInv, JobInv, PatchInv, Start
  <2> QED BY <2>1 DEF Inv, PatchInv, Trajectories
<1> HIDE <1>0 DEF r
<1> DEFINE to == IF options.what = "eval" THEN "clear" ELSE "regrade"
<1>2. /\ pc' = [pc EXCEPT ![w] = to]
      /\ pc[w] = "idle" /\ options.what # "clean"
      /\ options' = options /\ up' = up /\ removed' = removed
      /\ preds' = preds /\ torn' = torn /\ written' = written /\ lock' = lock /\ read' = read
  BY DEF Start, Goto, main, files
<1>3. /\ i \in Instances /\ up /\ ~torn
      /\ to # "idle" /\ to \in StepsOf(options.what)
  BY <1>2 DEF Inv, JobInv, UpInv, ModeInv, StepsOf, EvalSteps, GradeSteps
<1> HIDE DEF to
<1> USE <1>1, <1>2, <1>3 DEF Inv
<1>4. ModeInv'
  BY DEF ModeInv
<1>5. UpInv'
  BY DEF UpInv
<1>6. JobInv'
  BY DEF JobInv, ModeInv
<1>7. LockInv'
  BY DEF LockInv, ModeInv
<1>8. PatchInv'
  BY <1>11 DEF PatchInv, ModeInv
<1>9. CASE options.what = "eval"
  <2>1. Running' = Running \union {i}
    BY <1>9 DEF Running, ModeInv, JobInv
  <2>2. i \notin Running
    BY <1>9 DEF Running, JobInv
  <2>3. Store!Begin(i)
    BY <2>1, <2>2 DEF Store!Begin
  <2> QED BY <2>3, <1>4, <1>5, <1>6, <1>7, <1>8 DEF Store!Next
<1>10. CASE options.what # "eval"
  <2>1. Running' = Running
    BY <1>10 DEF Running
  <2> QED BY <2>1, <1>4, <1>5, <1>6, <1>7, <1>8 DEF Store!vars
<1> QED BY <1>9, <1>10

LEMMA ReadStep ==
  ASSUME Inv, NEW w \in Workers, ReadPreds(w)
  PROVE  Inv' /\ UNCHANGED Store!vars
<1>1. /\ pc[w] \in {"clear", "record"} /\ lock = None
      /\ lock' = w /\ read' = [read EXCEPT ![w] = <<preds>>]
      /\ options' = options /\ up' = up /\ removed' = removed /\ todo' = todo
      /\ preds' = preds /\ torn' = torn /\ written' = written /\ pc' = pc /\ job' = job
      /\ result' = result /\ (pc[w] = "clear" => written)
  BY DEF ReadPreds, MayRead, ToRead, main, threads, locals
<1>2. \A v \in Workers : read[v] = << >>
  BY <1>1, EvalAssumption DEF Inv, LockInv
<1> USE <1>1, <1>2 DEF Inv
<1>3. ModeInv' /\ UpInv' /\ JobInv' /\ PatchInv'
  BY DEF ModeInv, UpInv, JobInv, PatchInv
<1>4. LockInv'
  BY DEF LockInv
<1>5. Running' = Running
  BY DEF Running
<1> QED BY <1>3, <1>4, <1>5 DEF Store!vars

LEMMA WriteStep ==
  ASSUME Inv, NEW w \in Workers, WritePreds(w)
  PROVE  Inv' /\ Store!Next
<1>1. /\ read[w] # << >> /\ lock' = None /\ read' = [read EXCEPT ![w] = << >>]
      /\ options' = options /\ up' = up /\ removed' = removed /\ todo' = todo
      /\ torn' = torn
  BY DEF WritePreds, main
<1>2. /\ lock = w /\ read[w][1] = preds /\ pc[w] \in {"clear", "record"}
      /\ \A v \in Workers \ {w} : read[v] = << >>
  BY <1>1 DEF Inv, LockInv
<1>3. /\ options.what = "eval" /\ up
      /\ job[w] \in Instances /\ job[w] \in Running
  BY <1>2 DEF Inv, ModeInv, UpInv, JobInv, Running, StepsOf, GradeSteps
<1>4. UpInv' /\ LockInv'
  <2>1. DOMAIN read' = Workers /\ \A v \in Workers : read'[v] = << >>
    BY <1>1, <1>2 DEF Inv, LockInv
  <2> QED BY <2>1, <1>1, <1>3 DEF Inv, UpInv, LockInv
<1>5. CASE pc[w] = "clear"
  <2>1. /\ preds' = [j \in DOMAIN preds \ {job[w]} |-> preds[j]]
        /\ pc' = [pc EXCEPT ![w] = "unlink"]
        /\ job' = job /\ result' = result /\ written' = written
    BY <1>2, <1>5 DEF WritePreds, Without, Goto, locals
  <2> USE <2>1, <1>1, <1>2, <1>3, <1>5 DEF Inv
  <2>2. ModeInv' /\ JobInv' /\ PatchInv'
    BY DEF ModeInv, JobInv, PatchInv, StepsOf, EvalSteps
  <2>3. Running' = Running
    BY DEF Running, ModeInv
  <2>4. Store!Clear(job[w])
    BY <2>3 DEF Store!Clear
  <2> QED BY <2>2, <2>4, <1>4 DEF Store!Next
<1>6. CASE pc[w] = "record"
  <2>1. /\ preds' = With(preds, job[w], result[w].patch)
        /\ pc' = [pc EXCEPT ![w] = "idle"]
        /\ job' = [v \in Workers |-> IF v \in {w} THEN None ELSE job[v]]
        /\ result' = [v \in Workers |-> IF v \in {w} THEN NoResult ELSE result[v]]
        /\ written' = TRUE
    BY <1>2, <1>6 DEF WritePreds, Recorded, Goto, Forget
  <2>2. preds' = [j \in DOMAIN preds \union {job[w]} |->
                    IF j = job[w] THEN result[w].patch ELSE preds[j]]
    BY <2>1 DEF With
  <2>3. result[w].patch \in Patches
    BY <1>3 DEF Inv, PatchInv, Trajectories
  <2>4. ModeInv' /\ JobInv'
    BY <2>1, <2>2, <1>1, <1>3 DEF Inv, ModeInv, JobInv
  <2>7. PatchInv'
    BY <2>1, <2>2, <2>3, <1>1, <1>3, NoResultTyped DEF Inv, ModeInv, PatchInv
  <2>5. Running' = Running \ {job[w]}
    <3>1. pc'[w] = "idle" /\ \A v \in Workers \ {w} : pc'[v] = pc[v] /\ job'[v] = job[v]
      BY <2>1 DEF Inv, ModeInv
    <3>2. \A v \in Workers \ {w} : pc[v] # "idle" => job[v] # job[w]
      BY <1>6 DEF Inv, JobInv
    <3> QED BY <3>1, <3>2, <1>1, <1>3 DEF Running
  <2>6. Store!Record(job[w], result[w].patch)
    BY <2>2, <2>5, <1>1, <1>3 DEF Store!Record
  <2> QED BY <2>3, <2>4, <2>6, <2>7, <1>3, <1>4 DEF Inv, Store!Next
<1> QED BY <1>2, <1>5, <1>6

LEMMA UpdateStep ==
  ASSUME Inv, NEW w \in Workers, UpdateTraj(w)
  PROVE  Inv' /\ UNCHANGED Store!vars
<1>1. /\ pc[w] = "update" /\ pc' = [pc EXCEPT ![w] = "idle"]
      /\ job' = [v \in Workers |-> IF v \in {w} THEN None ELSE job[v]]
      /\ result' = [v \in Workers |-> IF v \in {w} THEN NoResult ELSE result[v]]
      /\ options' = options /\ up' = up /\ removed' = removed /\ todo' = todo
      /\ preds' = preds /\ torn' = torn /\ written' = written /\ lock' = lock /\ read' = read
  BY DEF UpdateTraj, Goto, Forget
<1>2. options.what = "grade" /\ up
  BY <1>1 DEF Inv, ModeInv, UpInv, StepsOf, EvalSteps
<1> USE <1>1, <1>2 DEF Inv
<1>3. ModeInv' /\ UpInv'
  BY DEF ModeInv, UpInv
<1>4. JobInv'
  BY DEF JobInv, ModeInv
<1>5. LockInv'
  BY DEF LockInv, ModeInv
<1>6. PatchInv'
  BY NoResultTyped DEF PatchInv, ModeInv
<1>7. Running' = Running
  BY DEF Running
<1> QED BY <1>3, <1>4, <1>5, <1>6, <1>7 DEF Store!vars

LEMMA UncaughtStep ==
  ASSUME Inv, NEW w \in Workers, Uncaught(w)
  PROVE  Inv' /\ Store!Next
<1>1. /\ pc[w] \in {"image", "save"} /\ pc' = [pc EXCEPT ![w] = "idle"]
      /\ job' = [v \in Workers |-> IF v \in {w} THEN None ELSE job[v]]
      /\ result' = [v \in Workers |-> IF v \in {w} THEN NoResult ELSE result[v]]
      /\ options' = options /\ up' = up /\ removed' = removed /\ todo' = todo
      /\ preds' = preds /\ torn' = torn /\ written' = written /\ lock' = lock
      /\ read' = read
  BY DEF Uncaught, Goto, Forget, files
<1>2. /\ options.what = "eval" /\ up
      /\ job[w] \in Instances /\ job[w] \in Running
  BY <1>1 DEF Uncaught, Inv, UpInv, JobInv, Running
<1> USE <1>1, <1>2 DEF Inv
<1>3. ModeInv' /\ UpInv'
  BY DEF ModeInv, UpInv
<1>4. JobInv'
  BY DEF JobInv, ModeInv
<1>5. LockInv'
  BY DEF LockInv, ModeInv
<1>6. PatchInv'
  BY NoResultTyped DEF PatchInv, ModeInv
<1>7. Running' = Running \ {job[w]}
  <2>1. pc'[w] = "idle" /\ \A v \in Workers \ {w} : pc'[v] = pc[v] /\ job'[v] = job[v]
    BY DEF ModeInv
  <2>2. \A v \in Workers \ {w} : pc[v] # "idle" => job[v] # job[w]
    BY DEF JobInv
  <2> QED BY <2>1, <2>2 DEF Running
<1>8. Store!Abandon(job[w])
  BY <1>7 DEF Store!Abandon
<1> QED BY <1>3, <1>4, <1>5, <1>6, <1>8 DEF Store!Next

LEMMA ThreadStep ==
  ASSUME Inv, NEW w \in Workers, Thread(w)
  PROVE  Inv' /\ (Store!Next \/ UNCHANGED Store!vars)
<1> DEFINE Kept == UNCHANGED <<options, up, removed, todo, preds, written, torn, lock,
                               read, job>>
           Sound == /\ DOMAIN result' = Workers
                    /\ \A v \in Workers \ {w} : result'[v] = result[v]
                    /\ result'[w] \in Trajectories
           Moves(to) == pc[w] # "idle" /\ Goto(w, to) /\ to \in StepsOf(options.what)
<1>1. ASSUME NEW to, Moves(to), Kept, Sound, pc[w] \notin {"clear", "record"}
      PROVE  Inv' /\ UNCHANGED Store!vars
  <2>1. read[w] = << >>
    BY <1>1 DEF Inv, LockInv
  <2> QED BY <1>1, <2>1, Inside
<1>14. CASE NoPreds(w)
  <2>1. /\ pc[w] = "clear" /\ Kept /\ result' = result /\ Goto(w, "unlink")
        /\ ~written
    BY <1>14 DEF NoPreds, Kept, files, main, locals
  <2>2. options.what = "eval" /\ DOMAIN result = Workers /\ result[w] \in Trajectories
    BY <2>1 DEF Inv, ModeInv, PatchInv, StepsOf, GradeSteps
  <2>3. "unlink" \in StepsOf(options.what) /\ read[w] = << >>
    BY <2>1, <2>2 DEF StepsOf, EvalSteps, Inv, LockInv
  <2> QED BY <2>1, <2>2, <2>3, Inside
<1>2. /\ DOMAIN result = Workers
      /\ pc[w] # "idle" => pc[w] \in StepsOf(options.what)
      /\ result[w] \in Trajectories
  BY DEF Inv, ModeInv, PatchInv
<1> HIDE DEF Kept, Sound, Moves
<1>3. ASSUME result' = result PROVE Sound
  BY <1>2, <1>3 DEF Sound
<1>4. ASSUME NEW r \in Trajectories, result' = [result EXCEPT ![w] = r]
      PROVE  Sound
  BY <1>2, <1>4 DEF Sound
<1> USE DEF StepsOf, EvalSteps, GradeSteps, main
<1>5. CASE Unlink(w)
  <2>1. Moves("image") /\ Kept /\ pc[w] = "unlink" /\ result' = result
    BY <1>5, <1>2 DEF Unlink, Moves, Kept
  <2> QED BY <2>1, <1>1, <1>3
<1>6. CASE SetImage(w)
  <2>1. /\ Moves(IF pc[w] = "image" THEN "build" ELSE "rebuild")
        /\ Kept /\ pc[w] \in {"image", "regrade"} /\ result' = result
    BY <1>6, <1>2 DEF SetImage, Moves, Kept, files
  <2> QED BY <2>1, <1>1, <1>3
<1>7. CASE Build(w)
  <2>1. /\ Moves(IF pc[w] = "build" THEN "agent" ELSE "grade")
        /\ Kept /\ pc[w] \in {"build", "rebuild"} /\ result' = result
    BY <1>7, <1>2 DEF Build, Moves, Kept, files
  <2> QED BY <2>1, <1>1, <1>3
<1>8. CASE BuildFails(w)
  <2>1. pc[w] \in {"build", "rebuild"} /\ Kept /\ result' = result /\ pc' = pc
    BY <1>8 DEF BuildFails, Kept, files
  <2>2. Moves(pc[w])
    BY <2>1, <1>2 DEF Moves, Goto, Inv, ModeInv
  <2> QED BY <2>1, <2>2, <1>1, <1>3
<1>9. CASE NoContainer(w)
  <2>1. /\ Moves(AfterNoContainer(w)) /\ Kept /\ pc[w] \in {"build", "rebuild"}
    BY <1>9, <1>2 DEF NoContainer, AfterNoContainer, AfterGrading, Moves, Kept, files
  <2>2. Sound
    <3>1. CASE pc[w] = "build"
      BY <3>1, <1>9, <1>3 DEF NoContainer
    <3>2. CASE pc[w] # "build"
      <4>1. result' = [result EXCEPT ![w] = [result[w] EXCEPT !.score = "error"]]
        BY <3>2, <1>9 DEF NoContainer
      <4> QED BY <4>1, <1>2, <1>4 DEF Trajectories, Scores
    <3> QED BY <3>1, <3>2
  <2> QED BY <2>1, <2>2, <1>1
<1>10. CASE AgentEnds(w)
  <2>1. /\ Moves(IF options.grade THEN "regrade" ELSE "save") /\ Kept /\ pc[w] = "agent"
    BY <1>10, <1>2 DEF AgentEnds, Moves, Kept, files
  <2>2. PICK patch \in Patches, failed \in BOOLEAN :
          result' = [result EXCEPT ![w] =
                       [result[w] EXCEPT !.patch = patch, !.failed = failed]]
    BY <1>10 DEF AgentEnds
  <2>3. Sound
    BY <2>2, <1>2, <1>4 DEF Trajectories
  <2> QED BY <2>1, <2>3, <1>1
<1>11. CASE GradeEnds(w)
  <2>1. Moves(AfterGrading) /\ Kept /\ pc[w] = "grade"
    BY <1>11, <1>2 DEF GradeEnds, AfterGrading, Moves, Kept, files
  <2>2. PICK s \in Scores :
          result' = [result EXCEPT ![w] = [result[w] EXCEPT !.score = s]]
    BY <1>11 DEF GradeEnds, Verdicts, Scores
  <2>3. Sound
    BY <2>2, <1>2, <1>4 DEF Trajectories
  <2> QED BY <2>1, <2>3, <1>1
<1>12. CASE Raises(w)
  <2>1. Moves(AfterGrading) /\ Kept /\ pc[w] \in {"agent", "grade"}
    BY <1>12, <1>2 DEF Raises, AfterGrading, Moves, Kept, files
  <2>2. Sound
    <3>1. CASE options.what = "grade"
      <4>1. result' = [result EXCEPT ![w] = [result[w] EXCEPT !.score = "error"]]
        BY <3>1, <1>12 DEF Raises
      <4> QED BY <4>1, <1>2, <1>4 DEF Trajectories, Scores
    <3>2. CASE options.what # "grade"
      <4>1. PICK f \in BOOLEAN :
              result' = [result EXCEPT ![w] = [NoResult EXCEPT !.failed = f]]
        BY <3>2, <1>12 DEF Raises
      <4> QED BY <4>1, <1>4 DEF Trajectories, NoResult, Patches, Scores
    <3> QED BY <3>1, <3>2
  <2> QED BY <2>1, <2>2, <1>1
<1>13. CASE Save(w)
  <2>1. Moves("record") /\ Kept /\ pc[w] = "save" /\ result' = result
    BY <1>13, <1>2 DEF Save, Moves, Kept
  <2> QED BY <2>1, <1>1, <1>3
<1> QED
  BY <1>5, <1>6, <1>7, <1>8, <1>9, <1>10, <1>11, <1>12, <1>13,
     <1>14, StartStep, ReadStep, WriteStep, UncaughtStep, UpdateStep DEF Thread

-----------------------------------------------------------------------------
LEMMA RemoveStep ==
  ASSUME Inv, NEW i \in Instances, RemoveRun(i)
  PROVE  Inv' /\ UNCHANGED Store!vars
<1>1. /\ todo' = todo \ {i} /\ removed' = removed \union {i}
      /\ options' = options /\ up' = up /\ preds' = preds /\ torn' = torn /\ written' = written
      /\ lock' = lock /\ read' = read /\ pc' = pc /\ job' = job
      /\ result' = result
  BY DEF RemoveRun, threads, locals
<1> USE <1>1 DEF Inv
<1>2. ModeInv' /\ UpInv' /\ JobInv'
  BY DEF ModeInv, UpInv, JobInv
<1>3. LockInv' /\ PatchInv'
  BY DEF LockInv, PatchInv
<1>4. Running' = Running
  BY DEF Running
<1> QED BY <1>2, <1>3, <1>4 DEF Store!vars

LEMMA EndStep ==
  ASSUME Inv, End
  PROVE  Inv' /\ (Store!Next \/ UNCHANGED Store!vars)
<1>1. /\ todo = {} /\ (\A w \in Workers : pc[w] = "idle")
      /\ up' = FALSE /\ preds' = PredsAtEnd
      /\ options' = options /\ removed' = removed /\ todo' = todo
      /\ torn' = torn /\ written' = written /\ lock' = lock /\ read' = read /\ pc' = pc
      /\ job' = job /\ result' = result
  BY DEF End, threads, locals
<1> USE <1>1 DEF Inv
<1>2. ModeInv' /\ UpInv' /\ JobInv' /\ PatchInv'
  BY DEF ModeInv, UpInv, JobInv, PatchInv, PredsAtEnd
<1>3. LockInv'
  BY DEF LockInv
<1>4. Running = {} /\ Running' = {}
  BY DEF Running
<1>5. CASE options.what = "clean"
  <2>1. Store!Drop(removed)
    BY <1>4, <1>5 DEF Store!Drop, PredsAtEnd
  <2> QED BY <2>1, <1>2, <1>3 DEF JobInv, Store!Next
<1>6. CASE options.what # "clean"
  <2>1. preds' = preds
    BY <1>6 DEF PredsAtEnd
  <2> QED BY <2>1, <1>2, <1>3, <1>4 DEF Store!vars
<1> QED BY <1>5, <1>6

LEMMA KillStep ==
  ASSUME Inv, Kill
  PROVE  Inv' /\ Store!Next
<1>1. /\ up' = FALSE /\ todo' = {} /\ torn' \in {torn, TRUE}
      /\ lock' = None /\ read' = [w \in Workers |-> << >>]
      /\ pc' = [w \in Workers |-> "idle"]
      /\ job' = [w \in Workers |-> IF w \in Workers THEN None ELSE job[w]]
      /\ result' = [w \in Workers |-> IF w \in Workers THEN NoResult ELSE result[w]]
      /\ options' = options /\ removed' = {} /\ preds' = preds
      /\ written' = (written \/ torn')
  BY DEF Kill, Forget
<1> USE <1>1 DEF Inv
<1>2. ModeInv' /\ UpInv' /\ JobInv' /\ LockInv'
  BY DEF ModeInv, UpInv, JobInv, LockInv
<1>3. PatchInv'
  BY NoResultTyped DEF PatchInv
<1>4. Running' = {}
  BY DEF Running
<1>5. Store!Crash
  BY <1>4 DEF Store!Crash
<1> QED BY <1>2, <1>3, <1>5 DEF Store!Next

LEMMA RestartStep ==
  ASSUME Inv, Restart
  PROVE  Inv' /\ UNCHANGED Store!vars
<1>1. /\ ~up /\ ~torn /\ options' \in Options /\ removed' = {}
      /\ up' = (options'.what = "grade" => written)
      /\ todo' = Pending(options') /\ preds' = preds /\ torn' = torn /\ written' = written
      /\ lock' = lock /\ read' = read /\ pc' = pc /\ job' = job
      /\ result' = result
  BY DEF Restart, files, threads, locals
<1>2. /\ options'.what \in {"eval", "grade", "clean"}
      /\ \A w \in Workers : pc[w] = "idle" /\ result[w] = NoResult
  BY <1>1, EvalAssumption DEF Inv, UpInv, PatchInv
<1>3. /\ todo' \subseteq Instances
      /\ options'.what = "grade" => todo' \subseteq DOMAIN preds
      /\ ~up' => todo' = {}
  BY <1>1, <1>2 DEF Pending, FailedRuns, Inv, JobInv
<1> USE <1>1, <1>2 DEF Inv
<1>4. ModeInv' /\ UpInv'
  BY <1>3 DEF ModeInv, UpInv
<1>5. JobInv' /\ LockInv'
  BY <1>3 DEF JobInv, LockInv
<1>6. PatchInv'
  BY NoResultTyped DEF PatchInv
<1>7. Running' = {} /\ Running = {}
  BY DEF Running
<1> QED BY <1>4, <1>5, <1>6, <1>7 DEF Store!vars

LEMMA NextStep ==
  ASSUME Inv, [Next]_vars
  PROVE  Inv' /\ (Store!Next \/ UNCHANGED Store!vars)
<1>1. CASE Interrupt
  <2>1. /\ todo' = {} /\ options' = options /\ up' = up /\ removed' = removed
        /\ preds' = preds /\ torn' = torn /\ written' = written /\ lock' = lock /\ read' = read
        /\ pc' = pc /\ job' = job /\ result' = result
    BY <1>1 DEF Interrupt, main, files, threads, locals
  <2> USE <2>1 DEF Inv
  <2>2. ModeInv' /\ UpInv' /\ JobInv'
    BY DEF ModeInv, UpInv, JobInv
  <2>3. LockInv' /\ PatchInv'
    BY DEF LockInv, PatchInv
  <2>4. Running' = Running
    BY DEF Running
  <2> QED BY <2>2, <2>3, <2>4 DEF Store!vars
<1>2. CASE UNCHANGED vars
  <2>1. /\ todo' = todo /\ options' = options /\ up' = up /\ removed' = removed
        /\ preds' = preds /\ torn' = torn /\ written' = written /\ lock' = lock /\ read' = read
        /\ pc' = pc /\ job' = job /\ result' = result
    BY <1>2 DEF vars, main, files, threads, locals
  <2> USE <2>1 DEF Inv
  <2>2. ModeInv' /\ UpInv' /\ JobInv'
    BY DEF ModeInv, UpInv, JobInv
  <2>3. LockInv' /\ PatchInv'
    BY DEF LockInv, PatchInv
  <2>4. Running' = Running
    BY DEF Running
  <2> QED BY <2>2, <2>3, <2>4 DEF Store!vars
<1> QED
  BY <1>1, <1>2, ThreadStep, RemoveStep, EndStep, RestartStep, KillStep
     DEF Next, Main

\* RunsAreAtomic: threads that read, change and rewrite preds.json, stopped
\* anywhere and started again, with programs that grade and clean in between,
\* implement a store whose entries change one at a time.
THEOREM ImplementsStore == Spec => RunsAreAtomic
<1>1. Spec => []Inv
  BY InitInv, NextStep, PTL DEF Spec
<1>2. Spec => Store!Init
  BY InitStore DEF Spec
<1>3. Inv /\ [Next]_vars => [Store!Next]_(Store!vars)
  BY NextStep
<1> QED BY <1>1, <1>2, <1>3, PTL DEF Spec, RunsAreAtomic, Store!Spec

-----------------------------------------------------------------------------
(* Predictions, trajectories and grades *)

\* What lies in the directory fits together, and what a thread holds will fit
\* when it is written: a run takes the old prediction away first, then the old
\* trajectory, and writes the new trajectory before the new prediction.
GradeInv ==
  /\ traj = [i \in Instances |-> traj[i]]
  /\ \A i \in Instances : traj[i] # None =>
       /\ traj[i] \in Trajectories
       /\ traj[i].score = "resolved" => traj[i].patch = "good"
  /\ \A i \in DOMAIN preds : traj[i] # None => traj[i].patch = preds[i]
  /\ \A w \in Workers : options.what = "eval" /\ pc[w] # "idle" =>
       /\ pc[w] # "clear" => job[w] \notin DOMAIN preds
       /\ pc[w] \in {"image", "build"} => traj[job[w]] = None
       /\ pc[w] = "record" => traj[job[w]] \in {None, result[w]}
       /\ pc[w] \notin {"save", "record"} => result[w].score = "none"
  /\ \A w \in Workers : options.what = "grade" /\ pc[w] # "idle" =>
       /\ job[w] \in DOMAIN preds /\ result[w].patch = preds[job[w]]
       /\ pc[w] = "update" => result[w].score # "none"
  /\ \A w \in Workers : result[w].score = "resolved" => result[w].patch = "good"

LEMMA NoResultScore == NoResult.score = "none"
BY DEF NoResult

LEMMA InitGrade == Init => GradeInv
BY NoResultScore DEF Init, GradeInv

\* A step of a thread that leaves the files alone.
LEMMA InsideGrade ==
  ASSUME Inv, GradeInv, NEW w \in Workers, NEW to,
         pc[w] \notin {"idle", "clear"}, Goto(w, to), to \notin {"idle", "clear"},
         UNCHANGED <<options, preds, traj, job>>,
         \A v \in Workers \ {w} : result'[v] = result[v],
         result'[w].score = "resolved" => result'[w].patch = "good",
         options.what = "eval" =>
           /\ to \in {"image", "build"} => traj[job[w]] = None
           /\ to = "record" => traj[job[w]] \in {None, result'[w]}
           /\ to \notin {"save", "record"} => result'[w].score = "none",
         options.what = "grade" =>
           /\ result'[w].patch = result[w].patch
           /\ to = "update" => result'[w].score # "none"
  PROVE  GradeInv'
<1>1. pc'[w] = to /\ (\A v \in Workers \ {w} : pc'[v] = pc[v])
  BY DEF Inv, ModeInv, Goto
<1> QED BY <1>1 DEF GradeInv

LEMMA StartGrade ==
  ASSUME Inv, GradeInv, NEW w \in Workers, Start(w)
  PROVE  GradeInv'
<1>1. PICK i \in todo :
        /\ job' = [job EXCEPT ![w] = i]
        /\ result' = IF options.what = "eval" THEN result
                     ELSE [result EXCEPT ![w] = [result[w] EXCEPT !.patch = preds[i]]]
  BY Zenon DEF Start
<1> DEFINE r == [result[w] EXCEPT !.patch = preds[i]]
<1>2. /\ pc[w] = "idle" /\ options.what # "clean"
      /\ options.what = "eval" => pc' = [pc EXCEPT ![w] = "clear"]
      /\ options' = options /\ preds' = preds /\ traj' = traj
  BY DEF Start, Goto, main, files
<1>3. /\ result[w] = NoResult
      /\ options.what = "grade" => i \in DOMAIN preds
  BY <1>2 DEF Inv, PatchInv, JobInv
<1>4. r.patch = preds[i] /\ r.score = "none"
  <2>1. result[w] \in Trajectories
    BY DEF Inv, PatchInv
  <2>2. r.patch = preds[i] /\ r.score = result[w].score
    BY <2>1 DEF Trajectories
  <2> QED BY <2>2, <1>3, NoResultScore
<1>5. /\ job'[w] = i /\ \A v \in Workers \ {w} : job'[v] = job[v] /\ result'[v] = result[v]
      /\ options.what = "eval" => result' = result
      /\ options.what = "grade" => result'[w] = r
  BY <1>1 DEF Inv, JobInv, PatchInv
<1>6. \A v \in Workers \ {w} : pc'[v] = pc[v]
  BY DEF Start, Goto, Inv, ModeInv
<1>7. pc'[w] = IF options.what = "eval" THEN "clear" ELSE "regrade"
  BY DEF Start, Goto, Inv, ModeInv
<1>8. options.what \in {"eval", "grade"} /\ result[w].score = "none"
  BY <1>2, <1>3, NoResultScore DEF Inv, ModeInv
<1> HIDE DEF r
<1> QED BY <1>2, <1>3, <1>4, <1>5, <1>6, <1>7, <1>8 DEF GradeInv

LEMMA WriteGrade ==
  ASSUME Inv, GradeInv, NEW w \in Workers, WritePreds(w)
  PROVE  GradeInv'
<1>1. read[w] # << >> /\ options' = options /\ traj' = traj
  BY DEF WritePreds, main
<1>2. /\ read[w][1] = preds /\ pc[w] \in {"clear", "record"}
  BY <1>1 DEF Inv, LockInv
<1>3. options.what = "eval" /\ job[w] \in Instances
  BY <1>2 DEF Inv, ModeInv, JobInv, StepsOf, GradeSteps
<1>4. \A v \in Workers \ {w} : pc[v] # "idle" => job[v] # job[w]
  BY <1>2 DEF Inv, JobInv
<1>5. CASE pc[w] = "clear"
  <2>1. /\ preds' = [j \in DOMAIN preds \ {job[w]} |-> preds[j]]
        /\ pc'[w] = "unlink" /\ (\A v \in Workers \ {w} : pc'[v] = pc[v])
        /\ job' = job /\ result' = result
    BY <1>2, <1>5 DEF WritePreds, Without, Goto, locals, Inv, ModeInv
  <2> QED BY <2>1, <1>1, <1>3, <1>5 DEF GradeInv
<1>6. CASE pc[w] = "record"
  <2>1. /\ preds' = [j \in DOMAIN preds \union {job[w]} |->
                      IF j = job[w] THEN result[w].patch ELSE preds[j]]
        /\ pc'[w] = "idle"
        /\ \A v \in Workers \ {w} : pc'[v] = pc[v] /\ job'[v] = job[v] /\ result'[v] = result[v]
        /\ result'[w] = NoResult
    BY <1>2, <1>6 DEF WritePreds, Recorded, With, Goto, Forget, Inv, ModeInv
  <2>2. traj[job[w]] \in {None, result[w]}
    BY <1>3, <1>6 DEF GradeInv
  <2>3. \A i \in DOMAIN preds' : traj'[i] # None => traj'[i].patch = preds'[i]
    BY <2>1, <2>2, <1>1 DEF GradeInv
  <2>4. \A v \in Workers : pc'[v] # "idle" =>
          /\ v # w /\ pc'[v] = pc[v] /\ job'[v] = job[v] /\ result'[v] = result[v]
          /\ job[v] \in DOMAIN preds' => job[v] \in DOMAIN preds
    BY <2>1, <1>4
  <2>5. \A v \in Workers : result'[v].score = "resolved" => result'[v].patch = "good"
    BY <2>1, NoResultScore DEF GradeInv
  <2> HIDE <2>1
  <2> QED BY <2>3, <2>4, <2>5, <1>1, <1>3 DEF GradeInv
<1> QED BY <1>2, <1>5, <1>6

LEMMA UpdateGrade ==
  ASSUME Inv, GradeInv, NEW w \in Workers, UpdateTraj(w)
  PROVE  GradeInv'
<1> DEFINE i == job[w]
           r == [traj[i] EXCEPT !.score = result[w].score]
<1>1. /\ pc[w] = "update" /\ options' = options /\ preds' = preds
      /\ traj' = IF traj[i] = None THEN traj ELSE [traj EXCEPT ![i] = r]
  BY DEF UpdateTraj
<1>2. /\ pc'[w] = "idle" /\ result'[w] = NoResult
      /\ \A v \in Workers \ {w} : pc'[v] = pc[v] /\ job'[v] = job[v] /\ result'[v] = result[v]
  BY DEF UpdateTraj, Goto, Forget, Inv, ModeInv
<1>3. options.what = "grade" /\ i \in Instances /\ i \in DOMAIN preds
      /\ result[w].patch = preds[i] /\ result[w] \in Trajectories
  BY <1>1 DEF Inv, ModeInv, JobInv, PatchInv, StepsOf, EvalSteps, GradeInv
<1>4. traj[i] # None =>
        /\ r \in Trajectories /\ r.patch = preds[i]
        /\ r.score = "resolved" => r.patch = "good"
  <2>1. ASSUME traj[i] # None PROVE traj[i] \in Trajectories /\ traj[i].patch = preds[i]
    BY <2>1, <1>3 DEF GradeInv
  <2>2. result[w].score = "resolved" => preds[i] = "good"
    BY <1>3 DEF GradeInv
  <2> QED BY <2>1, <2>2, <1>3 DEF Trajectories
<1> HIDE DEF r, i
<1>6. \A j \in Instances : traj'[j] = IF j = i /\ traj[i] # None THEN r ELSE traj[j]
  BY <1>1, <1>3 DEF GradeInv
<1>7. traj' = [j \in Instances |-> traj'[j]]
  BY <1>1 DEF GradeInv
<1>8. DOMAIN preds \subseteq Instances
  BY DEF Inv, JobInv
<1>9. /\ \A j \in Instances : traj'[j] # None =>
            /\ traj'[j] \in Trajectories
            /\ traj'[j].score = "resolved" => traj'[j].patch = "good"
      /\ \A j \in DOMAIN preds : traj'[j] # None => traj'[j].patch = preds[j]
  BY <1>4, <1>6, <1>8 DEF GradeInv
<1>10. \A v \in Workers : pc'[v] # "idle" =>
         v # w /\ pc'[v] = pc[v] /\ job'[v] = job[v] /\ result'[v] = result[v]
  BY <1>2
<1>11. \A v \in Workers : result'[v].score = "resolved" => result'[v].patch = "good"
  BY <1>2, NoResultScore DEF GradeInv
<1> QED BY <1>1, <1>3, <1>7, <1>9, <1>10, <1>11 DEF GradeInv

\* Unlink and Save write one trajectory, the one of their own instance, which
\* has no prediction then.
LEMMA TrajGrade ==
  ASSUME Inv, GradeInv, NEW w \in Workers, Unlink(w) \/ Save(w)
  PROVE  GradeInv'
<1> DEFINE new == IF pc[w] = "unlink" THEN None ELSE result[w]
           to == IF pc[w] = "unlink" THEN "image" ELSE "record"
<1>1. /\ pc[w] \in {"unlink", "save"} /\ options' = options /\ preds' = preds
      /\ job' = job /\ result' = result /\ Goto(w, to)
      /\ traj' = [traj EXCEPT ![job[w]] = new]
  BY DEF Unlink, Save, ClearedTraj, main
<1>2. pc'[w] = to /\ \A v \in Workers \ {w} : pc'[v] = pc[v]
  BY <1>1 DEF Goto, Inv, ModeInv
<1>3. options.what = "eval" /\ job[w] \in Instances /\ result[w] \in Trajectories
  BY <1>1 DEF Inv, ModeInv, JobInv, PatchInv, StepsOf, GradeSteps
<1>4. \A v \in Workers \ {w} : pc[v] # "idle" => job[v] # job[w]
  BY <1>1 DEF Inv, JobInv
<1>5. job[w] \notin DOMAIN preds
  BY <1>1, <1>3 DEF GradeInv
<1>6. new = None \/ (new = result[w] /\ pc[w] = "save")
  BY <1>1
<1>7. to = "record" => pc[w] = "save" /\ new = result[w]
  BY <1>1
<1>8. to = "image" => new = None /\ result[w].score = "none"
  BY <1>1, <1>3 DEF GradeInv
<1>9. to \in {"image", "record"}
  OBVIOUS
<1> HIDE DEF new, to
<1>10. \A j \in Instances : traj'[j] = IF j = job[w] THEN new ELSE traj[j]
  BY <1>1 DEF GradeInv
<1>11. traj' = [j \in Instances |-> traj'[j]]
  BY <1>1 DEF GradeInv
<1>12. DOMAIN preds \subseteq Instances
  BY DEF Inv, JobInv
<1>13. \A v \in Workers : pc[v] # "idle" => job[v] \in Instances
  BY DEF Inv, JobInv
<1> QED
  BY <1>1, <1>2, <1>3, <1>4, <1>5, <1>6, <1>7, <1>8, <1>9, <1>10, <1>11, <1>12,
     <1>13 DEF GradeInv

LEMMA ThreadGrade ==
  ASSUME Inv, GradeInv, NEW w \in Workers, Thread(w)
  PROVE  GradeInv'
<1>1. /\ pc[w] # "idle" => pc[w] \in StepsOf(options.what)
      /\ result[w] \in Trajectories /\ DOMAIN result = Workers
      /\ result[w].score = "resolved" => result[w].patch = "good"
      /\ options.what = "eval" /\ pc[w] \notin {"idle", "save", "record"}
           => result[w].score = "none"
      /\ options.what = "eval" /\ pc[w] \in {"image", "build"} => traj[job[w]] = None
  BY DEF Inv, ModeInv, PatchInv, GradeInv
<1> USE <1>1 DEF StepsOf, EvalSteps, GradeSteps, files, main
<1>2. CASE ReadPreds(w)
  BY <1>2 DEF ReadPreds, GradeInv, threads, locals
<1>10. CASE NoPreds(w)
  <2>1. /\ pc[w] = "clear" /\ ~written /\ UNCHANGED <<options, preds, traj, job, result>>
        /\ pc'[w] = "unlink" /\ \A v \in Workers \ {w} : pc'[v] = pc[v]
    BY <1>10 DEF NoPreds, locals, Goto, Inv, ModeInv
  <2>2. DOMAIN preds = {}
    BY <2>1 DEF Inv, JobInv
  <2> QED BY <2>1, <2>2 DEF GradeInv
<1>11. CASE Uncaught(w)
  <2>1. /\ UNCHANGED <<options, preds, traj>>
        /\ pc'[w] = "idle" /\ result'[w] = NoResult
        /\ \A v \in Workers \ {w} :
             pc'[v] = pc[v] /\ job'[v] = job[v] /\ result'[v] = result[v]
    BY <1>11 DEF Uncaught, Goto, Forget, Inv, ModeInv
  <2> QED BY <2>1, NoResultScore DEF GradeInv
<1>3. CASE SetImage(w)
  BY <1>3, InsideGrade DEF SetImage
<1>4. CASE Build(w)
  BY <1>4, InsideGrade DEF Build
<1>5. CASE BuildFails(w)
  BY <1>5 DEF BuildFails, GradeInv
<1>6. CASE NoContainer(w)
  <2>1. CASE pc[w] = "build"
    BY <2>1, <1>6, InsideGrade DEF NoContainer, AfterNoContainer
  <2>2. CASE pc[w] = "rebuild"
    <3> DEFINE r == [result[w] EXCEPT !.score = "error"]
    <3>1. result' = [result EXCEPT ![w] = r]
      BY <2>2, <1>6 DEF NoContainer
    <3>2. r.score = "error" /\ r.patch = result[w].patch
      BY DEF Trajectories
    <3> HIDE DEF r
    <3>3. result'[w] = r /\ \A v \in Workers \ {w} : result'[v] = result[v]
      BY <3>1
    <3> QED
      BY <2>2, <3>2, <3>3, <1>6, InsideGrade DEF NoContainer, AfterNoContainer, AfterGrading
  <2> QED BY <2>1, <2>2, <1>6 DEF NoContainer
<1>7. CASE AgentEnds(w)
  <2>1. PICK patch \in Patches, failed \in BOOLEAN :
          result' = [result EXCEPT ![w] =
                       [result[w] EXCEPT !.patch = patch, !.failed = failed]]
    BY <1>7 DEF AgentEnds
  <2> DEFINE r == [result[w] EXCEPT !.patch = patch, !.failed = failed]
  <2>2. pc[w] = "agent" /\ options.what = "eval" /\ r.score = "none"
    BY <1>7 DEF AgentEnds, Trajectories, Inv, ModeInv
  <2> HIDE DEF r
  <2>3. result'[w] = r /\ \A v \in Workers \ {w} : result'[v] = result[v]
    BY <2>1 DEF r
  <2> QED BY <2>2, <2>3, <1>7, InsideGrade DEF AgentEnds
<1>8. CASE GradeEnds(w)
  <2>1. PICK s \in Verdicts(w) : result' = [result EXCEPT ![w] = [result[w] EXCEPT !.score = s]]
    BY <1>8 DEF GradeEnds
  <2> DEFINE r == [result[w] EXCEPT !.score = s]
  <2>2. /\ r.patch = result[w].patch /\ (r.score = "resolved" => r.patch = "good")
        /\ r.score # "none"
    BY DEF Trajectories, Verdicts
  <2> HIDE DEF r
  <2>3. result'[w] = r /\ \A v \in Workers \ {w} : result'[v] = result[v]
    BY <2>1 DEF r
  <2> QED BY <2>2, <2>3, <1>8, InsideGrade DEF GradeEnds, AfterGrading
<1>9. CASE Raises(w)
  <2>1. PICK r : /\ result' = [result EXCEPT ![w] = r] /\ r.score \in {"none", "error"}
                 /\ options.what = "grade" => r.patch = result[w].patch /\ r.score = "error"
    <3>1. CASE options.what = "grade"
      <4>1. result' = [result EXCEPT ![w] = [result[w] EXCEPT !.score = "error"]]
        BY <3>1, <1>9 DEF Raises
      <4>2. /\ [result[w] EXCEPT !.score = "error"].score = "error"
            /\ [result[w] EXCEPT !.score = "error"].patch = result[w].patch
        BY DEF Trajectories
      <4> QED BY <4>1, <4>2
    <3>2. CASE options.what # "grade"
      <4>1. PICK f \in BOOLEAN :
              result' = [result EXCEPT ![w] = [NoResult EXCEPT !.failed = f]]
        BY <3>2, <1>9 DEF Raises
      <4>2. [NoResult EXCEPT !.failed = f].score = "none"
        BY DEF NoResult
      <4> QED BY <3>2, <4>1, <4>2
    <3> QED BY <3>1, <3>2
  <2>2. result'[w] = r /\ \A v \in Workers \ {w} : result'[v] = result[v]
    BY <2>1
  <2> QED BY <2>1, <2>2, <1>9, InsideGrade DEF Raises, AfterGrading
<1> QED
  BY <1>2, <1>3, <1>4, <1>5, <1>6, <1>7, <1>8, <1>9, <1>10, <1>11,
     StartGrade, WriteGrade, UpdateGrade, TrajGrade DEF Thread

LEMMA NextGrade ==
  ASSUME Inv, GradeInv, [Next]_vars
  PROVE  GradeInv'
<1>1. ASSUME NEW i \in Instances, RemoveRun(i) PROVE GradeInv'
  BY <1>1 DEF RemoveRun, GradeInv, threads, locals, Inv, JobInv
<1>2. CASE End
  <2>1. /\ DOMAIN preds' \subseteq DOMAIN preds
        /\ \A i \in DOMAIN preds' : preds'[i] = preds[i]
    BY <1>2 DEF End, PredsAtEnd
  <2> QED BY <1>2, <2>1 DEF End, GradeInv, threads, locals
<1>3. CASE Restart
  <2>1. \A w \in Workers : pc[w] = "idle"
    BY <1>3 DEF Restart, Inv, UpInv
  <2> QED BY <1>3, <2>1 DEF Restart, GradeInv, threads, locals, files
<1>4. CASE Interrupt
  BY <1>4 DEF Interrupt, GradeInv, threads, locals, files, main
<1>5. CASE Kill
  <2>1. /\ \A w \in Workers : pc'[w] = "idle" /\ result'[w] = NoResult
        /\ traj' = traj /\ preds' = preds /\ options' = options
    BY <1>5 DEF Kill, Forget
  <2> QED BY <2>1, NoResultScore DEF GradeInv
<1>6. CASE UNCHANGED vars
  BY <1>6 DEF vars, GradeInv, threads, locals, files, main
<1> QED
  BY <1>1, <1>2, <1>3, <1>4, <1>5, <1>6, ThreadGrade DEF Next, Main

\* A prediction and the trajectory next to it come from one run, and a grade
\* that says resolved is true of it, whoever graded it and what was killed.
THEOREM PredictionsMatch == Spec => []PredictionMatchesTrajectory
<1>1. Spec => []Inv
  BY InitInv, NextStep, PTL DEF Spec
<1>2. Inv /\ GradeInv => PredictionMatchesTrajectory
  BY DEF Inv, JobInv, GradeInv, PredictionMatchesTrajectory, Predicted
<1> QED BY <1>1, <1>2, InitGrade, NextGrade, PTL DEF Spec

-----------------------------------------------------------------------------
(* What an invocation reports *)

\* A grade that grade_preds has, and what it is a grade of.
Told(score, patch, t) ==
  /\ score # "none" /\ (score = "resolved" => patch = "good")
  /\ t # None => t.score = score

\* What grade_preds has so far is true, and the rest is still to come.
GradedSoFar ==
  up /\ options.what = "grade" =>
    /\ DOMAIN results \subseteq DOMAIN preds
    /\ \A i \in DOMAIN preds \ (DOMAIN results \union todo) :
         \E w \in Workers : pc[w] # "idle" /\ job[w] = i
    /\ \A i \in DOMAIN results : Told(results[i], preds[i], traj[i])

CleanedSoFar ==
  up /\ options.what = "clean" =>
    DOMAIN results = {} /\ (written => todo = FailedRuns)

ReportInv ==
  /\ GradedSoFar /\ CleanedSoFar
  /\ report # << >> => ~up
  /\ ReportIsTrue

LEMMA InitReport == Init => ReportInv
BY DEF Init, ReportInv, GradedSoFar, CleanedSoFar, ReportIsTrue

LEMMA StartGraded ==
  ASSUME Inv, GradedSoFar, options.what = "grade", NEW w \in Workers, Start(w)
  PROVE  GradedSoFar'
<1>1. PICK i \in todo : job' = [job EXCEPT ![w] = i] /\ todo' = todo \ {i}
  BY Zenon DEF Start
<1>2. /\ preds' = preds /\ results' = results /\ traj' = traj /\ up' = up
      /\ pc[w] = "idle" /\ pc' = [pc EXCEPT ![w] = "regrade"]
  BY DEF Start, Goto, main, files
<1>3. /\ job'[w] = i /\ \A v \in Workers \ {w} : job'[v] = job[v]
      /\ pc'[w] # "idle" /\ \A v \in Workers \ {w} : pc'[v] = pc[v]
  BY <1>1, <1>2 DEF Inv, JobInv, ModeInv
<1>4. up
  BY <1>1 DEF Inv, UpInv
<1>5. /\ DOMAIN results \subseteq DOMAIN preds
      /\ \A j \in DOMAIN results : Told(results[j], preds[j], traj[j])
      /\ \A j \in DOMAIN preds \ (DOMAIN results \union todo) :
           \E v \in Workers : pc[v] # "idle" /\ job[v] = j
  BY <1>4 DEF GradedSoFar
<1>6. ASSUME NEW j \in DOMAIN preds \ (DOMAIN results \union todo')
      PROVE  \E v \in Workers : pc'[v] # "idle" /\ job'[v] = j
  <2>1. CASE j = i
    BY <2>1, <1>3
  <2>2. CASE j # i
    <3>1. PICK v \in Workers : pc[v] # "idle" /\ job[v] = j
      BY <2>2, <1>1, <1>5
    <3> QED BY <3>1, <1>2, <1>3
  <2> QED BY <2>1, <2>2
<1> QED BY <1>2, <1>5, <1>6 DEF GradedSoFar

LEMMA UpdateGraded ==
  ASSUME Inv, GradeInv, GradedSoFar, NEW w \in Workers, UpdateTraj(w)
  PROVE  GradedSoFar'
<1> DEFINE i == job[w]
           s == result[w].score
           r == [traj[i] EXCEPT !.score = s]
<1>1. /\ pc[w] = "update" /\ preds' = preds /\ todo' = todo /\ up' = up
      /\ results' = With(results, i, s)
      /\ traj' = IF traj[i] = None THEN traj ELSE [traj EXCEPT ![i] = r]
  BY DEF UpdateTraj
<1>2. /\ pc'[w] = "idle"
      /\ \A v \in Workers \ {w} : pc'[v] = pc[v] /\ job'[v] = job[v]
  BY DEF UpdateTraj, Goto, Forget, Inv, ModeInv
<1>3. i \in Instances /\ options.what = "grade" /\ up
  BY <1>1 DEF Inv, ModeInv, UpInv, JobInv, StepsOf, EvalSteps
<1>4. i \in DOMAIN preds /\ result[w].patch = preds[i]
  BY <1>1, <1>3 DEF GradeInv
<1>5. s # "none" /\ (s = "resolved" => preds[i] = "good")
  BY <1>1, <1>3, <1>4 DEF GradeInv
<1>6. traj[i] # None => r.score = s
  BY <1>3 DEF GradeInv, Trajectories
<1>7. /\ DOMAIN results \subseteq DOMAIN preds
      /\ \A j \in DOMAIN results : Told(results[j], preds[j], traj[j])
      /\ \A j \in DOMAIN preds \ (DOMAIN results \union todo) :
           \E v \in Workers : pc[v] # "idle" /\ job[v] = j
  BY <1>3 DEF GradedSoFar
<1>8. /\ DOMAIN results' = DOMAIN results \union {i}
      /\ results'[i] = s
      /\ \A j \in DOMAIN results \ {i} : results'[j] = results[j]
  BY <1>1 DEF With
<1> HIDE DEF r, s, i
<1>9. Told(results'[i], preds'[i], traj'[i])
  <2>1. traj'[i] # None => traj'[i].score = s
    BY <1>1, <1>3, <1>6 DEF GradeInv
  <2> QED BY <2>1, <1>1, <1>5, <1>8 DEF Told
<1>10. ASSUME NEW j \in DOMAIN results', j # i
       PROVE  Told(results'[j], preds'[j], traj'[j])
  <2>1. j \in Instances /\ j \in DOMAIN results
    BY <1>7, <1>8, <1>10 DEF Inv, JobInv
  <2>2. traj'[j] = traj[j]
    BY <2>1, <1>1, <1>10 DEF GradeInv
  <2>3. Told(results[j], preds[j], traj[j])
    BY <2>1, <1>7
  <2>4. results'[j] = results[j]
    BY <2>1, <1>8, <1>10
  <2> QED BY <2>2, <2>3, <2>4, <1>1
<1>11. ASSUME NEW j \in DOMAIN preds' \ (DOMAIN results' \union todo')
       PROVE  \E v \in Workers : pc'[v] # "idle" /\ job'[v] = j
  <2>1. j # i
    BY <1>8
  <2>2. PICK v \in Workers : pc[v] # "idle" /\ job[v] = j
    BY <1>1, <1>7, <1>8
  <2> QED BY <2>1, <2>2, <1>2 DEF i
<1>12. DOMAIN results' \subseteq DOMAIN preds'
  BY <1>1, <1>4, <1>7, <1>8
<1> QED BY <1>9, <1>10, <1>11, <1>12 DEF GradedSoFar

\* What else a thread of grade_preds does.
LEMMA GradingStep ==
  ASSUME Inv, options.what = "grade", NEW w \in Workers, Thread(w),
         ~Start(w), ~UpdateTraj(w)
  PROVE  /\ UNCHANGED <<results, todo, preds, traj, job>>
         /\ pc[w] # "idle"
         /\ pc' = pc \/ \E to : Goto(w, to) /\ to # "idle"
<1>1. /\ pc[w] \in {"regrade", "rebuild", "grade", "update", "idle"}
      /\ read[w] = << >>
  BY DEF Inv, ModeInv, LockInv, StepsOf, GradeSteps
<1>2. /\ ~ReadPreds(w) /\ ~WritePreds(w) /\ ~Unlink(w) /\ ~NoPreds(w)
      /\ ~AgentEnds(w) /\ ~Save(w) /\ ~Uncaught(w)
  BY <1>1 DEF ReadPreds, MayRead, ToRead, WritePreds, Unlink, NoPreds, AgentEnds,
              Save, Uncaught
<1>3. CASE SetImage(w) \/ Build(w) \/ BuildFails(w)
  BY <1>3 DEF SetImage, Build, BuildFails, main, files
<1>4. CASE NoContainer(w) \/ GradeEnds(w) \/ Raises(w)
  BY <1>1, <1>4 DEF NoContainer, GradeEnds, Raises, AfterNoContainer, AfterGrading,
                    main, files
<1> QED BY <1>2, <1>3, <1>4 DEF Thread

LEMMA ThreadGraded ==
  ASSUME Inv, GradeInv, GradedSoFar, NEW w \in Workers, Thread(w)
  PROVE  /\ GradedSoFar' /\ CleanedSoFar'
         /\ up /\ up' = up /\ report' = report
<1> USE DEF Thread, Start, NoPreds, ReadPreds, MayRead, ToRead, WritePreds, Uncaught, Unlink, SetImage, Build,
            BuildFails, NoContainer, AgentEnds, GradeEnds, Raises, Save, UpdateTraj
<1>1. options' = options /\ up' = up /\ report' = report
  BY DEF main
<1>2. up
  <2>1. pc[w] # "idle" \/ todo # {}
    BY DEF Inv, LockInv
  <2> QED BY <2>1 DEF Inv, UpInv
<1>3. options.what # "clean"
  <2>1. pc[w] # "idle" \/ options.what # "clean"
    BY DEF Inv, LockInv
  <2> QED BY <2>1 DEF Inv, ModeInv, StepsOf
<1>4. CleanedSoFar'
  BY <1>1, <1>3 DEF CleanedSoFar
<1>5. CASE options.what # "grade"
  BY <1>1, <1>2, <1>4, <1>5 DEF GradedSoFar
<1>6. CASE options.what = "grade"
  <2>1. pc[w] \in GradeSteps \union {"idle"} /\ read[w] = << >>
    BY <1>6 DEF Inv, ModeInv, LockInv, StepsOf, GradeSteps
  <2>2. CASE Start(w)
    BY <2>2, <1>1, <1>2, <1>4, <1>6, StartGraded
  <2>3. CASE UpdateTraj(w)
    BY <2>3, <1>1, <1>2, <1>4, UpdateGraded
  <2>4. CASE ~Start(w) /\ ~UpdateTraj(w)
    <3>1. /\ UNCHANGED <<results, todo, preds, traj, job>>
          /\ pc[w] # "idle"
          /\ pc' = pc \/ \E to : Goto(w, to) /\ to # "idle"
      BY <2>4, <1>6, GradingStep
    <3>2. \A v \in Workers : pc[v] # "idle" => pc'[v] # "idle"
      BY <3>1 DEF Goto, Inv, ModeInv
    <3>3. ASSUME NEW j, \E v \in Workers : pc[v] # "idle" /\ job[v] = j
          PROVE  \E v \in Workers : pc'[v] # "idle" /\ job'[v] = j
      BY <3>1, <3>2, <3>3
    <3> QED BY <3>1, <3>3, <1>1, <1>2, <1>4, <1>6 DEF GradedSoFar
  <2> QED BY <2>2, <2>3, <2>4
<1> QED BY <1>5, <1>6

LEMMA ThreadReport ==
  ASSUME Inv, GradeInv, ReportInv, NEW w \in Workers, Thread(w)
  PROVE  ReportInv'
<1>1. GradedSoFar' /\ CleanedSoFar' /\ up' /\ report' = report /\ up
  BY ThreadGraded DEF ReportInv
<1>2. report' = << >>
  BY <1>1 DEF ReportInv
<1> QED BY <1>1, <1>2 DEF ReportInv, ReportIsTrue

-----------------------------------------------------------------------------
LEMMA RemoveReport ==
  ASSUME Inv, GradeInv, ReportInv, NEW i \in Instances, RemoveRun(i)
  PROVE  ReportInv'
<1>1. /\ options.what = "clean" /\ i \in todo /\ todo' = todo \ {i}
      /\ traj' = [traj EXCEPT ![i] = None] /\ options' = options /\ up' = up
      /\ report' = report /\ written' = written /\ results' = results
  BY DEF RemoveRun
<1>2. up
  BY <1>1 DEF Inv, UpInv
<1>3. report' = << >>
  BY <1>1, <1>2 DEF ReportInv
<1>4. \A j \in Instances : traj'[j] = IF j = i THEN None ELSE traj[j]
  BY <1>1 DEF GradeInv
<1>5. FailedRuns' = FailedRuns \ {i}
  BY <1>4 DEF FailedRuns
<1>6. CleanedSoFar'
  BY <1>1, <1>2, <1>5 DEF ReportInv, CleanedSoFar
<1>7. GradedSoFar'
  BY <1>1 DEF GradedSoFar
<1> QED BY <1>1, <1>2, <1>3, <1>6, <1>7 DEF ReportInv, ReportIsTrue

LEMMA EndReport ==
  ASSUME Inv, GradeInv, ReportInv, End
  PROVE  ReportInv'
<1>1. /\ up /\ todo = {} /\ \A w \in Workers : pc[w] = "idle"
      /\ ~up' /\ preds' = PredsAtEnd /\ report' = Report /\ options' = options
      /\ removed' = removed /\ torn' = torn /\ traj' = traj /\ written' = written
  BY DEF End
<1>2. /\ options.what = "clean" => DOMAIN preds' \intersect removed = {}
      /\ options.what # "clean" => preds' = preds
  BY <1>1 DEF PredsAtEnd
<1>4. GradedSoFar' /\ CleanedSoFar'
  BY <1>1 DEF GradedSoFar, CleanedSoFar
<1>5. DOMAIN preds \subseteq Instances /\ ~torn
  BY <1>1 DEF Inv, JobInv, UpInv
<1>6. ASSUME options.what = "eval"
      PROVE  \A i \in Report[1].resolved \ Report[1].elsewhere : traj[i].patch = "good"
  <2> DEFINE counted == [i \in {j \in Instances : traj[j] # None} |->
                           IF options.grade THEN traj[i].score ELSE "none"]
  <2>1. /\ Report[1].resolved = {i \in DOMAIN counted : counted[i] \in Resolving}
        /\ Report[1].elsewhere = {i \in DOMAIN counted : counted[i] = "elsewhere"}
    BY <1>6 DEF Report
  <2>2. ASSUME NEW i \in Report[1].resolved \ Report[1].elsewhere
        PROVE  i \in Instances /\ traj[i] # None /\ traj[i].score = "resolved"
    BY <2>1 DEF Resolving
  <2> QED BY <2>2 DEF GradeInv
<1>7. options.what # "eval" =>
        /\ Report[1].of = DOMAIN results
        /\ Report[1].resolved = {i \in DOMAIN results : results[i] \in Resolving}
        /\ Report[1].elsewhere = {i \in DOMAIN results : results[i] = "elsewhere"}
  BY DEF Report
<1>8. ASSUME options.what = "grade"
      PROVE  /\ \A i \in Report[1].resolved \ Report[1].elsewhere : preds[i] = "good"
             /\ Report[1].of = DOMAIN preds
             /\ \A i \in DOMAIN preds : traj[i] # None =>
                  /\ traj[i].score # "none"
                  /\ traj[i].score \in Resolving <=> i \in Report[1].resolved
  <2>1. /\ DOMAIN results = DOMAIN preds
        /\ \A i \in DOMAIN results : Told(results[i], preds[i], traj[i])
    BY <1>1, <1>8 DEF ReportInv, GradedSoFar
  <2> QED BY <2>1, <1>7, <1>8 DEF Told, Resolving
<1>9. ASSUME options.what = "clean"
      PROVE  Report[1].resolved = {} /\ (written => FailedRuns = {})
  BY <1>1, <1>7, <1>9 DEF ReportInv, CleanedSoFar
<1>10. ReportIsTrue'
  <2> DEFINE R == Report[1]
  <2>1. report'[1] = R /\ FailedRuns' = FailedRuns
    BY <1>1 DEF Report, FailedRuns
  <2>2. Predicted' = DOMAIN preds'
    BY <1>1, <1>5 DEF Predicted
  <2> HIDE DEF R
  <2>3. CASE options.what = "eval"
    BY <2>1, <2>2, <2>3, <1>1, <1>6 DEF R, ReportIsTrue
  <2>4. CASE options.what = "grade"
    BY <2>1, <2>2, <2>4, <1>1, <1>2, <1>8 DEF R, ReportIsTrue
  <2>5. CASE options.what = "clean"
    BY <2>1, <2>2, <2>5, <1>1, <1>2, <1>9 DEF R, ReportIsTrue
  <2> QED BY <2>3, <2>4, <2>5 DEF Inv, ModeInv
<1> QED BY <1>1, <1>4, <1>10 DEF ReportInv

LEMMA RestartReport ==
  ASSUME Inv, GradeInv, ReportInv, Restart
  PROVE  ReportInv'
<1>1. /\ preds' = preds /\ traj' = traj /\ pc' = pc /\ job' = job
      /\ written' = written /\ report' = << >>
      /\ todo' = Pending(options')
      /\ results' = [i \in Cached(options') |-> CachedGrade(i)[1]]
  BY DEF Restart, threads, locals, files
<1>3. CleanedSoFar'
  <2>1. FailedRuns' = FailedRuns
    BY <1>1 DEF FailedRuns
  <2>2. options'.what = "clean" =>
          (written => Pending(options') = FailedRuns) /\ Cached(options') = {}
    BY DEF Pending, Cached
  <2> QED BY <2>1, <2>2, <1>1 DEF CleanedSoFar
<1>4. GradedSoFar'
  <2>1. ASSUME options'.what = "grade"
        PROVE  Pending(options') = DOMAIN preds \ Cached(options')
    BY <2>1 DEF Pending
  <2>2. Cached(options') \subseteq DOMAIN preds
    BY DEF Cached
  <2>3. ASSUME NEW i \in Cached(options')
        PROVE  Told(CachedGrade(i)[1], preds[i], traj[i])
    <3>1. CachedGrade(i) # << >> /\ i \in DOMAIN preds
      BY DEF Cached
    <3>2. traj[i] # None /\ traj[i].score \notin {"none", "error"}
      BY <3>1 DEF CachedGrade
    <3>3. CachedGrade(i)[1] = traj[i].score
      BY <3>2 DEF CachedGrade
    <3>4. traj[i].score = "resolved" => preds[i] = "good"
      BY <3>1, <3>2 DEF GradeInv, Inv, JobInv
    <3> QED BY <3>2, <3>3, <3>4 DEF Told
  <2> QED BY <2>1, <2>2, <2>3, <1>1 DEF GradedSoFar
<1> QED BY <1>1, <1>3, <1>4 DEF ReportInv, ReportIsTrue

LEMMA KillReport ==
  ASSUME Inv, ReportInv, Kill
  PROVE  ReportInv'
<1>1. up /\ ~up' /\ report' = report
  BY DEF Kill
<1>2. report' = << >>
  BY <1>1 DEF ReportInv
<1> QED BY <1>1, <1>2 DEF ReportInv, ReportIsTrue, GradedSoFar, CleanedSoFar

LEMMA NextReport ==
  ASSUME Inv, GradeInv, ReportInv, [Next]_vars
  PROVE  ReportInv'
<1>1. ASSUME UNCHANGED <<options, up, results, removed, report, preds, written, torn, traj,
                         pc, job>>,
             todo' = todo \/ options.what = "eval"
      PROVE  ReportInv'
  <2>2. FailedRuns' = FailedRuns /\ Predicted' = Predicted
    BY <1>1 DEF FailedRuns, Predicted
  <2>3. CleanedSoFar' /\ GradedSoFar'
    BY <1>1, <2>2 DEF ReportInv, CleanedSoFar, GradedSoFar
  <2>4. ReportIsTrue'
    BY <1>1, <2>2 DEF ReportInv, ReportIsTrue
  <2> QED BY <1>1, <2>3, <2>4 DEF ReportInv
<1>2. CASE Interrupt
  BY <1>1, <1>2 DEF Interrupt, main, files, threads, locals
<1>3. CASE UNCHANGED vars
  BY <1>1, <1>3 DEF vars, main, files, threads, locals
<1> QED
  BY <1>2, <1>3, ThreadReport, RemoveReport, EndReport, RestartReport, KillReport
     DEF Next, Main

\* What an invocation reports is true: an instance counted as resolved has a
\* patch that resolves it, unless it was graded in another instance's container,
\* grade_preds counts every prediction and agrees with every trajectory, and
\* clean_failed_runs leaves nothing of a failed run, after any kills, any errors
\* and any programs before it.
THEOREM ReportsTrue == Spec => []ReportIsTrue
<1>1. Spec => []Inv
  BY InitInv, NextStep, PTL DEF Spec
<1>2. Spec => []GradeInv
  BY <1>1, InitGrade, NextGrade, PTL DEF Spec
<1>3. ReportInv => ReportIsTrue
  BY DEF ReportInv
<1> QED BY <1>1, <1>2, <1>3, InitReport, NextReport, PTL DEF Spec

-----------------------------------------------------------------------------
(* The evaluation job *)

\* cleanup() has not begun to take anything away but harbor.
Quiet == ~cleaned \/ handler \in {"harbor", "grace"}

\* Where cleanup() and the script can be together: a script that goes on after
\* a cleanup has no vLLM, and gets past the poll only if it was there before.
PlaceInv ==
  /\ route \in {"own", "shared", "direct"}
  /\ handler # "off" => cleaned
  /\ step = "gone" => handler = "off" /\ (killed \/ cleaned)
  /\ step = "serve" => vllm = "none"
  /\ cleaned /\ handler = "off" =>
       /\ step \notin {"serve", "vllm_pid"}
       /\ step = "poll" => vllm \notin {"loading", "ready"}
  /\ cleaned /\ step \in {"stop_old", "deploy"} => "relay" \in excused
  /\ cleaned /\ step \in {"stop_old", "deploy", "bridge", "bridge_pid",
                            "register", "launch", "harbor_pid"}
       => "trials" \in excused
  /\ step = "deploy" => named

\* A relay that is up has its stop before it.
RelayInv ==
  relay = "up" => \/ killed \/ "relay" \in excused
                  \/ named /\ (Quiet \/ handler = "relay")

\* What cleanup() takes away is there until harbor is sent TERM.
HarborInv ==
  /\ DOMAIN trials = Trials
  /\ Quiet => vllm # "stopped" /\ bridge # "stopped"
  /\ Alive /\ harbor # "dying" /\ "trials" \notin excused =>
       /\ Quiet /\ step \in {"harbor_pid", "wait", "exit"}
       /\ route = "own" => relay \in {"up", "tried"}
  /\ step = "launch" /\ ~cleaned /\ route = "own" => relay \in {"up", "tried"}
  /\ harbor = "cancelling" => cleaned /\ handler # "harbor"
  /\ harbor = "dying" => cleaned /\ handler \notin {"harbor", "grace"}

HarborJobInv == PlaceInv /\ RelayInv /\ HarborInv

-----------------------------------------------------------------------------
LEMMA InitHarborJob == JobInit => HarborJobInv
BY DEF JobInit, HarborJobInv, PlaceInv, RelayInv, HarborInv, Quiet, Alive

LEMMA ScriptStep == ASSUME HarborJobInv, Script PROVE HarborJobInv'
<1> USE DEF HarborJobInv, PlaceInv, RelayInv, HarborInv, Quiet, Alive,
            At, script, processes, history
<1>1. CASE Serve
  BY <1>1 DEF Serve
<1>2. CASE Poll
  BY <1>2 DEF Poll
<1>3. CASE StopOld
  BY <1>3 DEF StopOld, Stopped
<1>4. CASE Deploy
  BY <1>4 DEF Deploy
<1>5. CASE StartBridge
  BY <1>5 DEF StartBridge
<1>6. CASE Register
  BY <1>6 DEF Register, Transported
<1>7. CASE Launch \/ RecordPid
  BY <1>7 DEF Launch, RecordPid
<1>8. CASE Waited
  BY <1>8 DEF Waited
<1>9. CASE Exit
  BY <1>9 DEF Exit
<1> QED
  BY <1>1, <1>2, <1>3, <1>4, <1>5, <1>6, <1>7, <1>8, <1>9 DEF Script

LEMMA CleanupStep == ASSUME HarborJobInv, Cleanup PROVE HarborJobInv'
<1> USE DEF HarborJobInv, PlaceInv, RelayInv, HarborInv, Quiet, Alive,
            script, processes, history
<1>1. CASE Trap
  BY <1>1 DEF Trap, Interrupted, Risks
<1>2. CASE TrapAgain
  BY <1>2 DEF TrapAgain, Interrupted
<1>3. CASE StopHarbor
  BY <1>3 DEF StopHarbor, AfterInt, HARBOR_PID
<1>4. CASE Grace
  BY <1>4 DEF Grace
<1>5. CASE StopRelay
  BY <1>5 DEF StopRelay, AppToStop, Stopped
<1>6. CASE StopBridge
  BY <1>6 DEF StopBridge, BRIDGE_PID
<1>7. CASE StopVllm
  BY <1>7 DEF StopVllm, VLLM_PID
<1> QED
  BY <1>1, <1>2, <1>3, <1>4, <1>5, <1>6, <1>7 DEF Cleanup

LEMMA TrialStep == ASSUME HarborJobInv, NEW t \in Trials, StepTrial(t) PROVE HarborJobInv'
<1>1. PICK s \in {"running", "done", "taken", "failed"} :
        trials' = [trials EXCEPT ![t] = s]
  BY DEF StepTrial
<1>2. UNCHANGED <<route, jobs, script, processes, history>>
  BY DEF StepTrial
<1> QED
  BY <1>1, <1>2
     DEF HarborJobInv, PlaceInv, RelayInv, HarborInv, Quiet, Alive,
         script, processes, history

LEMMA HarborJobStep == ASSUME HarborJobInv, [JobNext]_jobVars PROVE HarborJobInv'
<1> USE DEF HarborJobInv, PlaceInv, RelayInv, HarborInv, Quiet, Alive,
            script, processes, history
<1>1. CASE Signal
  BY <1>1 DEF Signal
<1>2. CASE VllmReady \/ VllmDies \/ BridgeDies
  BY <1>2 DEF VllmReady, VllmDies, BridgeDies
<1>3. CASE HarborEnds
  BY <1>3 DEF HarborEnds
<1>4. CASE KillJob
  BY <1>4 DEF KillJob
<1>5. CASE NextJob
  BY <1>5 DEF NextJob
<1>6. CASE UNCHANGED jobVars
  BY <1>6 DEF jobVars
<1> QED
  BY <1>1, <1>2, <1>3, <1>4, <1>5, <1>6, ScriptStep, CleanupStep, TrialStep DEF JobNext

-----------------------------------------------------------------------------
\* The relay a job deployed has been stopped, or its stop was tried, when the
\* job has ended by itself or by a signal, but for the early signal.
THEOREM StopsItsRelay == JobSpec => []RelayStopped
<1>1. HarborJobInv => RelayStopped
  BY DEF HarborJobInv, PlaceInv, RelayInv, Quiet, RelayStopped
<1> QED BY <1>1, InitHarborJob, HarborJobStep, PTL DEF JobSpec

\* No step of the script, of cleanup() or of harbor itself makes a trial one
\* that was taken; a trial's own step does only when cleanup() has begun to
\* take things away.
LEMMA TakenByCleanup ==
  ASSUME HarborJobInv, [JobNext]_jobVars, NEW t \in Trials, TakenNow(t)
  PROVE  Alive /\ Taken
<1>1. trials' # trials /\ DOMAIN trials = Trials
  BY DEF TakenNow, HarborJobInv, HarborInv
<1>2. CASE \E u \in Trials : StepTrial(u)
  <2>1. PICK u \in Trials : StepTrial(u)
    BY <1>2
  <2>2. PICK s : /\ trials' = [trials EXCEPT ![u] = s]
                 /\ s = "taken" => Alive /\ Taken
    BY <2>1 DEF StepTrial
  <2> QED BY <1>1, <2>2 DEF TakenNow
<1>3. CASE Launch
  BY <1>1, <1>3 DEF Launch, TakenNow
<1>4. CASE HarborEnds
  BY <1>1, <1>4 DEF HarborEnds, TakenNow
<1>5. CASE Script /\ ~Launch
  BY <1>1, <1>5 DEF Script, Serve, Poll, StopOld, Deploy, StartBridge, Register,
                    RecordPid, Waited, Exit
<1>6. CASE Cleanup
  BY <1>1, <1>6 DEF Cleanup, Trap, TrapAgain, StopHarbor, Grace, StopRelay,
                    StopBridge, StopVllm
<1>7. CASE Signal \/ VllmReady \/ VllmDies \/ BridgeDies \/ KillJob \/ NextJob
  BY <1>1, <1>7 DEF Signal, VllmReady, VllmDies, BridgeDies, KillJob, NextJob
<1>8. CASE UNCHANGED jobVars
  BY <1>1, <1>8 DEF jobVars
<1> QED BY <1>2, <1>3, <1>4, <1>5, <1>6, <1>7, <1>8 DEF JobNext

\* A trial loses the model to cleanup() only when harbor had its thirty seconds
\* and was sent TERM, or the signal came before the script waited for harbor
\* (OnlyTermTakes), for any trials and jobs.
THEOREM TakesNoTrial == JobSpec => OnlyTermTakes
<1>1. HarborJobInv /\ [JobNext]_jobVars =>
        [ \A t \in Trials :
            TakenNow(t) => harbor = "dying" \/ "trials" \in excused ]_jobVars
  <2> SUFFICES ASSUME HarborJobInv, [JobNext]_jobVars,
                      NEW t \in Trials, TakenNow(t)
               PROVE  harbor = "dying" \/ "trials" \in excused
    OBVIOUS
  <2>1. Alive /\ Taken
    BY TakenByCleanup
  <2> QED BY <2>1 DEF HarborJobInv, HarborInv, Taken, Quiet
<1> QED BY <1>1, InitHarborJob, HarborJobStep, PTL DEF JobSpec, OnlyTermTakes

-----------------------------------------------------------------------------
(* The relay and its bridges *)

\* Connections are numbered in the order they are made.
ConnInv ==
  /\ made \in 0..MaxConns /\ alive \subseteq 1..made
  /\ DOMAIN toNode = Conns /\ DOMAIN toRelay = Conns /\ DOMAIN parsing = Conns
  /\ LastConnectorWins

\* Wherever a request's frame or its answer is, it is on the request's socket.
On(r, c) == \/ r \in toNode[c] \/ r \in toRelay[c]
            \/ parsing[c] = r /\ r # Nobody
            \/ <<r, c>> \in calls

SocketInv ==
  /\ DOMAIN ws = Requests /\ DOMAIN stage = Requests
  /\ \A c \in Conns : /\ toNode[c] \subseteq Requests /\ toRelay[c] \subseteq Requests
                      /\ parsing[c] \in Requests \union {Nobody}
  /\ \A r \in Requests, c \in Conns : On(r, c) => ws[r] = c /\ stage[r] # "new"

\* A request is in pending from its registration to its answer or its timeout.
PendingInv ==
  /\ DOMAIN fut = Requests /\ DOMAIN status = Requests
  /\ \A r \in Requests :
       /\ stage[r] \in {"new", "body"} => r \notin pending
       /\ fut[r] = "set" => r \notin pending
  /\ PendingIsOpen

ConnectionInv == ConnInv /\ SocketInv /\ PendingInv

-----------------------------------------------------------------------------
LEMMA InitConnection == RelayInit => ConnectionInv
BY RelayAssumption
   DEF RelayInit, ConnectionInv, ConnInv, SocketInv, PendingInv, On, Conns, LastConnectorWins,
       PendingIsOpen

LEMMA ProxyStep == ASSUME ConnectionInv, NEW q \in Requests, Proxy(q) PROVE ConnectionInv'
<1> USE DEF ConnectionInv, wire, frames, Finish
<1>1. CASE Arrive(q)
  <2>1. ConnInv'
    BY <1>1 DEF Arrive, ConnInv, LastConnectorWins
  <2>2. SocketInv'
    BY <1>1 DEF Arrive, SocketInv, On
  <2>3. PendingInv'
    BY <1>1 DEF Arrive, SocketInv, PendingInv, PendingIsOpen
  <2> QED BY <2>1, <2>2, <2>3
<1>2. CASE Enqueue(q)
  <2>1. ConnInv'
    BY <1>2 DEF Enqueue, ConnInv, LastConnectorWins
  <2>2. SocketInv'
    BY <1>2 DEF Enqueue, SocketInv, On
  <2>3. PendingInv'
    BY <1>2 DEF Enqueue, Registered, SocketInv, PendingInv, PendingIsOpen
  <2> QED BY <2>1, <2>2, <2>3
<1>3. CASE StartSend(q)
  <2>1. ConnInv'
    BY <1>3 DEF StartSend, ConnInv, LastConnectorWins
  <2>2. SocketInv'
    BY <1>3 DEF StartSend, SocketInv, On
  <2>3. PendingInv'
    BY <1>3 DEF StartSend, MaySend, SocketInv, PendingInv, PendingIsOpen
  <2> QED BY <2>1, <2>2, <2>3
<1>4. CASE SendDone(q)
  <2>1. ConnInv'
    BY <1>4 DEF SendDone, ConnInv, LastConnectorWins
  <2>2. SocketInv'
    BY <1>4 DEF SendDone, SocketInv, ConnInv, On
  <2>3. PendingInv'
    BY <1>4 DEF SendDone, SocketInv, PendingInv, PendingIsOpen
  <2> QED BY <2>1, <2>2, <2>3
<1>5. CASE SendRaises(q)
  <2>1. ConnInv'
    BY <1>5 DEF SendRaises, ConnInv, LastConnectorWins
  <2>2. SocketInv'
    BY <1>5 DEF SendRaises, SocketInv, On
  <2>3. PendingInv'
    BY <1>5 DEF SendRaises, SocketInv, PendingInv, PendingIsOpen
  <2> QED BY <2>1, <2>2, <2>3
<1>6. CASE Respond(q)
  <2>1. ConnInv'
    BY <1>6 DEF Respond, ConnInv, LastConnectorWins
  <2>2. SocketInv'
    BY <1>6 DEF Respond, SocketInv, On
  <2>3. PendingInv'
    BY <1>6 DEF Respond, SocketInv, PendingInv, PendingIsOpen
  <2> QED BY <2>1, <2>2, <2>3
<1>7. CASE Timeout(q)
  <2>1. ConnInv'
    BY <1>7 DEF Timeout, ConnInv, LastConnectorWins
  <2>2. SocketInv'
    BY <1>7 DEF Timeout, SocketInv, On
  <2>3. PendingInv'
    BY <1>7 DEF Timeout, AfterTimeout, GivesUp, SocketInv, PendingInv, PendingIsOpen
  <2> QED BY <2>1, <2>2, <2>3
<1> QED
  BY <1>1, <1>2, <1>3, <1>4, <1>5, <1>6, <1>7 DEF Proxy

LEMMA HandlerStep == ASSUME ConnectionInv, NEW d \in Conns, Handler(d) PROVE ConnectionInv'
<1> USE DEF ConnectionInv, proxies, wire
<1>1. CASE Receive(d)
  <2>1. ConnInv'
    BY <1>1 DEF Receive, ConnInv, LastConnectorWins
  <2>2. SocketInv'
    BY <1>1 DEF Receive, SocketInv, ConnInv, On
  <2>3. PendingInv'
    BY <1>1 DEF Receive, PendingInv, PendingIsOpen
  <2> QED BY <2>1, <2>2, <2>3
<1>2. CASE Resolve(d)
  <2>1. ConnInv'
    BY <1>2 DEF Resolve, ConnInv, LastConnectorWins
  <2>2. SocketInv'
    BY <1>2 DEF Resolve, SocketInv, ConnInv, On
  <2>3. PendingInv'
    BY <1>2 DEF Resolve, PendingInv, PendingIsOpen
  <2> QED BY <2>1, <2>2, <2>3
<1>3. CASE HandlerEnds(d)
  <2>1. ConnInv'
    BY <1>3, RelayAssumption
       DEF HandlerEnds, AfterClose, ConnInv, LastConnectorWins, frames
  <2>2. SocketInv'
    BY <1>3 DEF HandlerEnds, SocketInv, On, frames
  <2>3. PendingInv'
    BY <1>3 DEF HandlerEnds, PendingInv, PendingIsOpen
  <2> QED BY <2>1, <2>2, <2>3
<1> QED BY <1>1, <1>2, <1>3 DEF Handler

LEMMA BridgeStep == ASSUME ConnectionInv, NEW n \in Nodes, Bridge(n) PROVE ConnectionInv'
<1> USE DEF ConnectionInv, proxies, wire
<1>1. CASE Connect(n)
  <2>1. ConnInv'
    BY <1>1, RelayAssumption DEF Connect, ConnInv, LastConnectorWins, frames
  <2>2. SocketInv'
    BY <1>1 DEF Connect, SocketInv, On, frames
  <2>3. PendingInv'
    BY <1>1 DEF Connect, PendingInv, PendingIsOpen
  <2> QED BY <2>1, <2>2, <2>3
<1>2. CASE BridgeNotices(n)
  <2>1. ConnInv'
    BY <1>2 DEF BridgeNotices, ConnInv, LastConnectorWins, frames
  <2>2. SocketInv'
    BY <1>2 DEF BridgeNotices, SocketInv, On, frames
  <2>3. PendingInv'
    BY <1>2 DEF BridgeNotices, PendingInv, PendingIsOpen
  <2> QED BY <2>1, <2>2, <2>3
<1>3. CASE TakeFrame(n)
  <2>1. ConnInv'
    BY <1>3 DEF TakeFrame, ConnInv, LastConnectorWins
  <2>2. SocketInv'
    BY <1>3 DEF TakeFrame, SocketInv, ConnInv, On
  <2>3. PendingInv'
    BY <1>3 DEF TakeFrame, PendingInv, PendingIsOpen
  <2> QED BY <2>1, <2>2, <2>3
<1> QED BY <1>1, <1>2, <1>3 DEF Bridge

LEMMA CallStep ==
  ASSUME ConnectionInv, NEW q \in Requests, NEW d \in Conns, HandleEnds(q, d) PROVE ConnectionInv'
<1> USE DEF ConnectionInv, proxies, wire
<1>1. ConnInv'
  BY DEF HandleEnds, ConnInv, LastConnectorWins
<1>2. SocketInv'
  BY DEF HandleEnds, ReplySocket, SocketInv, ConnInv, On
<1>3. PendingInv'
  BY DEF HandleEnds, PendingInv, PendingIsOpen
<1> QED BY <1>1, <1>2, <1>3

LEMMA BreakStep == ASSUME ConnectionInv, NEW d \in Conns, Break(d) PROVE ConnectionInv'
<1> USE DEF ConnectionInv, proxies, wire
<1>1. ConnInv'
  BY DEF Break, ConnInv, LastConnectorWins
<1>2. SocketInv'
  BY DEF Break, SocketInv, ConnInv, On
<1>3. PendingInv'
  BY DEF Break, PendingInv, PendingIsOpen
<1> QED BY <1>1, <1>2, <1>3

LEMMA ConnectionStep == ASSUME ConnectionInv, [RelayNext]_relayVars PROVE ConnectionInv'
<1>1. CASE UNCHANGED relayVars
  BY <1>1 DEF relayVars, proxies, wire, frames, ConnectionInv, ConnInv, SocketInv, PendingInv,
              On, LastConnectorWins, PendingIsOpen
<1> QED
  BY <1>1, ProxyStep, HandlerStep, BridgeStep, CallStep, BreakStep DEF RelayNext

LEMMA SpecInv == RelaySpec => []ConnectionInv
BY InitConnection, ConnectionStep, PTL DEF RelaySpec

-----------------------------------------------------------------------------
\* A future waits in pending for every open request, and for no finished one
\* but those whose send failed.
THEOREM PendingExact == RelaySpec => []PendingIsOpen
<1>1. ConnectionInv => PendingIsOpen
  BY DEF ConnectionInv, PendingInv
<1> QED BY <1>1, SpecInv, PTL

\* Answers travel on the connection their request was sent on.
THEOREM SameConnection == RelaySpec => []AnswerOnSameConnection
<1>1. ConnectionInv => AnswerOnSameConnection
  BY DEF ConnectionInv, SocketInv, On, AnswerOnSameConnection
<1> QED BY <1>1, SpecInv, PTL

\* The newest connection, while it is alive, is the registered one.
THEOREM NewestRegistered == RelaySpec => []LastConnectorWins
<1>1. ConnectionInv => LastConnectorWins
  BY DEF ConnectionInv, ConnInv
<1> QED BY <1>1, SpecInv, PTL
=============================================================================
