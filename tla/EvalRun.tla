------------------------------ MODULE EvalRun ------------------------------
(***************************************************************************)
(* The downstream evaluation (src/tts/eval_swebench.py) with the container *)
(* set-up and grading it calls (src/tts/utils/mini_swe.py), and the two    *)
(* programs that work on the same output directory: grade_preds.py grades  *)
(* predictions later, clean_failed_runs.py takes failed runs out.  Worker  *)
(* threads run or grade instances and share one config dictionary and one  *)
(* predictions file; an invocation of any of the three may be killed, and  *)
(* another one is started after it.                                        *)
(*                                                                         *)
(* A patch is "", or a submission that would or would not resolve its      *)
(* instance; a container image is the instance it was built for.           *)
(***************************************************************************)
EXTENDS Integers, FiniteSets

CONSTANTS
  Instances, Workers,
  Options,        \* what an invocation may be: the program, and its flags
                  \* redo (--redo-existing), grade (--grade) of the
                  \* evaluation and skip (--skip-graded) of the grading
  MaxTries,       \* get_sb_environment's max_retries
  MaxInvocations, \* bound: programs started, the last an evaluation
  TornWrites,     \* whether a kill can hit write_text half way
  None

ASSUME EvalAssumption ==
  /\ IsFiniteSet(Instances) /\ IsFiniteSet(Workers)
  /\ Options \subseteq [what : {"eval", "grade", "clean"}, redo : BOOLEAN,
                        grade : BOOLEAN, skip : BOOLEAN]
  /\ TornWrites \in BOOLEAN
  /\ MaxTries \in Nat \ {0} /\ MaxInvocations \in Nat \ {0}
  /\ None \notin Instances \union Workers

VARIABLES
  options,     \* program and flags of the current invocation
  invocations, \* programs started
  up,          \* whether the current one still runs
  results,     \* what grade_preds has so far: instance -> score
  removed,     \* runs that clean_failed_runs deleted
  report,      \* << >>, or what the invocation reported at its end:
               \* instances counted (of) and counted as resolved, and
               \* those among them resolved elsewhere
  lost,        \* history: instances whose process_instance raised in this
               \* invocation, which main only logs
  todo,        \* futures not started yet, runs not removed yet
  preds,       \* preds.json: instance -> patch
  written,     \* whether there is a preds.json
  torn,        \* preds.json was truncated by a kill and cannot be read
  lock,        \* worker holding _OUTPUT_FILE_LOCK, or None
  read,        \* worker -> <<what it read from preds.json>> until it writes
  traj,        \* instance -> its .traj.json, or None
  image,       \* config["environment"]["image"], shared by the threads
  pc, job,     \* worker -> position in process_instance, its instance
  tries,       \* worker -> container builds tried
  agentIn,     \* worker -> image of the agent's container, None without agent
               \* and when its work is graded
  gradedIn,    \* worker -> image of the grading container, while it grades
  result       \* worker -> what its .traj.json will say

locals == <<job, tries, agentIn, gradedIn, result>>
threads == <<pc, locals>>
files == <<preds, written, torn, lock, read, traj>>
main == <<options, invocations, up, results, removed, report, lost>>
vars == <<main, todo, files, image, threads>>

Patches == {"", "bad", "good"}

\* A grade; "error" is a grading that failed.  A grading that ended resolved in
\* the container of another instance is told apart here as "elsewhere"; the
\* program takes it for resolved.
Scores == {"none", "resolved", "elsewhere", "unresolved", "error"}

Resolving == {"resolved", "elsewhere"}

\* A trajectory file: the submission, whether the run ended in an error that
\* is not a real attempt, and the grade.
Trajectories == [patch : Patches, failed : BOOLEAN, score : Scores]

NoResult == [patch |-> "", failed |-> FALSE, score |-> "none"]

NoResults == [i \in {} |-> "none"]

\* What main() finds in an existing preds.json.
Existing(o) == IF o.redo THEN {} ELSE DOMAIN preds

Init ==
  /\ options \in Options /\ options.what = "eval"
  /\ invocations = 1 /\ up = TRUE /\ todo = Instances
  /\ results = NoResults /\ removed = {} /\ report = << >>
  /\ lost = {}
  /\ preds = [i \in {} |-> ""] /\ written = FALSE /\ torn = FALSE
  /\ lock = None /\ read = [w \in Workers |-> << >>]
  /\ traj = [i \in Instances |-> None]
  /\ image = None
  /\ pc = [w \in Workers |-> "idle"] /\ job = [w \in Workers |-> None]
  /\ tries = [w \in Workers |-> 0]
  /\ agentIn = [w \in Workers |-> None] /\ gradedIn = [w \in Workers |-> None]
  /\ result = [w \in Workers |-> NoResult]

\* The local variables of finished calls are gone.
Forget(ws) ==
  /\ job' = [w \in Workers |-> IF w \in ws THEN None ELSE job[w]]
  /\ tries' = [w \in Workers |-> IF w \in ws THEN 0 ELSE tries[w]]
  /\ agentIn' = [w \in Workers |-> IF w \in ws THEN None ELSE agentIn[w]]
  /\ gradedIn' = [w \in Workers |-> IF w \in ws THEN None ELSE gradedIn[w]]
  /\ result' = [w \in Workers |-> IF w \in ws THEN NoResult ELSE result[w]]

Goto(w, step) == pc' = [pc EXCEPT ![w] = step]

-----------------------------------------------------------------------------
(* process_instance, and _grade_one of grade_preds *)

Start(w) ==
  /\ pc[w] = "idle" /\ options.what # "clean"
  /\ \E i \in todo :
       /\ job' = [job EXCEPT ![w] = i]
       /\ todo' = todo \ {i}
       /\ result' = IF options.what = "eval" THEN result
                    ELSE [result EXCEPT ![w].patch = preds[i]]
  /\ Goto(w, IF options.what = "eval" THEN "clear" ELSE "regrade")
  /\ UNCHANGED <<main, files, image, tries, agentIn, gradedIn>>

\* remove_from_preds_file without a file has nothing to take out.
NoPreds(w) ==
  /\ pc[w] = "clear" /\ ~written
  /\ Goto(w, "unlink")
  /\ UNCHANGED <<main, todo, files, image, locals>>

ToRead(w) == pc[w] = "record" \/ (pc[w] = "clear" /\ written)

MayRead_Unlocked(w) == ToRead(w) /\ read[w] = << >>

MayRead(w) == ToRead(w) /\ lock = None

\* remove_from_preds_file and update_preds_file: read under the lock ...
ReadPreds(w) ==
  /\ MayRead(w)
  /\ lock' = w
  /\ read' = [read EXCEPT ![w] = <<preds>>]
  /\ UNCHANGED <<main, todo, preds, written, torn, traj, image, threads>>

\* The patch an instance's entry gets.
Recorded(w) == result[w].patch

With(f, i, entry) ==
  [j \in DOMAIN f \union {i} |-> IF j = i THEN entry ELSE f[j]]

Without(f, i) == [j \in DOMAIN f \ {i} |-> f[j]]

\* ... change, and write the whole file back.
WritePreds(w) ==
  /\ read[w] # << >>
  /\ \/ pc[w] = "clear"
        /\ preds' = Without(read[w][1], job[w])
        /\ Goto(w, "unlink")
        /\ UNCHANGED <<written, locals>>
     \/ pc[w] = "record"
        /\ written' = TRUE
        /\ preds' = With(read[w][1], job[w], Recorded(w))
        /\ Goto(w, "idle")
        /\ Forget({w})
  /\ lock' = None
  /\ read' = [read EXCEPT ![w] = << >>]
  /\ UNCHANGED <<main, todo, torn, traj, image>>

ClearedTraj_Kept(i) == traj

ClearedTraj(i) == [traj EXCEPT ![i] = None]

\* unlink of the old trajectory, removal of the old compactions.
Unlink(w) ==
  /\ pc[w] = "unlink"
  /\ traj' = ClearedTraj(job[w])
  /\ Goto(w, "image")
  /\ UNCHANGED <<main, todo, preds, written, torn, lock, read, image, job,
                 tries, agentIn, gradedIn, result>>

ImageToUse(w) == job[w]

\* get_sb_environment, for the agent and again in evaluate_trajectory: the
\* image goes into the shared config ...
SetImage(w) ==
  /\ pc[w] \in {"image", "regrade"}
  /\ image' = ImageToUse(w)
  /\ tries' = [tries EXCEPT ![w] = 0]
  /\ Goto(w, IF pc[w] = "image" THEN "build" ELSE "rebuild")
  /\ UNCHANGED <<main, todo, files, job, agentIn, gradedIn, result>>

\* ... and is read from there when the container is built, after any number
\* of failed builds.
Build(w) ==
  /\ pc[w] \in {"build", "rebuild"}
  /\ IF pc[w] = "build"
     THEN agentIn' = [agentIn EXCEPT ![w] = image] /\ UNCHANGED gradedIn
     ELSE gradedIn' = [gradedIn EXCEPT ![w] = image] /\ UNCHANGED agentIn
  /\ Goto(w, IF pc[w] = "build" THEN "agent" ELSE "grade")
  /\ UNCHANGED <<main, todo, files, image, job, tries, result>>

MayRetry(w) == tries[w] + 1 < MaxTries

BuildFails(w) ==
  /\ pc[w] \in {"build", "rebuild"}
  /\ MayRetry(w)
  /\ tries' = [tries EXCEPT ![w] = @ + 1]
  /\ UNCHANGED <<main, todo, files, image, pc, job, agentIn, gradedIn,
                 result>>

AfterNoContainer_NoPrediction(w) == IF pc[w] = "build" THEN "idle" ELSE "save"

AfterGrading == IF options.what = "eval" THEN "save" ELSE "update"

AfterNoContainer(w) == IF pc[w] = "build" THEN "record" ELSE AfterGrading

\* No container: process_instance ends without an agent; evaluate_trajectory
\* returns unresolved, with an error.
NoContainer(w) ==
  /\ pc[w] \in {"build", "rebuild"}
  /\ result' = IF pc[w] = "build" THEN result
               ELSE [result EXCEPT ![w].score = "error"]
  /\ Goto(w, AfterNoContainer(w))
  /\ UNCHANGED <<main, todo, files, image, job, tries, agentIn, gradedIn>>

\* agent.run ends with a submission, or without one: limits, or an exit that
\* does not count as an attempt.
AgentEnds(w) ==
  /\ pc[w] = "agent"
  /\ \E patch \in Patches, failed \in BOOLEAN :
       /\ failed => patch = ""
       /\ result' = [result EXCEPT ![w].patch = patch, ![w].failed = failed]
  /\ Goto(w, IF options.grade THEN "regrade" ELSE "save")
  /\ UNCHANGED <<main, todo, files, image, job, tries, agentIn, gradedIn>>

DoneWithContainers(w) ==
  /\ agentIn' = [agentIn EXCEPT ![w] = None]
  /\ gradedIn' = [gradedIn EXCEPT ![w] = None]

\* What the instance's tests may say, with the patch applied, in the container
\* it is graded in: on another instance's code, anything.
Verdicts(w) ==
  IF gradedIn[w] = job[w]
  THEN {IF result[w].patch = "good" THEN "resolved" ELSE "unresolved"}
  ELSE {"elsewhere", "unresolved"}

GradeEnds(w) ==
  /\ pc[w] = "grade"
  /\ \E score \in Verdicts(w) : result' = [result EXCEPT ![w].score = score]
  /\ Goto(w, AfterGrading)
  /\ DoneWithContainers(w)
  /\ UNCHANGED <<main, todo, files, image, job, tries>>

\* Any exception of the agent (before it submits), which may be one that does
\* not count as an attempt, or of the grading.
Raises(w) ==
  /\ pc[w] \in {"agent", "grade"}
  /\ IF options.what = "grade"
     THEN result' = [result EXCEPT ![w].score = "error"]
     ELSE \E failed \in {FALSE, pc[w] = "agent"} :
            result' = [result EXCEPT ![w] = [NoResult EXCEPT !.failed = failed]]
  /\ Goto(w, AfterGrading)
  /\ DoneWithContainers(w)
  /\ UNCHANGED <<main, todo, files, image, job, tries>>

\* finally: the trajectory first, the prediction after it.
Save(w) ==
  /\ pc[w] = "save"
  /\ traj' = [traj EXCEPT ![job[w]] = result[w]]
  /\ Goto(w, "record")
  /\ UNCHANGED <<main, todo, preds, written, torn, lock, read, image, job,
                 tries, agentIn, gradedIn, result>>

\* get_model raises before the try, or agent.save in the finally clause: the
\* prediction is not recorded, and main logs the error.  (What a save leaves of
\* its file then is skipped by every reader, as one that does not parse.)
Uncaught(w) ==
  /\ options.what = "eval" /\ pc[w] \in {"image", "save"}
  /\ lost' = lost \union {job[w]}
  /\ Goto(w, "idle")
  /\ Forget({w})
  /\ UNCHANGED <<options, invocations, up, results, removed, report, todo,
                 files, image>>

\* grade_preds takes the result of a future: _update_traj rewrites the grade in
\* the trajectory, if there is one.
UpdateTraj(w) ==
  /\ pc[w] = "update"
  /\ results' = With(results, job[w], result[w].score)
  /\ traj' = IF traj[job[w]] = None THEN traj
             ELSE [traj EXCEPT ![job[w]].score = result[w].score]
  /\ Goto(w, "idle")
  /\ Forget({w})
  /\ UNCHANGED <<options, invocations, up, removed, report, lost, todo, preds,
                 written, torn, lock, read, image>>

-----------------------------------------------------------------------------
(* clean_failed_runs *)

FailedRuns == { i \in Instances : traj[i] # None /\ traj[i].failed }

RemoveRun(i) ==
  /\ options.what = "clean" /\ i \in todo
  /\ todo' = todo \ {i}
  /\ removed' = removed \union {i}
  /\ traj' = [traj EXCEPT ![i] = None]
  /\ UNCHANGED <<options, invocations, up, results, report, lost, preds,
                 written, torn, lock, read, image, threads>>

\* ... and at its end the predictions file, in one write.
PredsAtEnd ==
  IF options.what = "clean" THEN [i \in DOMAIN preds \ removed |-> preds[i]]
  ELSE preds

-----------------------------------------------------------------------------
(* The invocation *)

\* Ctrl-C in the evaluation: futures that have not started are cancelled.
Interrupt ==
  /\ options.what = "eval"
  /\ todo # {} /\ invocations < MaxInvocations
  /\ todo' = {}
  /\ UNCHANGED <<main, files, image, threads>>

\* _write_summary counts the trajectories there are, and with --grade those
\* that are resolved; grade_preds what it graded or found graded.
Report ==
  LET counted == IF options.what = "eval"
                 THEN [i \in {j \in Instances : traj[j] # None} |->
                         IF options.grade THEN traj[i].score ELSE "none"]
                 ELSE results
  IN  << [of |-> DOMAIN counted,
          resolved |-> {i \in DOMAIN counted : counted[i] \in Resolving},
          elsewhere |-> {i \in DOMAIN counted : counted[i] = "elsewhere"}] >>

End ==
  /\ up /\ todo = {} /\ \A w \in Workers : pc[w] = "idle"
  /\ up' = FALSE
  /\ preds' = PredsAtEnd
  /\ report' = Report
  /\ results' = NoResults /\ image' = None
  /\ UNCHANGED <<options, invocations, removed, lost, todo, written, torn, lock,
                 read, traj, threads>>

\* A write of the predictions file may be under way.
Writing == lock # None \/ (todo = {} /\ removed \intersect DOMAIN preds # {})

\* The job is killed: threads and config are gone, the files stay.  A kill in
\* the middle of write_text leaves a truncated file.
Kill ==
  /\ up /\ invocations < MaxInvocations
  /\ up' = FALSE
  /\ todo' = {}
  /\ \/ UNCHANGED torn
     \/ TornWrites /\ Writing /\ torn' = TRUE
  /\ written' = (written \/ torn')
  /\ lock' = None /\ read' = [w \in Workers |-> << >>]
  /\ pc' = [w \in Workers |-> "idle"]
  /\ Forget(Workers)
  /\ results' = NoResults /\ removed' = {} /\ image' = None
  /\ UNCHANGED <<options, invocations, report, lost, preds, traj>>

CachedGrade_AnyRecord(i) ==
  IF traj[i] = None THEN << >> ELSE << traj[i].score >>

\* _cached_grade: a score, if there is one; a grading that failed is none.
CachedGrade(i) ==
  IF traj[i] = None \/ traj[i].score \in {"none", "error"} THEN << >>
  ELSE << traj[i].score >>

Cached(o) ==
  { i \in DOMAIN preds : o.what = "grade" /\ o.skip /\ CachedGrade(i) # << >> }

\* What a program finds to do: instances without a prediction, predictions to
\* grade, runs to remove; clean_failed_runs skips a directory without a
\* preds.json.
Pending(o) ==
  CASE o.what = "eval"  -> Instances \ Existing(o)
    [] o.what = "grade" -> DOMAIN preds \ Cached(o)
    [] o.what = "clean" -> IF written THEN FailedRuns ELSE {}

\* One of the programs, in the same output directory.  grade_preds raises when
\* there is no preds.json, and json.loads on a truncated one (in an evaluation
\* with --redo-existing at the start of every run, which changes nothing
\* either).
Restart ==
  /\ ~up /\ invocations < MaxInvocations
  /\ ~torn
  /\ invocations' = invocations + 1
  /\ options' \in Options
  /\ invocations' = MaxInvocations => options'.what = "eval"
  /\ up' = (options'.what = "grade" => written)
  /\ results' = [i \in Cached(options') |-> CachedGrade(i)[1]]
  /\ removed' = {} /\ report' = << >> /\ lost' = {}
  /\ todo' = Pending(options')
  /\ image' = None
  /\ UNCHANGED <<files, threads>>

Thread(w) == \/ Start(w) \/ NoPreds(w) \/ ReadPreds(w) \/ WritePreds(w) \/ Unlink(w)
             \/ SetImage(w) \/ Build(w) \/ BuildFails(w) \/ NoContainer(w)
             \/ AgentEnds(w) \/ GradeEnds(w) \/ Raises(w) \/ Save(w)
             \/ Uncaught(w) \/ UpdateTraj(w)

Main == (\E i \in Instances : RemoveRun(i)) \/ End \/ Restart

Next == (\E w \in Workers : Thread(w)) \/ Main \/ Interrupt \/ Kill

\* Threads run, and so does the main one; someone starts an unfinished
\* evaluation again.
Fairness == (\A w \in Workers : WF_vars(Thread(w))) /\ WF_vars(Main)

Spec == Init /\ [][Next]_vars /\ Fairness

-----------------------------------------------------------------------------
(* Properties *)

Predicted == IF torn THEN {} ELSE DOMAIN preds

\* The prediction of an instance and the trajectory next to it come from one
\* run, whatever was killed or raised between the two writes, and a grade that
\* says resolved is true of that prediction, whoever graded it and when, unless
\* the container it was graded in was another instance's (which
\* GradedWhereItWorked is about).
PredictionMatchesTrajectory ==
  \A i \in Predicted :
    traj[i] # None =>
      /\ traj[i].patch = preds[i]
      /\ traj[i].score = "resolved" => preds[i] = "good"

\* What an invocation reports at its end.  No instance counts as resolved whose
\* patch does not resolve it, but for those graded in a container of another
\* instance.  grade_preds counts every prediction, as resolved exactly those
\* whose trajectory says so, and none that was never graded.  After
\* clean_failed_runs no removed run is left in either file, and no failed one
\* where there are predictions at all.
ReportIsTrue ==
  report # << >> =>
    LET resolved == report[1].resolved
    IN  /\ \A i \in resolved \ report[1].elsewhere :
             (IF options.what = "eval" THEN traj[i].patch ELSE preds[i]) = "good"
        /\ options.what = "grade" =>
             /\ report[1].of = Predicted
             /\ \A i \in Predicted : traj[i] # None =>
                  /\ traj[i].score # "none"
                  /\ traj[i].score \in Resolving <=> i \in resolved
        /\ options.what = "clean" =>
             /\ removed \intersect Predicted = {}
             /\ written => FailedRuns = {}

Running ==
  IF options.what = "eval" THEN { job[w] : w \in {x \in Workers : pc[x] # "idle"} }
  ELSE {}

\* Threads that read, change and rewrite one file, stopped and started again at
\* any point, still implement a store of predictions that changes one entry at
\* a time, the one of the instance being run: nothing is lost or brought back
\* by another thread's write, and no instance is run by two threads; only what
\* clean_failed_runs removes goes in one write.
Store == INSTANCE EvalStore WITH
           store <- preds, running <- Running, broken <- torn

RunsAreAtomic == Store!Spec

\* However often the evaluation is killed or interrupted, the last invocation
\* leaves a prediction for every instance but those whose own run raised in it,
\* unless a kill truncated the file, which stops every later invocation.
AllPredicted == <>[](torn \/ Predicted \union lost = Instances)

\* "the model patch is evaluated against the same buggy state the agent saw"
GradedWhereItWorked ==
  \A w \in Workers :
    None \notin {agentIn[w], gradedIn[w]} => gradedIn[w] = agentIn[w]
=============================================================================
