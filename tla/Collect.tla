------------------------------ MODULE Collect ------------------------------
(***************************************************************************)
(* Collection of training trajectories (src/tts/collect_trajectories.py):  *)
(* every run of an instance writes a file of its own, and an invocation    *)
(* skips the instances whose files show enough completed runs.             *)
(*                                                                         *)
(* A file is the run it is about (an invocation submits an instance once)  *)
(* and how the agent's messages end; a file cut by a kill does not parse.  *)
(* is_correct plays no part in what is collected, and is left out.         *)
(***************************************************************************)
EXTENDS Integers, FiniteSets

CONSTANTS
  Instances, Workers,
  RunsPerInstance, \* --runs-per-instance
  MaxInvocations,  \* bound: times main() is started
  None

ASSUME CollectAssumption ==
  /\ IsFiniteSet(Instances) /\ IsFiniteSet(Workers)
  /\ RunsPerInstance \in Nat \ {0} /\ MaxInvocations \in Nat \ {0}
  /\ None \notin Instances

VARIABLES
  invocations, todo,
  pc, job,  \* worker -> position in process_instance, its instance
  exit,     \* worker -> exit status in the agent's last message, or None
  files,    \* the output directory
  failed,   \* history: a run of this invocation did not complete
  clean     \* history: earlier invocations in which every run completed

threads == <<pc, job, exit>>
vars == <<invocations, todo, threads, files, failed, clean>>

DoneStatuses == {"Submitted", "LimitsExceeded"}

\* How a run of the agent can end: the two completed ones, or an exception
\* (its message has the exception's name).
ExitStatuses == DoneStatuses \union {"Error"}

Completed_AnyFile(f) == ~f.cut

Completed(f) == ~f.cut /\ f.exit \in DoneStatuses

\* done_counts
DoneCount(i) == Cardinality({ f \in files : f.instance = i /\ Completed(f) })

\* The instances that need more runs; each is submitted once.
Pending == { i \in Instances : DoneCount(i) < RunsPerInstance }

Init ==
  /\ invocations = 0 /\ todo = {}
  /\ pc = [w \in Workers |-> "idle"] /\ job = [w \in Workers |-> None]
  /\ exit = [w \in Workers |-> None]
  /\ files = {} /\ failed = FALSE /\ clean = 0

AllIdle == \A w \in Workers : pc[w] = "idle"

Ended == invocations > 0 /\ todo = {} /\ AllIdle

CleanRuns == IF Ended /\ ~failed THEN clean + 1 ELSE clean

Invoke ==
  /\ todo = {} /\ AllIdle
  /\ invocations < MaxInvocations
  /\ invocations' = invocations + 1
  /\ todo' = Pending
  /\ failed' = FALSE /\ clean' = CleanRuns
  /\ UNCHANGED <<threads, files>>

Start(w) ==
  /\ pc[w] = "idle"
  /\ \E i \in todo : todo' = todo \ {i} /\ job' = [job EXCEPT ![w] = i]
  /\ pc' = [pc EXCEPT ![w] = "environment"]
  /\ exit' = [exit EXCEPT ![w] = None]
  /\ UNCHANGED <<invocations, files, failed, clean>>

End(ws) ==
  /\ pc' = [w \in Workers |-> IF w \in ws THEN "idle" ELSE pc[w]]
  /\ job' = [w \in Workers |-> IF w \in ws THEN None ELSE job[w]]
  /\ exit' = [w \in Workers |-> IF w \in ws THEN None ELSE exit[w]]

\* get_sb_environment and apply_patch; without an agent nothing is written.
Environment(w) ==
  /\ pc[w] = "environment"
  /\ \/ /\ pc' = [pc EXCEPT ![w] = "agent"]
        /\ UNCHANGED <<job, exit, failed>>
     \/ End({w}) /\ failed' = TRUE
  /\ UNCHANGED <<invocations, todo, files, clean>>

\* agent.run returns and its submission is graded, or it raises.
AgentEnds(w) ==
  /\ pc[w] = "agent"
  /\ \E status \in ExitStatuses :
       /\ exit' = [exit EXCEPT ![w] = status]
       /\ pc' = [pc EXCEPT ![w] = IF status \in DoneStatuses THEN "grade" ELSE "write"]
       /\ failed' = (failed \/ status \notin DoneStatuses)
  /\ UNCHANGED <<invocations, todo, job, files, clean>>

\* evaluate_trajectory returns or raises: the file is written in either case.
Grade(w) ==
  /\ pc[w] = "grade"
  /\ pc' = [pc EXCEPT ![w] = "write"]
  /\ UNCHANGED <<invocations, todo, job, exit, files, failed, clean>>

File(w, cut) == [run |-> invocations, instance |-> job[w], exit |-> exit[w],
                 cut |-> cut]

\* {uid}.json is a new name for every run.
WriteFile(w) ==
  /\ pc[w] = "write"
  /\ files' = files \union {File(w, FALSE)}
  /\ End({w})
  /\ UNCHANGED <<invocations, todo, failed, clean>>

\* Ctrl-C: futures that have not started are cancelled.
Interrupt ==
  /\ todo # {}
  /\ todo' = {} /\ failed' = TRUE
  /\ UNCHANGED <<invocations, threads, files, clean>>

\* SIGKILL; a file being written may be left cut.
Kill ==
  /\ ~AllIdle
  /\ \E S \in SUBSET { w \in Workers : pc[w] = "write" } :
       files' = files \union { File(w, TRUE) : w \in S }
  /\ todo' = {} /\ End(Workers) /\ failed' = TRUE
  /\ UNCHANGED <<invocations, clean>>

Thread(w) == \/ Start(w) \/ Environment(w) \/ AgentEnds(w) \/ Grade(w)
             \/ WriteFile(w)

Next == Invoke \/ (\E w \in Workers : Thread(w)) \/ Interrupt \/ Kill

Spec == Init /\ [][Next]_vars

-----------------------------------------------------------------------------
(* Properties *)

Collected(i) == { f \in files : /\ f.instance = i /\ ~f.cut
                                /\ f.exit \in DoneStatuses }

\* However often collection is interrupted or killed, no instance gets more
\* completed trajectories than were asked for; and an invocation adds one to
\* every instance that is short of some: after as many invocations without a
\* failure as were asked for collection is complete.
CollectsWhatWasAsked ==
  \A i \in Instances :
    /\ DoneCount(i) <= RunsPerInstance
    /\ Cardinality(Collected(i)) >= IF CleanRuns < RunsPerInstance THEN CleanRuns
                                    ELSE RunsPerInstance
=============================================================================
