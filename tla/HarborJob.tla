----------------------------- MODULE HarborJob -----------------------------
(***************************************************************************)
(* The batch job of the Harbor evaluation                                  *)
(* (scripts/eval/harbor_eval.sbatch): it starts vLLM, deploys a relay app  *)
(* in the cloud, starts the bridge between them, runs harbor and cleans up *)
(* at its end or on a signal.  A run is a sequence of such jobs, each of   *)
(* which resumes the trials of the one before.                             *)
(*                                                                         *)
(* A signal is noticed between commands: the trap then runs in the place   *)
(* it hit.  Under set -e the script ends after it unless the last command  *)
(* of cleanup() succeeds, which is the wait for vLLM: when the server ends *)
(* with status 0, the script goes on.  A process is started by one command *)
(* and its PID recorded by the next: a signal between them finds none.     *)
(* harbor, vLLM and the cloud are external.                                *)
(***************************************************************************)
EXTENDS Integers

CONSTANTS
  Trials,
  MaxJobs     \* bound: jobs of one JOB_NAME

VARIABLES
  route,      \* rigid: how harbor reaches vLLM: by an app of the job's "own"
              \* (EPHEMERAL_RELAY), a "shared" relay, or "direct"
  jobs,       \* jobs started
  step,       \* position of the script; "gone" when no job runs
  handler,    \* position of cleanup(), or "off"
  cleaned,    \* _CLEANED_UP
  signal,     \* a signal was sent and not noticed yet
  named,      \* RELAY_APP_NAME is set
  vllm,       \* "none", "loading", "ready", "dead" or "stopped" by cleanup()
  relay,      \* the job's own app: "none", "up", "old" (an earlier job's), or
              \* "tried": it is up, but a stop was tried and failed
  bridge,     \* "none", "up", "dead" or "stopped"
  harbor,     \* "none", "running", "cancelling" (INT), "dying" (TERM), "dead"
  trials,     \* trial -> its state in the job directory
  killed,     \* history: the job ended by SIGKILL
  excused     \* history: what the job goes on to hurt after a signal that
              \* came too early, "relay" and "trials"

script == <<step, handler, cleaned, signal, named>>
processes == <<vllm, relay, bridge, harbor>>
history == <<killed, excused>>
jobVars == <<route, jobs, script, processes, trials, history>>

JobInit ==
  /\ route \in {"own", "shared", "direct"}
  /\ jobs = 1 /\ step = "serve" /\ handler = "off"
  /\ cleaned = FALSE /\ signal = FALSE /\ named = FALSE
  /\ vllm = "none" /\ relay = "none" /\ bridge = "none" /\ harbor = "none"
  /\ trials = [t \in Trials |-> "todo"]
  /\ killed = FALSE /\ excused = {}

-----------------------------------------------------------------------------
(* The script *)

At(s) == step = s /\ handler = "off"

Serve ==
  /\ At("serve")
  /\ vllm' = "loading" /\ step' = "vllm_pid"
  /\ UNCHANGED <<route, jobs, handler, cleaned, signal, named, relay,
                 bridge, harbor, trials, history>>

\* VLLM_PID=$!, BRIDGE_PID=$!, HARBOR_PID=$!
RecordPid ==
  /\ handler = "off"
  /\ \/ step = "vllm_pid" /\ step' = "poll"
     \/ step = "bridge_pid" /\ step' = "register"
     \/ step = "harbor_pid" /\ step' = "wait"
  /\ UNCHANGED <<route, jobs, handler, cleaned, signal, named, processes,
                 trials, history>>

VLLM_PID == vllm # "none" /\ step # "vllm_pid"

BRIDGE_PID == bridge # "none" /\ step # "bridge_pid"

HARBOR_PID == harbor # "none" /\ step # "harbor_pid"

\* The poll of /health: ready, dead, or out of tries.
Poll ==
  /\ At("poll")
  /\ step' = IF vllm # "ready" THEN "exit"
             ELSE CASE route = "own"    -> "stop_old"
                    [] route = "shared" -> "bridge"
                    [] route = "direct" -> "launch"
  /\ UNCHANGED <<route, jobs, handler, cleaned, signal, named, processes,
                 trials, history>>

\* What modal app stop can do; its failure is ignored.
Stopped == {"none", IF relay = "none" THEN "none" ELSE "tried"}

Transported == bridge = "up" /\ (route = "own" => relay \in {"up", "tried"})

StopOld ==
  /\ At("stop_old")
  /\ named' = TRUE
  /\ relay' \in Stopped
  /\ step' = "deploy"
  /\ UNCHANGED <<route, jobs, handler, cleaned, signal, vllm, bridge,
                 harbor, trials, history>>

Deploy ==
  /\ At("deploy")
  /\ \/ relay' = "up" /\ step' = "bridge"
     \/ UNCHANGED relay /\ step' = "exit"
  /\ UNCHANGED <<route, jobs, handler, cleaned, signal, named, vllm, bridge,
                 harbor, trials, history>>

StartBridge ==
  /\ At("bridge")
  /\ bridge' = "up" /\ step' = "bridge_pid"
  /\ UNCHANGED <<route, jobs, handler, cleaned, signal, named, vllm, relay,
                 harbor, trials, history>>

\* bridge_connected, or not in 24 probes of bounded length.
Register ==
  /\ At("register")
  /\ \/ Transported /\ step' = "launch"
     \/ step' = "exit"
  /\ UNCHANGED <<route, jobs, handler, cleaned, signal, named, processes,
                 trials, history>>

\* harbor job resume runs cancelled and unfinished trials again and keeps
\* failures.
Launch ==
  /\ At("launch")
  /\ harbor' = "running" /\ step' = "harbor_pid"
  /\ trials' = [t \in Trials |->
                  IF trials[t] \in {"running", "cancelled"} THEN "todo"
                  ELSE trials[t]]
  /\ UNCHANGED <<route, jobs, handler, cleaned, signal, named, vllm, relay,
                 bridge, history>>

Waited ==
  /\ At("wait") /\ harbor = "dead"
  /\ step' = "exit"
  /\ UNCHANGED <<route, jobs, handler, cleaned, signal, named, processes,
                 trials, history>>

\* The end of the script, once the EXIT trap has run; what still runs on the
\* node dies with the job.
Exit ==
  /\ At("exit") /\ cleaned
  /\ step' = "gone"
  /\ vllm' = "dead" /\ bridge' = "dead" /\ harbor' = "dead"
  /\ UNCHANGED <<route, jobs, handler, cleaned, signal, named, relay, trials,
                 history>>

-----------------------------------------------------------------------------
(* cleanup() *)

Signal ==
  /\ step # "gone" /\ ~signal
  /\ signal' = TRUE
  /\ UNCHANGED <<route, jobs, step, handler, cleaned, named, processes,
                 trials, history>>

\* What is at risk when the script goes on from here after a cleanup.
Risks == IF step \in {"stop_old", "deploy"} THEN {"relay", "trials"}
         ELSE IF step \in {"bridge", "bridge_pid", "register", "launch", "harbor_pid"}
         THEN {"trials"} ELSE {}

\* A trap ends the wait.
Interrupted == IF step = "wait" THEN "exit" ELSE step

\* On a signal or at the exit.
Trap ==
  /\ handler = "off" /\ ~cleaned
  /\ signal \/ step = "exit"
  /\ step # "gone"
  /\ cleaned' = TRUE /\ handler' = "harbor" /\ signal' = FALSE
  /\ step' = Interrupted
  /\ excused' = excused \union Risks
  /\ UNCHANGED <<route, jobs, named, processes, trials, killed>>

\* A second time cleanup() returns the status of the command that was hit.
TrapAgain ==
  /\ handler = "off" /\ cleaned /\ signal /\ step # "gone"
  /\ signal' = FALSE
  /\ step' \in {Interrupted, "exit"}
  /\ UNCHANGED <<route, jobs, handler, cleaned, named, processes, trials, history>>

AfterInt_NotWaited == "relay"

AfterInt == "grace"

\* harbor may ignore the INT: bash starts background commands with it ignored.
StopHarbor ==
  /\ handler = "harbor"
  /\ IF HARBOR_PID /\ harbor = "running"
     THEN harbor' \in {"running", "cancelling"} /\ handler' = AfterInt
     ELSE UNCHANGED harbor /\ handler' = "relay"
  /\ UNCHANGED <<route, jobs, step, cleaned, signal, named, vllm, relay,
                 bridge, trials, history>>

\* Thirty seconds for harbor to end; then TERM, which is not waited for.
Grace ==
  /\ handler = "grace"
  /\ handler' = "relay"
  /\ harbor' = IF harbor = "dead" THEN "dead" ELSE "dying"
  /\ UNCHANGED <<route, jobs, step, cleaned, signal, named, vllm, relay,
                 bridge, trials, history>>

AppToStop_WithHarbor == named /\ harbor # "none"

AppToStop == named

StopRelay ==
  /\ handler = "relay"
  /\ IF AppToStop THEN relay' \in Stopped ELSE UNCHANGED relay
  /\ handler' = "bridge"
  /\ UNCHANGED <<route, jobs, step, cleaned, signal, named, vllm, bridge,
                 harbor, trials, history>>

\* kill of a bridge that is gone fails, and under set -e that ends the script.
StopBridge ==
  /\ handler = "bridge"
  /\ IF BRIDGE_PID /\ bridge = "dead"
     THEN step' = "exit" /\ handler' = "off" /\ UNCHANGED bridge
     ELSE /\ bridge' = IF BRIDGE_PID /\ bridge = "up" THEN "stopped" ELSE bridge
          /\ handler' = "vllm" /\ UNCHANGED step
  /\ UNCHANGED <<route, jobs, cleaned, signal, named, vllm, relay, harbor,
                 trials, history>>

\* The same for vLLM, and when there is no VLLM_PID; otherwise the script goes on if
\* it ended with status 0.
StopVllm ==
  /\ handler = "vllm"
  /\ handler' = "off"
  /\ IF VLLM_PID /\ vllm \in {"loading", "ready"}
     THEN vllm' = "stopped" /\ step' \in {step, "exit"}
     ELSE UNCHANGED vllm /\ step' = "exit"
  /\ UNCHANGED <<route, jobs, cleaned, signal, named, relay, bridge, harbor,
                 trials, history>>

-----------------------------------------------------------------------------
(* What the job starts, and the scheduler *)

VllmReady ==
  /\ vllm = "loading" /\ vllm' = "ready"
  /\ UNCHANGED <<route, jobs, script, relay, bridge, harbor, trials, history>>

VllmDies ==
  /\ vllm \in {"loading", "ready"} /\ vllm' = "dead"
  /\ UNCHANGED <<route, jobs, script, relay, bridge, harbor, trials, history>>

BridgeDies ==
  /\ bridge = "up" /\ bridge' = "dead"
  /\ UNCHANGED <<route, jobs, script, vllm, relay, harbor, trials, history>>

Alive == harbor \in {"running", "cancelling", "dying"}

\* Whether a trial reaches the model.
Reaches == vllm = "ready" /\ (route = "direct" \/ Transported)

\* What cleanup() has stopped.
Taken == \/ route = "own" /\ relay \notin {"up", "tried"}
         \/ bridge = "stopped" \/ vllm = "stopped"

\* A trial begins, ends with a verdict, or, without the model, with an error:
\* "taken" if cleanup() took it away.
StepTrial(t) ==
  /\ Alive
  /\ trials' \in { [trials EXCEPT ![t] = s] :
       s \in (IF trials[t] = "todo" /\ harbor = "running" THEN {"running"} ELSE {})
         \union (IF trials[t] # "running" THEN {}
                 ELSE IF Reaches THEN {"done"}
                 ELSE IF Taken THEN {"taken"} ELSE {"failed"}) }
  /\ UNCHANGED <<route, jobs, script, processes, history>>

\* harbor ends: with its trials, on INT after cancelling what runs, on TERM
\* (or by itself) with what runs left as it is.
HarborEnds ==
  /\ Alive
  /\ harbor' = "dead"
  /\ trials' = [t \in Trials |->
                  IF harbor = "cancelling" /\ trials[t] = "running"
                  THEN "cancelled" ELSE trials[t]]
  /\ UNCHANGED <<route, jobs, script, vllm, relay, bridge, history>>

\* SIGKILL after the grace of the scheduler.
KillJob ==
  /\ step # "gone"
  /\ step' = "gone" /\ handler' = "off" /\ killed' = TRUE
  /\ vllm' = "dead" /\ bridge' = "dead" /\ harbor' = "dead"
  /\ UNCHANGED <<route, jobs, cleaned, signal, named, relay, trials, excused>>

NextJob ==
  /\ step = "gone" /\ jobs < MaxJobs
  /\ jobs' = jobs + 1 /\ step' = "serve"
  /\ cleaned' = FALSE /\ signal' = FALSE /\ named' = FALSE
  /\ vllm' = "none" /\ bridge' = "none" /\ harbor' = "none"
  /\ relay' = IF relay = "up" THEN "old" ELSE relay
  /\ killed' = FALSE /\ excused' = {}
  /\ UNCHANGED <<route, handler, trials>>

Script == \/ Serve \/ Poll \/ StopOld \/ Deploy \/ StartBridge \/ Register
          \/ Launch \/ RecordPid \/ Waited \/ Exit

Cleanup == Trap \/ TrapAgain \/ StopHarbor \/ Grace \/ StopRelay \/ StopBridge \/ StopVllm

JobNext == \/ Script \/ Cleanup \/ Signal
           \/ VllmReady \/ VllmDies \/ BridgeDies \/ HarborEnds
           \/ \E t \in Trials : StepTrial(t)
           \/ KillJob \/ NextJob

JobSpec == JobInit /\ [][JobNext]_jobVars

-----------------------------------------------------------------------------
(* Properties *)

\* "deploys its OWN relay app ..., then stops it on exit": no job that ends by
\* itself or by a signal leaves the relay it deployed without having tried to
\* stop it, wherever it failed or was hit, unless the signal came just before
\* the deployment and the script went on.
RelayStopped ==
  step = "gone" /\ ~killed /\ "relay" \notin excused => relay # "up"

TakenNow(t) == trials[t] # "taken" /\ trials'[t] = "taken"

\* "Stop harbor FIRST, gracefully (SIGINT), so in-flight trials cancel cleanly
\* ... BEFORE we pull vLLM/relay out from under them": no trial fails because
\* the job's own cleanup took its model away.
NoTrialTaken == \A t \in Trials : trials[t] # "taken"

\* What holds of it, in every job of a run: once the script waits for harbor, a
\* trial can lose its model to cleanup only after harbor was given its thirty
\* seconds and sent TERM, wherever a signal, a crash or a cleanup that ends half
\* way comes in.
OnlyTermTakes ==
  [][ \A t \in Trials :
        TakenNow(t) => harbor = "dying" \/ "trials" \in excused ]_jobVars
=============================================================================
