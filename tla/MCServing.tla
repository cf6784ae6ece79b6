----------------------------- MODULE MCServing -----------------------------
(***************************************************************************)
(* What serves a model, in one run: every behaviour is one of the router   *)
(* in front of the backends (Router), of the inference servers of a        *)
(* training job (VllmServer) or of the training server's database          *)
(* (DbSnapshot), and "what" says which.  They share nothing.               *)
(***************************************************************************)
EXTENDS Router, VllmServer, DbSnapshot, TLC

CONSTANTS t1, t2, t3, t4

\* Two trajectories of the same task instance; t4 asks for completions.
MCSharedTask == (t1 :> "a") @@ (t2 :> "a") @@ (t3 :> "b") @@ (t4 :> NoKey)

VARIABLE what \* rigid: "router", "vllm" or "db"

ServingInit ==
  what \in {"router", "vllm", "db"} /\ RouterInit /\ Init /\ DbInit

ServingNext ==
  /\ UNCHANGED what
  /\ \/ what = "router" /\ RouterNext /\ UNCHANGED <<vars, dbVars>>
     \/ what = "vllm" /\ Next /\ UNCHANGED <<routerVars, dbVars>>
     \/ what = "db" /\ DbNext /\ UNCHANGED <<routerVars, vars>>

\* The fairness is that of the inference servers, and so is the liveness that is
\* checked: of the other parts only safety is.
ServingSpec ==
  /\ ServingInit
  /\ [][ServingNext]_<<what, routerVars, vars, dbVars>>
  /\ Fairness
=============================================================================
