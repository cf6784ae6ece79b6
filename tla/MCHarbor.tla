------------------------------ MODULE MCHarbor ------------------------------
(***************************************************************************)
(* The Harbor evaluation in one run: every behaviour is one of the relay   *)
(* between the agents and the nodes (Relay) or one of the batch jobs that  *)
(* deploy it and clean up (HarborJob), and "what" says which.              *)
(***************************************************************************)
EXTENDS Relay, HarborJob

VARIABLE what \* rigid: "relay" or "job"

HarborInit == what \in {"relay", "job"} /\ RelayInit /\ JobInit

HarborNext ==
  /\ UNCHANGED what
  /\ \/ what = "relay" /\ RelayNext /\ UNCHANGED jobVars
     \/ what = "job" /\ JobNext /\ UNCHANGED relayVars

\* The fairness is that of the relay, and so is the liveness that is checked:
\* of the other part no behaviour is fair, and only its safety is checked.
HarborSpec ==
  /\ HarborInit
  /\ [][HarborNext]_<<what, relayVars, jobVars>>
  /\ RelayFairness
=============================================================================
