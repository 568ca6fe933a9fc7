-------------------------- MODULE MCWorkerExtraction --------------------------
(***************************************************************************)
(* Two components that share no state, explored one at a time by one run:  *)
(* its states are those of Worker and of Extraction, not their product.    *)
(* The part a behaviour is about never changes, so each part has the       *)
(* fairness of its own specification, and nothing else is fair.            *)
(***************************************************************************)
EXTENDS MCWorker, MCExtraction

VARIABLE part   \* the component this behaviour is about

Is(p, A) == part = p /\ A

OneInit == part \in {"worker", "extraction"} /\ WInit /\ XInit

(* An extraction is over some time after its input; a worker never is. *)
OneNext ==
  \/ Is("worker", WNext) /\ UNCHANGED <<part, xvars>>
  \/ Is("extraction", XNext) /\ UNCHANGED <<part, wvars>>
  \/ Is("extraction", input # "working") /\ UNCHANGED <<part, wvars, xvars>>

OneFairness ==
  /\ \A w \in Workers : WF_wvars(Is("worker", Work(w))) /\ WF_wvars(Is("worker", Restart(w)))
  /\ WF_wvars(Is("worker", Clock))
  /\ WF_xvars(Is("extraction", UpstreamEnds)) /\ WF_xvars(Is("extraction", Settle))
  /\ WF_xvars(Is("extraction", ScheduleReconciliation))
  /\ WF_xvars(Is("extraction", \E j \in J : WorkTask(j)))

OneSpec == OneInit /\ [][OneNext]_<<part, wvars, xvars>> /\ OneFairness
=============================================================================
