---------------------------- MODULE MCUploadBudget ----------------------------
(***************************************************************************)
(* Two components that share no state, explored one at a time by one run:  *)
(* its states are those of Upload and of Budget, not their product.  The   *)
(* part a behaviour is about never changes, so each part has the fairness  *)
(* of its own specification, and nothing else is fair.                     *)
(***************************************************************************)
EXTENDS MCUpload, MCBudget

VARIABLE part   \* the component this behaviour is about

Is(p, A) == part = p /\ A

OneInit ==
  /\ part \in {"upload", "budget"} /\ UInit /\ BInit
  /\ part = "upload" => quotas_enabled

OneNext ==
  \/ Is("upload", UNext) /\ UNCHANGED <<part, bvars>>
  \/ Is("budget", BNext) /\ UNCHANGED <<part, uvars>>

OneFairness ==
  /\ WF_uvars(Is("upload", Due)) /\ WF_uvars(Is("upload", Poll))
  /\ WF_bvars(Is("budget", Tick))
  /\ \A c \in Requesters : WF_bvars(Is("budget", Advance(c)))

OneSpec == OneInit /\ [][OneNext]_<<part, uvars, bvars>> /\ OneFairness
=============================================================================
