----------------------- MODULE MCCaptureClaimsEvidence -----------------------
(***************************************************************************)
(* Three components that share no state, explored one at a time by one     *)
(* run: its states are those of Capture, of Claims and of Evidence, not    *)
(* their product.                                                          *)
(***************************************************************************)
EXTENDS MCCapture, MCClaims, MCEvidence

VARIABLE part   \* the component this behaviour is about

Is(p, A) == part = p /\ A

OneInit ==
  /\ part \in {"capture", "claims", "evidence"} /\ Init /\ CInit /\ EInit
  /\ part # "claims" => obs = CHOOSE o \in Inputs : TRUE

OneNext ==
  \/ Is("capture", Next) /\ UNCHANGED <<part, cvars, evars>>
  \/ Is("claims", CNext) /\ UNCHANGED <<part, vars, evars>>
  \/ Is("evidence", ENext) /\ UNCHANGED <<part, vars, cvars>>

OneSpec == OneInit /\ [][OneNext]_<<part, vars, cvars, evars>>
=============================================================================
