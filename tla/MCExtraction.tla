----------------------------- MODULE MCExtraction -----------------------------
(***************************************************************************)
(* Two windows that share an occurrence through their overlap, and the     *)
(* reconciliation of a capture.                                            *)
(***************************************************************************)
EXTENDS Extraction, TLC

CONSTANTS w1, w2

TwoClaims == (w1 :> {1, 2}) @@ (w2 :> {2, 3})
=============================================================================
