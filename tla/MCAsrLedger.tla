---------------------------- MODULE MCAsrLedger ----------------------------
(***************************************************************************)
(* Small instances of AsrLedger for TLC.                                   *)
(***************************************************************************)
EXTENDS AsrLedger, TLC

CONSTANTS k1, k2

NoSuccessor == [k \in Keys |-> {{}}]

Symmetry == Permutations(Jobs) \cup Permutations(Keys)
=============================================================================
