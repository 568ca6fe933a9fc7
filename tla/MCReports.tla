----------------------------- MODULE MCReports -----------------------------
(***************************************************************************)
(* Small instances of Reports for TLC.                                     *)
(***************************************************************************)
EXTENDS Reports, TLC

CONSTANTS k1, k2

(* Any stage may have the other key as its next check. *)
NextCheck == [k \in {k1, k2} |-> {{}, {k1, k2} \ {k}}]

Symmetry == Permutations(Jobs) \cup Permutations(Keys)
=============================================================================
