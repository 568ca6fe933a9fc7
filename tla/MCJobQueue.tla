---------------------------- MODULE MCJobQueue ----------------------------
(***************************************************************************)
(* Small instances of JobQueue for TLC.                                    *)
(***************************************************************************)
EXTENDS JobQueue, TLC

CONSTANTS k1, k2, kr

(* The stage k1 publishes with the successor k2; kr is a retention run. *)
MCFanouts == [k \in {k1, k2, kr} |-> IF k = k1 THEN {{k2}} ELSE {{}}]

Symmetry == Permutations(Jobs) \cup Permutations(Workers)
            \cup Permutations(Owners)
=============================================================================
