---------------------------- MODULE MCJobService ----------------------------
(***************************************************************************)
(* Small instances of JobService for TLC: the chain of a reanalysis        *)
(* request and the chain of an upload.                                     *)
(***************************************************************************)
EXTENDS JobService, TLC

CONSTANTS k1, k2, k3, u1, u2, u3

(* A reanalysis step may end the request or hand it on; intake leads to    *)
(* media validation, and that to speech unless the file has none.         *)
Chains == [k \in Keys |-> CASE k = k1 -> {{}, {k2}}
                             [] k = k2 -> {{}, {k3}}
                             [] k = u1 -> {{u2}}
                             [] k = u2 -> {{}, {u3}}
                             [] OTHER -> {{}}]

Symmetry == Permutations(Jobs)
=============================================================================
