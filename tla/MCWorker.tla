------------------------------ MODULE MCWorker ------------------------------
(***************************************************************************)
(* Small instances of Worker for TLC.                                      *)
(***************************************************************************)
EXTENDS Worker

CONSTANT k1

(* One stage alone, and one retry of each class. *)
OneStage == [k \in {k1} |-> {{}}]
OneRetry == [c \in Classes |-> 1]
=============================================================================
