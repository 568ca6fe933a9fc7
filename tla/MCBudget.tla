------------------------------- MODULE MCBudget -------------------------------
(***************************************************************************)
(* Two processes that share one request slot, and one that is admitted to  *)
(* the shared bucket or to the token bucket of the fallback provider.      *)
(***************************************************************************)
EXTENDS Budget

MCPerHour == [b \in Buckets |-> IF b = "scholarxiv" THEN 2 ELSE 1]
MCPerTick == [b \in Buckets |-> 1]
MCCosts == {[b \in Buckets |-> IF b = "scholarxiv" THEN 1 ELSE 0],
            [b \in Buckets |-> IF b = "scholarxiv" THEN 0 ELSE 2]}
=============================================================================
