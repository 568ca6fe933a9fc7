------------------------------ MODULE MCAccounts ------------------------------
(***************************************************************************)
(* Two guests that may link to the same account, and two requests.         *)
(***************************************************************************)
EXTENDS Accounts, TLC

Symmetry == Permutations(Principals) \cup Permutations(Requests) \cup Permutations(Subjects)
            \cup Permutations(Keys) \cup Permutations(Checks)
=============================================================================
