------------------------------ MODULE MCAccounts ------------------------------
(***************************************************************************)
(* Instances of Accounts for TLC: handler slots are interchangeable.       *)
(***************************************************************************)
EXTENDS Accounts, TLC

Interchangeable == Permutations(Handlers)
===============================================================================
