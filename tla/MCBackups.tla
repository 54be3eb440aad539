------------------------------- MODULE MCBackups -------------------------------
(***************************************************************************)
(* Instances of Backups for TLC: handler slots are interchangeable.        *)
(***************************************************************************)
EXTENDS Backups, TLC

Interchangeable == Permutations(Handlers)
================================================================================
