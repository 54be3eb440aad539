------------------------------- MODULE MCAlerts -------------------------------
(***************************************************************************)
(* Instances of Alerts for TLC: the runner's slots are interchangeable.    *)
(***************************************************************************)
EXTENDS Alerts, TLC

Interchangeable == Permutations(Runners)
===============================================================================
