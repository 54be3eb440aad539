--------------------------- MODULE MCActionRequests ---------------------------
(***************************************************************************)
(* Instances of ActionRequests for TLC.  The handler slots are             *)
(* interchangeable, the actors are not: one of them is the owner.          *)
(***************************************************************************)
EXTENDS ActionRequests, TLC

Interchangeable == Permutations(Handlers)
=============================================================================
