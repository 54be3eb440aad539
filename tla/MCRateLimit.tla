------------------------------ MODULE MCRateLimit ------------------------------
(***************************************************************************)
(* Instances of RateLimit for TLC: users are interchangeable.              *)
(***************************************************************************)
EXTENDS RateLimit, TLC

Interchangeable == Permutations(Users)
================================================================================
