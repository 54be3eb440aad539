---------------------------- MODULE MCDockerActions ----------------------------
(***************************************************************************)
(* Instances of DockerActions for TLC: handler slots are interchangeable.  *)
(***************************************************************************)
EXTENDS DockerActions, TLC

Interchangeable == Permutations(Handlers)

\* No allowlist, one that names every container and one that names none of them.
SomeLists == {{}, Containers, {"another"}}
================================================================================
