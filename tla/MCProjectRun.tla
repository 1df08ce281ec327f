---------------------------- MODULE MCProjectRun -----------------------------
(***************************************************************************)
(* ProjectRun on small instances: two targets, two runs.                   *)
(***************************************************************************)
EXTENDS ProjectRun
=============================================================================
