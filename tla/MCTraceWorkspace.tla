-------------------------- MODULE MCTraceWorkspace --------------------------
(***************************************************************************)
(* TraceWorkspace on small instances.  Suites are interchangeable, and so  *)
(* are the pids that name none of the user's files.                        *)
(***************************************************************************)
EXTENDS TraceWorkspaceInv, TLC

Symmetry == Permutations(Suites) \cup Permutations(Pids \ UserPids)
=============================================================================
