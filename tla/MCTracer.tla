------------------------------- MODULE MCTracer ------------------------------
(***************************************************************************)
(* Tracer on small instances: pids, threads, sites and targets are         *)
(* interchangeable.                                                        *)
(***************************************************************************)
EXTENDS Tracer, TLC

Symmetry ==
  Permutations(Pids) \cup Permutations(Threads) \cup Permutations(Sites)
    \cup Permutations(Targets)
=============================================================================
