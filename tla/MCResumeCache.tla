---------------------------- MODULE MCResumeCache ----------------------------
(***************************************************************************)
(* ResumeCache on small instances, and the inductive invariant TLC checks  *)
(* before ResumeCache_proofs proves it.  Identities and marks are          *)
(* interchangeable.                                                        *)
(***************************************************************************)
EXTENDS ResumeCacheInv, TLC

Symmetry == Permutations(Identities) \cup Permutations(Marks)
=============================================================================
