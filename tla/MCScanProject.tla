---------------------------- MODULE MCScanProject ----------------------------
(***************************************************************************)
(* ScanProject on small instances: bitcode contents are interchangeable.   *)
(***************************************************************************)
EXTENDS ScanProjectInv, TLC

Symmetry == Permutations(Contents)
=============================================================================
