----------------------------- MODULE MCCoverage ------------------------------
(***************************************************************************)
(* Coverage of three small binaries, with pages of four bytes.              *)
(***************************************************************************)
EXTENDS Coverage, TLC

LOCAL Segment(v, n, a) == [vaddr |-> v, size |-> n, align |-> a]
LOCAL Code(indirect, name, operand, dirs) ==
  [indirect |-> indirect, name |-> name, operand |-> operand, dirs |-> dirs]

(* Position independent; two source calls of which one has a runtime name. *)
Pie ==
  [pie |-> TRUE, loads |-> {Segment(0, 8, 4), Segment(9, 4, 16)},
   code |-> (2 :> Code(TRUE, "other", "other", {"source"}))
         @@ (3 :> Code(FALSE, "other", "other", {"source"}))
         @@ (5 :> Code(TRUE, "runtime", "runtime", {"source"}))
         @@ (10 :> Code(TRUE, "runtime", "other", {}))]

(* Not position independent, and not loaded at a multiple of p_align.      *)
Fixed ==
  [pie |-> FALSE, loads |-> {Segment(9, 8, 16)},
   code |-> (10 :> Code(TRUE, "uv", "other", {}))
         @@ (12 :> Code(TRUE, "other", "other", {"source", "test"}))]

(* A build of the same layout, and no project callsite.                    *)
Bare ==
  [pie |-> FALSE, loads |-> {Segment(9, 8, 16)},
   code |-> (10 :> Code(TRUE, "other", "other", {"testLike"}))]

MCImages == {Pie, Fixed, Bare}
Symmetry == Permutations(Tests)
=============================================================================
