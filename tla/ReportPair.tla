----------------------------- MODULE ReportPair ------------------------------
(***************************************************************************)
(* What scan_project_ir.py promises about callsites.json and               *)
(* callsites.txt (llvm/README.md and the docstring of publish_reports):    *)
(* the two change together, to the reports of the run that is under way,   *)
(* and a failed run that has not changed both has changed neither.  Only   *)
(* being killed, or a rollback that fails as well, may tear them apart.    *)
(***************************************************************************)
EXTENDS Naturals

CONSTANT MaxRuns

VARIABLES
  pair,     \* runs that wrote callsites.json and callsites.txt, 0 for no file
  run,      \* number of the latest run
  outcome   \* how it ended: none, running, ok, failed, torn, killed

vars == <<pair, run, outcome>>

Init == pair = <<0, 0>> /\ run = 0 /\ outcome = "none"

Begin ==
  /\ outcome # "running" /\ run < MaxRuns
  /\ run' = run + 1
  /\ outcome' = "running"
  /\ UNCHANGED pair

Publish ==
  /\ outcome = "running" /\ pair # <<run, run>>
  /\ pair' = <<run, run>>
  /\ UNCHANGED <<run, outcome>>

Succeed ==
  /\ outcome = "running" /\ pair = <<run, run>>
  /\ outcome' = "ok"
  /\ UNCHANGED <<pair, run>>

Fail ==
  /\ outcome = "running"
  /\ outcome' = "failed"
  /\ UNCHANGED <<pair, run>>

Tear ==
  /\ outcome = "running"
  /\ outcome' \in {"torn", "killed"}
  /\ pair' \in {pair, <<run, pair[2]>>}
  /\ UNCHANGED run

Next == Begin \/ Publish \/ Succeed \/ Fail \/ Tear

Spec == Init /\ [][Next]_vars
=============================================================================
