---------------------------- MODULE ProjectRunInv ----------------------------
(***************************************************************************)
(* The inductive invariant of ProjectRun, in named parts.                  *)
(***************************************************************************)
EXTENDS ProjectRun

Points == {"idle", "forget", "scan", "forgetSuite", "suite", "report", "row", "json", "csv"}
Files == [whole : BOOLEAN, run : Nat]
MadeFiles ==
  [whole : BOOLEAN, run : Nat \ {0}, static : Files, suite : Files, undefined : BOOLEAN]
RowTypes == [target : Targets, status : RowStatuses, made : MadeFiles \cup {None}]
Summaries == [whole : BOOLEAN, run : Nat, rows : Seq(RowTypes)]

ControlType ==
  /\ pc \in Points
  /\ run \in 0 .. MaxRuns /\ mode \in {"fast", "edge"} /\ targets \in Targets
  /\ suiteStatus \in 0 .. 1 /\ reportStatus \in 0 .. 2
  /\ status \in {"none", "running", "0", "1", "killed"}

FilesType ==
  /\ static \in [Targets -> Files]
  /\ suite \in [Targets -> Files]
  /\ edges \in [Targets -> Files]
  /\ coverage \in [Targets -> MadeFiles \cup {None}]

RowsType == rows \in Seq(RowTypes) /\ summaryJson \in Summaries /\ summaryCsv \in Summaries

(* No file is of a run to come.                                            *)
BoundInv ==
  /\ \A i \in Targets :
       static[i].run <= run /\ suite[i].run <= run /\ edges[i].run <= run /\ coverage[i].run <= run
  /\ summaryJson.run <= run /\ summaryCsv.run <= run

(* Where the loop over the targets is.                                     *)
PointInv ==
  /\ pc # "idle" => status = "running" /\ run > 0
  /\ pc = "idle" => status # "running"
  /\ Len(rows) <= targets
  /\ pc \notin {"idle", "json", "csv"} => Len(rows) < targets
  /\ pc \in {"json", "csv"} => Len(rows) > 0

ThisRun == [whole |-> TRUE, run |-> run]

(* What the files of the target at work are, step by step.                 *)
TargetInv ==
  /\ pc \in {"scan", "forgetSuite", "suite", "report"} => coverage[t] = None
  /\ pc \in {"forgetSuite", "suite", "report", "row"} => static[t] = ThisRun
  /\ pc = "suite" => suite[t] = None
  /\ pc \in {"report", "row"} =>
       /\ Written(suite[t]) => suite[t].run = run
       /\ suiteStatus = 0 => Whole(suite[t])

(* A coverage.json that is there was made from them, and goes with the     *)
(* edges and the exit of report.py.                                        *)
ReportInv ==
  pc = "row" =>
    /\ Written(suite[t])
    /\ Written(coverage[t]) =>
         /\ coverage[t].run = run
         /\ coverage[t].static = static[t] /\ coverage[t].suite = suite[t]
         /\ (mode = "edge" /\ reportStatus # 1) => edges[t] = ThisRun
         /\ reportStatus = 0 => ~coverage[t].undefined

(* The rows so far tell of this run.                                       *)
RowsInv ==
  /\ \A i \in DOMAIN rows : rows[i].target = i
  /\ RowsOfThisRun
  /\ CutTraceIsFailed

Holds(f, n) ==
  /\ Whole(f) /\ f.run = run
  /\ Len(f.rows) = n /\ \A i \in 1 .. n : f.rows[i] = rows[i]

(* What the summaries hold at each point; at the end of a run, and when it *)
(* was interrupted.                                                        *)
SummaryInv ==
  /\ (pc \notin {"idle", "json", "csv"} /\ Len(rows) > 0) =>
       Holds(summaryJson, Len(rows)) /\ Holds(summaryCsv, Len(rows))
  /\ pc = "json" => (Len(rows) > 1 => Holds(summaryCsv, Len(rows) - 1))
  /\ pc = "csv" => summaryJson = WholeRows

IndInv ==
  /\ ControlType /\ FilesType /\ RowsType /\ BoundInv
  /\ PointInv /\ TargetInv /\ ReportInv /\ RowsInv /\ SummaryInv
  /\ ProgressIsPersisted /\ FinishedRunIsReported
=============================================================================
