----------------------------- MODULE ProjectRun ------------------------------
(***************************************************************************)
(* run_project.py: runs of main, one after the other, with one output      *)
(* directory.  A run takes the targets of its manifest in turn; for each   *)
(* it runs scan.py, run_suite.py and report.py on files in the target's    *)
(* directory, and rewrites summary.json and summary.csv with the rows so   *)
(* far.                                                                    *)
(*                                                                         *)
(* A file is the run that wrote it and whether it is whole.  The scripts   *)
(* are processes with the exits and the files that their code allows;      *)
(* SuiteRun shows that suite.csv is whole when run_suite.py exits 0.       *)
(***************************************************************************)
EXTENDS Naturals, Sequences

CONSTANTS
  NumTargets,  \* bound on the targets of a manifest
  MaxRuns      \* bound on the runs

ASSUME ConstantsAssumption == NumTargets \in Nat \ {0} /\ MaxRuns \in Nat

Targets == 1 .. NumTargets
None == [whole |-> FALSE, run |-> 0]
Whole(f) == f.whole
Written(f) == f # None

VARIABLES
  pc,           \* idle, forget, scan, forgetSuite, suite, report, row, json, csv
  run,          \* number of the run
  mode,         \* args.mode
  targets,      \* number of targets in the manifest
  rows,         \* rows so far
  static,       \* static[t]: static.json of t
  suite,        \* suite[t]: suite/suite.csv of t
  coverage,     \* coverage[t]: coverage.json of t, with the files it was made from
  edges,        \* edges[t]: observed_edges.json of t
  suiteStatus,  \* exit of run_suite.py
  reportStatus, \* exit of report.py
  summaryJson,  \* summary.json of the project, with its rows
  summaryCsv,   \* summary.csv of the project, with its rows
  status        \* exit: none, running, 0, 1, killed

target == <<static, suite, coverage, edges>>
exits == <<suiteStatus, reportStatus>>
summaries == <<summaryJson, summaryCsv>>
vars == <<pc, run, mode, targets, rows, target, exits, summaries, status>>

NoRows == [whole |-> FALSE, run |-> 0, rows |-> << >>]
Point(p) == pc = p
Goto(p) == pc' = p
t == Len(rows) + 1

Init ==
  /\ pc = "idle" /\ run = 0 /\ mode = "fast" /\ targets = 1 /\ rows = << >>
  /\ static = [i \in Targets |-> None]
  /\ suite = [i \in Targets |-> None]
  /\ coverage = [i \in Targets |-> None]
  /\ edges = [i \in Targets |-> None]
  /\ suiteStatus = 0 /\ reportStatus = 0
  /\ summaryJson = NoRows /\ summaryCsv = NoRows
  /\ status = "none"

(* The manifest is valid; it and the mode may differ from run to run.      *)
Start ==
  /\ Point("idle") /\ run < MaxRuns
  /\ run' = run + 1
  /\ mode' \in {"fast", "edge"}
  /\ targets' \in Targets
  /\ rows' = << >>
  /\ status' = "running"
  /\ Goto("forget")
  /\ UNCHANGED <<target, exits, summaries>>

(* Mutant of Forget: coverage.json stays.                                  *)
ForgetNothing ==
  /\ Point("forget")
  /\ Goto("scan")
  /\ UNCHANGED <<run, mode, targets, rows, target, exits, summaries, status>>

Forget ==
  /\ Point("forget")
  /\ coverage' = [coverage EXCEPT ![t] = None]
  /\ Goto("scan")
  /\ UNCHANGED <<run, mode, targets, rows, static, suite, edges, exits, summaries, status>>

AddRow(s, made) == rows' = Append(rows, [target |-> t, status |-> s, made |-> made])
Error == AddRow("error", None) /\ Goto("json")

(* scan.py.                                                                *)
Scan ==
  /\ Point("scan")
  /\ static' = [static EXCEPT ![t] = [whole |-> TRUE, run |-> run]]
  /\ Goto("forgetSuite")
  /\ UNCHANGED <<run, mode, targets, rows, suite, coverage, edges, exits, summaries, status>>

(* It fails before or while it writes.                                     *)
ScanFails ==
  /\ Point("scan")
  /\ static' \in {static, [static EXCEPT ![t] = [whole |-> FALSE, run |-> run]]}
  /\ Error
  /\ UNCHANGED <<run, mode, targets, suite, coverage, edges, exits, summaries, status>>

(* Mutant of ForgetSuite: suite.csv stays.                                 *)
ForgetSuiteNothing ==
  /\ Point("forgetSuite")
  /\ Goto("suite")
  /\ UNCHANGED <<run, mode, targets, rows, target, exits, summaries, status>>

ForgetSuite ==
  /\ Point("forgetSuite")
  /\ suite' = [suite EXCEPT ![t] = None]
  /\ Goto("suite")
  /\ UNCHANGED <<run, mode, targets, rows, static, coverage, edges, exits, summaries, status>>

(* run_suite.py: exit 0 with a whole file; another exit with any, or none. *)
Suite ==
  /\ Point("suite")
  /\ \/ /\ suiteStatus' = 0
        /\ suite' = [suite EXCEPT ![t] = [whole |-> TRUE, run |-> run]]
     \/ /\ suiteStatus' = 1
        /\ \/ \E w \in BOOLEAN : suite' = [suite EXCEPT ![t] = [whole |-> w, run |-> run]]
           \/ UNCHANGED suite
  /\ Goto("report")
  /\ UNCHANGED <<run, mode, targets, rows, static, coverage, edges, reportStatus,
                 summaries, status>>

NoTrace ==
  /\ Point("report") /\ ~Written(suite[t])
  /\ Error
  /\ UNCHANGED <<run, mode, targets, target, exits, summaries, status>>

(* A file cannot be removed, a log cannot be opened, or a script cannot be *)
(* started.                                                                *)
CannotRun ==
  /\ Point("forgetSuite") \/ Point("suite") \/ (Point("report") /\ Written(suite[t]))
  /\ Error
  /\ UNCHANGED <<run, mode, targets, target, exits, summaries, status>>

Made(w, undefined) ==
  [whole |-> w, run |-> run, static |-> static[t], suite |-> suite[t], undefined |-> undefined]

(* report.py to its end: 2 when there is no project callsite.              *)
Report ==
  /\ Point("report") /\ Written(suite[t])
  /\ \E undefined \in BOOLEAN :
       /\ coverage' = [coverage EXCEPT ![t] = Made(TRUE, undefined)]
       /\ reportStatus' = IF undefined THEN 2 ELSE 0
  /\ edges' = IF mode = "edge" THEN [edges EXCEPT ![t] = [whole |-> TRUE, run |-> run]]
                               ELSE edges
  /\ Goto("row")
  /\ UNCHANGED <<run, mode, targets, rows, static, suite, suiteStatus, summaries, status>>

(* argparse's error exit is 2 too: an input cannot be read, or the binary  *)
(* changed since the scan.                                                 *)
ReportRejects ==
  /\ Point("report") /\ Written(suite[t])
  /\ reportStatus' = 2
  /\ Goto("row")
  /\ UNCHANGED <<run, mode, targets, rows, target, suiteStatus, summaries, status>>

(* It fails in the middle: coverage.json and then the edges may be         *)
(* missing, torn or whole.                                                 *)
ReportFails ==
  /\ Point("report") /\ Written(suite[t])
  /\ \/ UNCHANGED <<coverage, edges>>
     \/ \E w, undefined \in BOOLEAN :
          /\ coverage' = [coverage EXCEPT ![t] = Made(w, undefined)]
          /\ UNCHANGED edges
     \/ \E undefined \in BOOLEAN :
          /\ mode = "edge"
          /\ coverage' = [coverage EXCEPT ![t] = Made(TRUE, undefined)]
          /\ edges' = [edges EXCEPT ![t] = [whole |-> FALSE, run |-> run]]
  /\ reportStatus' = 1
  /\ Goto("row")
  /\ UNCHANGED <<run, mode, targets, rows, static, suite, suiteStatus, summaries, status>>

(* An exit of 2 counts only with the coverage.json that goes with it.      *)
Usable ==
  /\ reportStatus \in {0, 2}
  /\ Whole(coverage[t])
  /\ reportStatus = 2 => coverage[t].undefined

(* Mutant of RowStatus: an undefined coverage hides failing tests.         *)
RowStatusUndefinedFirst ==
  IF coverage[t].undefined THEN "indeterminate"
  ELSE IF suiteStatus # 0 THEN "failed" ELSE "passed"

RowStatus ==
  IF suiteStatus # 0 THEN "failed"
  ELSE IF coverage[t].undefined THEN "indeterminate" ELSE "passed"

Row ==
  /\ Point("row") /\ Usable
  /\ AddRow(RowStatus, coverage[t])
  /\ Goto("json")
  /\ UNCHANGED <<run, mode, targets, target, exits, summaries, status>>

ReportError ==
  /\ Point("row") /\ ~Usable
  /\ Error
  /\ UNCHANGED <<run, mode, targets, target, exits, summaries, status>>

TornRows == [whole |-> FALSE, run |-> run, rows |-> << >>]
WholeRows == [whole |-> TRUE, run |-> run, rows |-> rows]

(* Mutant of OpenJson: both files are opened before either is written.     *)
OpenBoth ==
  /\ Point("json") /\ summaryJson # TornRows
  /\ summaryJson' = TornRows /\ summaryCsv' = TornRows
  /\ UNCHANGED <<pc, run, mode, targets, rows, target, exits, status>>

(* Each of the two files is opened for writing, hence torn, and written.   *)
OpenJson ==
  /\ Point("json") /\ summaryJson # TornRows
  /\ summaryJson' = TornRows
  /\ UNCHANGED <<pc, run, mode, targets, rows, target, exits, summaryCsv, status>>

WriteJson ==
  /\ Point("json") /\ summaryJson = TornRows
  /\ summaryJson' = WholeRows
  /\ Goto("csv")
  /\ UNCHANGED <<run, mode, targets, rows, target, exits, summaryCsv, status>>

OpenCsv ==
  /\ Point("csv") /\ summaryCsv # TornRows
  /\ summaryCsv' = TornRows
  /\ UNCHANGED <<pc, run, mode, targets, rows, target, exits, summaryJson, status>>

(* Mutant of Verdict: a target without callsites does not count.           *)
VerdictOfFailures ==
  IF \E i \in DOMAIN rows : rows[i].status \in {"failed", "error"} THEN "1" ELSE "0"

Verdict == IF \E i \in DOMAIN rows : rows[i].status # "passed" THEN "1" ELSE "0"

(* Mutant of WriteCsv: one target too many is begun.                       *)
WriteCsvLate ==
  /\ Point("csv") /\ summaryCsv = TornRows
  /\ summaryCsv' = WholeRows
  /\ IF Len(rows) <= targets
     THEN Goto("forget") /\ UNCHANGED status
     ELSE Goto("idle") /\ status' = Verdict
  /\ UNCHANGED <<run, mode, targets, rows, target, exits, summaryJson>>

WriteCsv ==
  /\ Point("csv") /\ summaryCsv = TornRows
  /\ summaryCsv' = WholeRows
  /\ IF Len(rows) < targets
     THEN Goto("forget") /\ UNCHANGED status
     ELSE Goto("idle") /\ status' = Verdict
  /\ UNCHANGED <<run, mode, targets, rows, target, exits, summaryJson>>

(* A signal, or an error outside of main's try.                            *)
Interrupted ==
  /\ pc # "idle"
  /\ Goto("idle") /\ status' = "killed"
  /\ UNCHANGED <<run, mode, targets, rows, target, exits, summaries>>

Collect == Forget \/ Scan \/ ScanFails \/ ForgetSuite \/ Suite \/ NoTrace \/ CannotRun
Summarise == Report \/ ReportRejects \/ ReportFails \/ Row \/ ReportError
Persist == OpenJson \/ WriteJson \/ OpenCsv \/ WriteCsv
Next == Start \/ Collect \/ Summarise \/ Persist \/ Interrupted

Spec == Init /\ [][Next]_vars

-----------------------------------------------------------------------------
RowStatuses == {"passed", "failed", "indeterminate", "error"}

(* Types; every file is of this run or an earlier one, and rows are those  *)
(* of the manifest's targets in order.                                     *)
TypeOK ==
  /\ pc \in {"idle", "forget", "scan", "forgetSuite", "suite", "report", "row", "json", "csv"}
  /\ run \in 0 .. MaxRuns /\ mode \in {"fast", "edge"} /\ targets \in Targets
  /\ Len(rows) <= targets /\ (pc = "forget" => Len(rows) < targets)
  /\ \A i \in DOMAIN rows : rows[i].target = i /\ rows[i].status \in RowStatuses
  /\ \A i \in Targets :
       /\ {static[i], suite[i], edges[i]} \subseteq [whole : BOOLEAN, run : 0 .. run]
       /\ coverage[i].run \in 0 .. run
  /\ suiteStatus \in 0 .. 1 /\ reportStatus \in 0 .. 2
  /\ summaryJson.run \in 0 .. run /\ summaryCsv.run \in 0 .. run
  /\ status \in {"none", "running", "0", "1", "killed"}

(* A row that has counts has them from this run: coverage.json, static     *)
(* sites and trace are none that an earlier run left behind, and in edge   *)
(* mode the edges beside it are of this run too (main, lines 95 and 109).  *)
RowsOfThisRun ==
  \A i \in DOMAIN rows :
    rows[i].status # "error" =>
      /\ rows[i].made.run = run
      /\ rows[i].made.static = [whole |-> TRUE, run |-> run]
      /\ rows[i].made.suite.run = run
      /\ (mode = "edge") => (edges[i] = [whole |-> TRUE, run |-> run])

(* A target is passed only with a coverage from a whole trace of tests     *)
(* that passed; a row whose trace may be cut short says failed, whether    *)
(* or not its coverage is undefined.                                       *)
CutTraceIsFailed ==
  \A i \in DOMAIN rows :
    LET row == rows[i] IN
    /\ (row.status = "passed") => ~row.made.undefined
    /\ (row.status \in {"passed", "indeterminate"}) => Whole(row.made.suite)

(* Once a target is done, its row is in one of the two summary files,      *)
(* wherever a later target is interrupted (main, comment of line 143):     *)
(* neither is opened before the other is whole.                            *)
ProgressIsPersisted ==
  \A n \in 1 .. Len(rows) - 1 :
    \E f \in {summaryJson, summaryCsv} :
      /\ Whole(f) /\ f.run = run
      /\ n \in DOMAIN f.rows /\ f.rows[n] = rows[n]

(* A run that comes to its end leaves both summaries whole, alike, and     *)
(* with a row for each target; exit 0 means that all of them passed.       *)
FinishedRunIsReported ==
  (pc = "idle" /\ status \in {"0", "1"}) =>
    /\ Len(rows) = targets
    /\ summaryJson = WholeRows /\ summaryCsv = WholeRows
    /\ (status = "0") <=> (\A i \in DOMAIN rows : rows[i].status = "passed")
=============================================================================
