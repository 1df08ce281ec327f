-------------------------- MODULE ProjectRun_proofs --------------------------
(***************************************************************************)
(* Proofs about ProjectRun, for any targets, runs and failures: its types, *)
(* and that no row tells of an earlier run, no trace that was cut short    *)
(* passes, and finished rows survive.                                      *)
(***************************************************************************)
EXTENDS ProjectRunInv, TLAPS

AtTarget == pc \notin {"idle", "json", "csv"}

LEMMA TargetInRange ==
  ASSUME ControlType, RowsType, PointInv, AtTarget
  PROVE  t \in Targets /\ t \in Nat /\ t = Len(rows) + 1
<1>1. Len(rows) \in Nat /\ Len(rows) < targets
  BY DEF RowsType, PointInv, AtTarget
<1> QED BY <1>1, ConstantsAssumption DEF t, Targets, ControlType

(* The actions that add a row, and what they add.                          *)
Adds(made) ==
  \E s \in RowStatuses :
    rows' = Append(rows, [target |-> t, status |-> s, made |-> made])
AddingError == ScanFails \/ NoTrace \/ CannotRun \/ ReportError
Adding == AddingError \/ Row
AddedError == [target |-> t, status |-> "error", made |-> None]

LEMMA ErrorEffect ==
  ASSUME AddingError
  PROVE  /\ AtTarget /\ pc' = "json"
         /\ rows' = Append(rows, AddedError)
         /\ UNCHANGED <<run, mode, targets, suite, coverage, edges, exits, summaries, status>>
BY DEF AddingError, ScanFails, NoTrace, CannotRun, ReportError, Error, AddRow, Goto, Point,
       AtTarget, AddedError, target

AddedRow == [target |-> t, status |-> RowStatus, made |-> coverage[t]]

LEMMA RowEffect ==
  ASSUME Row
  PROVE  /\ AtTarget /\ pc = "row" /\ pc' = "json" /\ Usable
         /\ rows' = Append(rows, AddedRow)
         /\ UNCHANGED <<run, mode, targets, suite, coverage, edges, exits, summaries, status>>
BY DEF Row, AddRow, Goto, Point, AtTarget, AddedRow, target

(* The actions that leave the rows and the summaries alone.                *)
Working == Forget \/ Scan \/ ForgetSuite \/ Suite \/ Report \/ ReportRejects \/ ReportFails

LEMMA WorkingEffect ==
  ASSUME Working
  PROVE  /\ AtTarget /\ pc' \notin {"idle", "json", "csv", "forget"}
         /\ UNCHANGED <<run, mode, targets, rows, summaries, status>>
BY DEF Working, Forget, Scan, ForgetSuite, Suite, Report, ReportRejects, ReportFails, Point, Goto,
       AtTarget

Persisting == OpenJson \/ WriteJson \/ OpenCsv \/ WriteCsv

LEMMA PersistingEffect ==
  ASSUME Persisting
  PROVE  /\ pc \in {"json", "csv"} /\ pc' \in {"json", "csv", "forget", "idle"}
         /\ UNCHANGED <<run, mode, targets, rows, target, exits>>
BY DEF Persisting, OpenJson, WriteJson, OpenCsv, WriteCsv, Point, Goto

LEMMA NextCases ==
  ASSUME Next
  PROVE  Start \/ Adding \/ Working \/ Persisting \/ Interrupted
BY DEF Next, Collect, Summarise, Persist, Adding, AddingError, Working, Persisting

-----------------------------------------------------------------------------
LEMMA RowStatusType == RowStatus \in RowStatuses
BY DEF RowStatus, RowStatuses

LEMMA AddedErrorType ==
  ASSUME ControlType, RowsType, PointInv, AtTarget
  PROVE  AddedError \in RowTypes
BY TargetInRange DEF AddedError, RowTypes, RowStatuses

(* A row that counts has a coverage made by report.py.                     *)
LEMMA AddedRowType ==
  ASSUME ControlType, FilesType, RowsType, PointInv, AtTarget
  PROVE  AddedRow \in RowTypes
<1>1. t \in Targets /\ coverage[t] \in MadeFiles \cup {None}
  BY TargetInRange DEF FilesType
<1> QED BY <1>1, RowStatusType DEF AddedRow, RowTypes

LEMMA RowsTypeStep ==
  ASSUME ControlType, FilesType, RowsType, PointInv, Next
  PROVE  RowsType'
<1>1. CASE Start
  BY <1>1 DEF Start, RowsType, summaries
<1>2. CASE AddingError
  <2>1. rows' \in Seq(RowTypes)
    BY <1>2, ErrorEffect, AddedErrorType DEF RowsType
  <2> QED BY <1>2, <2>1, ErrorEffect DEF RowsType, summaries
<1>3. CASE Row
  <2>1. rows' \in Seq(RowTypes)
    BY <1>3, RowEffect, AddedRowType DEF RowsType
  <2> QED BY <1>3, <2>1, RowEffect DEF RowsType, summaries
<1>4. CASE Working
  BY <1>4, WorkingEffect DEF RowsType, summaries
<1>5. CASE Persisting
  <2>1. TornRows \in Summaries /\ WholeRows \in Summaries
    BY DEF TornRows, WholeRows, Summaries, RowsType, ControlType
  <2>2. summaryJson' \in {summaryJson, TornRows, WholeRows}
    BY <1>5 DEF Persisting, OpenJson, WriteJson, OpenCsv, WriteCsv
  <2>3. summaryCsv' \in {summaryCsv, TornRows, WholeRows}
    BY <1>5 DEF Persisting, OpenJson, WriteJson, OpenCsv, WriteCsv
  <2> QED BY <1>5, <2>1, <2>2, <2>3, PersistingEffect DEF RowsType
<1>6. CASE Interrupted
  BY <1>6 DEF Interrupted, RowsType, summaries
<1> QED BY <1>1, <1>2, <1>3, <1>4, <1>5, <1>6, NextCases DEF Adding

LEMMA ControlTypeStep ==
  ASSUME ControlType, PointInv, Next
  PROVE  ControlType'
<1>1. CASE Start
  BY <1>1, ConstantsAssumption DEF Start, ControlType, Goto, Points, Point, exits
<1>2. CASE Adding
  BY <1>2, ErrorEffect, RowEffect DEF Adding, ControlType, Points, exits
<1>3. CASE Working
  <2>1. pc' \in Points
    BY <1>3 DEF Working, Forget, Scan, ForgetSuite, Suite, Report, ReportRejects, ReportFails,
                Goto, Points
  <2>2. suiteStatus' \in 0 .. 1 /\ reportStatus' \in 0 .. 2
    <3>1. CASE Suite
      BY <3>1 DEF Suite, ControlType
    <3>2. CASE Report
      BY <3>2 DEF Report, ControlType
    <3>3. CASE ReportRejects
      <4>1. reportStatus' = 2 /\ suiteStatus' = suiteStatus
        BY <3>3 DEF ReportRejects
      <4> QED BY <4>1 DEF ControlType
    <3>5. CASE ReportFails
      <4>1. reportStatus' = 1 /\ suiteStatus' = suiteStatus
        BY <3>5 DEF ReportFails
      <4> QED BY <4>1 DEF ControlType
    <3>4. CASE Forget \/ Scan \/ ForgetSuite
      BY <3>4 DEF Forget, Scan, ForgetSuite, ControlType, exits
    <3> QED BY <1>3, <3>1, <3>2, <3>3, <3>4, <3>5 DEF Working
  <2> QED BY <1>3, <2>1, <2>2, WorkingEffect DEF ControlType
<1>4. CASE Persisting
  <2>1. status' \in {status, "0", "1"}
    BY <1>4 DEF Persisting, OpenJson, WriteJson, OpenCsv, WriteCsv, Verdict
  <2> QED BY <1>4, <2>1, PersistingEffect DEF ControlType, Points, exits
<1>5. CASE Interrupted
  BY <1>5 DEF Interrupted, ControlType, Goto, Points, exits
<1> QED BY <1>1, <1>2, <1>3, <1>4, <1>5, NextCases

-----------------------------------------------------------------------------
(* A file that is written is of this run.                                  *)
LEMMA MadeType ==
  ASSUME ControlType, FilesType, RowsType, PointInv, AtTarget,
         NEW w \in BOOLEAN, NEW u \in BOOLEAN
  PROVE  /\ Made(w, u) \in MadeFiles
         /\ Made(w, u) = [whole |-> w, run |-> run, static |-> static[t],
                          suite |-> suite[t], undefined |-> u]
         /\ Made(w, u) # None
<1>1. static[t] \in Files /\ suite[t] \in Files /\ run \in Nat \ {0}
  BY TargetInRange, ConstantsAssumption DEF FilesType, ControlType, PointInv, AtTarget
<1>2. Made(w, u) \in MadeFiles
  BY <1>1 DEF Made, MadeFiles
<1>3. Made(w, u).run # None.run
  BY <1>1 DEF Made, None
<1> QED BY <1>2, <1>3 DEF Made

LEMMA RunIsNat ==
  ASSUME ControlType
  PROVE  run \in Nat
BY ConstantsAssumption DEF ControlType

LEMMA FileTypes ==
  ASSUME ControlType
  PROVE  /\ None \in Files
         /\ \A w \in BOOLEAN : [whole |-> w, run |-> run] \in Files
BY RunIsNat DEF None, Files

LEMMA FilesTypeStep ==
  ASSUME ControlType, FilesType, RowsType, PointInv, Next
  PROVE  FilesType'
<1>1. CASE Start \/ Interrupted \/ NoTrace \/ CannotRun \/ ReportError \/ Row \/ Persisting
  <2>1. UNCHANGED target
    BY <1>1, PersistingEffect DEF Start, Interrupted, NoTrace, CannotRun, ReportError, Row
  <2> QED BY <2>1 DEF FilesType, target
<1>2. CASE Forget
  BY <1>2 DEF Forget, FilesType
<1>3. CASE Scan \/ ScanFails
  BY <1>3, FileTypes DEF Scan, ScanFails, FilesType
<1>4. CASE ForgetSuite \/ Suite
  BY <1>4, FileTypes DEF ForgetSuite, Suite, FilesType
<1>5. CASE Report
  <2>1. coverage' \in [Targets -> MadeFiles \cup {None}]
    BY <1>5, WorkingEffect, MadeType DEF Report, FilesType, Working
  <2>2. edges' \in [Targets -> Files]
    BY <1>5, FileTypes DEF Report, FilesType
  <2> QED BY <1>5, <2>1, <2>2 DEF Report, FilesType
<1>6. CASE ReportRejects
  BY <1>6 DEF ReportRejects, FilesType, target
<1>7. CASE ReportFails
  <2>1. coverage' \in [Targets -> MadeFiles \cup {None}]
    BY <1>7, WorkingEffect, MadeType DEF ReportFails, FilesType, Working
  <2>2. edges' \in [Targets -> Files]
    BY <1>7, FileTypes DEF ReportFails, FilesType
  <2> QED BY <1>7, <2>1, <2>2 DEF ReportFails, FilesType
<1> QED
  BY <1>1, <1>2, <1>3, <1>4, <1>5, <1>6, <1>7 DEF Next, Collect, Summarise, Persist, Persisting

LEMMA BoundStep ==
  ASSUME ControlType, FilesType, RowsType, PointInv, BoundInv, Next
  PROVE  BoundInv'
<1> USE RunIsNat
<1>1. run' \in Nat /\ run' >= run
  BY NextCases, ErrorEffect, RowEffect, WorkingEffect, PersistingEffect
     DEF Start, Adding, Interrupted
<1>2. summaryJson'.run <= run' /\ summaryCsv'.run <= run'
  <2>1. CASE Persisting
    <3>1. TornRows.run = run /\ WholeRows.run = run /\ run' = run
      BY <2>1, PersistingEffect DEF TornRows, WholeRows
    <3>2. /\ summaryJson' \in {summaryJson, TornRows, WholeRows}
          /\ summaryCsv' \in {summaryCsv, TornRows, WholeRows}
      BY <2>1 DEF Persisting, OpenJson, WriteJson, OpenCsv, WriteCsv
    <3> QED BY <3>1, <3>2 DEF BoundInv
  <2>2. CASE ~Persisting
    <3>1. UNCHANGED summaries
      BY <2>2, NextCases, ErrorEffect, RowEffect, WorkingEffect DEF Start, Adding, Interrupted
    <3>2. summaryJson.run \in Nat /\ summaryCsv.run \in Nat
      BY DEF RowsType, Summaries
    <3> QED BY <1>1, <3>1, <3>2 DEF BoundInv, summaries
  <2> QED BY <2>1, <2>2
<1>3. ASSUME NEW i \in Targets
      PROVE  /\ static[i].run \in Nat /\ suite[i].run \in Nat
             /\ edges[i].run \in Nat /\ coverage[i].run \in Nat
  BY DEF FilesType, Files, MadeFiles, None
<1>4. ASSUME NEW i \in Targets
      PROVE  static'[i].run <= run'
  <2>1. static' = static \/ (run' = run /\ \E w \in BOOLEAN :
                               static' = [static EXCEPT ![t] = [whole |-> w, run |-> run]])
    BY NextCases, ErrorEffect, RowEffect, WorkingEffect, PersistingEffect
       DEF Next, Collect, Summarise, Persist, Start, Interrupted, Forget, Scan, ScanFails,
           ForgetSuite, Suite, NoTrace, CannotRun, Report, ReportRejects, ReportFails, Row,
           ReportError, Persisting, target
  <2> QED BY <1>1, <1>3, <2>1 DEF BoundInv, FilesType
<1>5. ASSUME NEW i \in Targets
      PROVE  suite'[i].run <= run'
  <2>1. \/ suite' = suite
        \/ suite' = [suite EXCEPT ![t] = None]
        \/ run' = run /\ \E w \in BOOLEAN :
                            suite' = [suite EXCEPT ![t] = [whole |-> w, run |-> run]]
    BY NextCases, ErrorEffect, RowEffect, WorkingEffect, PersistingEffect
       DEF Next, Collect, Summarise, Persist, Start, Interrupted, Forget, Scan, ScanFails,
           ForgetSuite, Suite, NoTrace, CannotRun, Report, ReportRejects, ReportFails, Row,
           ReportError, Persisting, target
  <2> QED BY <1>1, <1>3, <2>1 DEF BoundInv, FilesType, None
<1>6. ASSUME NEW i \in Targets
      PROVE  edges'[i].run <= run'
  <2>1. edges' = edges \/ (run' = run /\ \E w \in BOOLEAN :
                             edges' = [edges EXCEPT ![t] = [whole |-> w, run |-> run]])
    BY NextCases, ErrorEffect, RowEffect, WorkingEffect, PersistingEffect
       DEF Next, Collect, Summarise, Persist, Start, Interrupted, Forget, Scan, ScanFails,
           ForgetSuite, Suite, NoTrace, CannotRun, Report, ReportRejects, ReportFails, Row,
           ReportError, Persisting, target
  <2> QED BY <1>1, <1>3, <2>1 DEF BoundInv, FilesType
<1>7. ASSUME NEW i \in Targets
      PROVE  coverage'[i].run <= run'
  <2>1. \/ coverage' = coverage
        \/ coverage' = [coverage EXCEPT ![t] = None]
        \/ run' = run /\ \E w, u \in BOOLEAN : coverage' = [coverage EXCEPT ![t] = Made(w, u)]
    BY NextCases, ErrorEffect, RowEffect, WorkingEffect, PersistingEffect
       DEF Next, Collect, Summarise, Persist, Start, Interrupted, Forget, Scan, ScanFails,
           ForgetSuite, Suite, NoTrace, CannotRun, Report, ReportRejects, ReportFails, Row,
           ReportError, Persisting, target
  <2>2. \A w, u \in BOOLEAN : Made(w, u).run = run
    BY DEF Made
  <2> QED BY <1>1, <1>3, <2>1, <2>2 DEF BoundInv, FilesType, None
<1> QED BY <1>2, <1>4, <1>5, <1>6, <1>7 DEF BoundInv

LEMMA PointStep ==
  ASSUME ControlType, RowsType, PointInv, Next
  PROVE  PointInv'
<1> USE RunIsNat
<1>0. Len(rows) \in Nat /\ targets \in Nat \ {0}
  BY ConstantsAssumption DEF RowsType, ControlType, Targets
<1>1. CASE Start
  <2>1. targets' \in Nat \ {0} /\ Len(rows') = 0 /\ run' = run + 1
    BY <1>1, ConstantsAssumption DEF Start, Targets
  <2> QED BY <1>1, <2>1 DEF Start, PointInv, Goto
<1>2. CASE Adding
  <2>1. Len(rows') = Len(rows) + 1 /\ pc' = "json" /\ AtTarget
        /\ UNCHANGED <<run, targets, status>>
    BY <1>2, ErrorEffect, RowEffect DEF Adding, RowsType
  <2> QED BY <1>0, <2>1 DEF PointInv, AtTarget
<1>3. CASE Working
  BY <1>0, <1>3, WorkingEffect DEF PointInv, AtTarget
<1>4. CASE Persisting
  <2>1. CASE WriteCsv
    BY <1>0, <2>1 DEF WriteCsv, PointInv, Point, Goto, Verdict
  <2>2. CASE OpenJson \/ WriteJson \/ OpenCsv
    BY <1>0, <2>2 DEF OpenJson, WriteJson, OpenCsv, PointInv, Point, Goto
  <2> QED BY <1>4, <2>1, <2>2 DEF Persisting
<1>5. CASE Interrupted
  BY <1>0, <1>5 DEF Interrupted, PointInv, Goto
<1> QED BY <1>1, <1>2, <1>3, <1>4, <1>5, NextCases

-----------------------------------------------------------------------------
(* The files of the target at work are those that this run made.           *)
LEMMA TargetStep ==
  ASSUME ControlType, FilesType, RowsType, PointInv, TargetInv, Next
  PROVE  TargetInv'
<1>1. CASE pc' \in {"idle", "json", "csv", "forget"}
  BY <1>1 DEF TargetInv
<1>2. CASE Working
  <2>1. rows' = rows /\ run' = run /\ t' = t /\ t \in Targets
    BY <1>2, WorkingEffect, TargetInRange DEF t
  <2>2. ThisRun' = ThisRun /\ ThisRun.whole /\ ThisRun.run = run
    BY <2>1 DEF ThisRun
  <2>3. CASE Forget
    BY <2>1, <2>3 DEF Forget, Goto, TargetInv, FilesType
  <2>4. CASE Scan
    BY <2>1, <2>2, <2>4 DEF Scan, Goto, Point, TargetInv, FilesType, ThisRun
  <2>5. CASE ForgetSuite
    BY <2>1, <2>2, <2>5 DEF ForgetSuite, Goto, Point, TargetInv, FilesType
  <2>6. CASE Suite
    <3>1. pc = "suite" /\ pc' = "report" /\ UNCHANGED <<static, coverage>>
      BY <2>6 DEF Suite, Goto, Point
    <3>2. /\ Written(suite[t])' => suite'[t].run = run
          /\ suiteStatus' = 0 => suite'[t].whole
      BY <2>1, <2>6 DEF Suite, Goto, Point, TargetInv, FilesType, Written
    <3> QED BY <2>1, <2>2, <3>1, <3>2 DEF TargetInv, Whole, Written
  <2>7. CASE Report \/ ReportRejects \/ ReportFails
    <3>1. pc = "report" /\ pc' = "row" /\ UNCHANGED <<static, suite, suiteStatus>>
      BY <2>7 DEF Report, ReportRejects, ReportFails, Goto, Point, target
    <3> QED BY <2>1, <2>2, <3>1 DEF TargetInv, Whole, Written
  <2> QED BY <1>2, <2>3, <2>4, <2>5, <2>6, <2>7 DEF Working
<1>3. CASE Start \/ Adding \/ Persisting \/ Interrupted
  BY <1>1, <1>3, ErrorEffect, RowEffect, PersistingEffect DEF Start, Interrupted, Goto, Adding
<1> QED BY <1>2, <1>3, NextCases

(* A coverage.json that is there at the row was made from those files.     *)
LEMMA ReportStep ==
  ASSUME ControlType, FilesType, RowsType, PointInv, TargetInv, ReportInv, Next
  PROVE  ReportInv'
<1>1. CASE pc' # "row"
  BY <1>1 DEF ReportInv
<1>2. CASE Report \/ ReportRejects \/ ReportFails
  <2>1. /\ Working /\ AtTarget /\ pc = "report" /\ Written(suite[t])
        /\ UNCHANGED <<static, suite, suiteStatus, rows, run, mode>>
    BY <1>2, WorkingEffect
       DEF Working, Report, ReportRejects, ReportFails, Point, target
  <2>2. t' = t /\ t \in Targets /\ ThisRun' = ThisRun /\ coverage[t] = None
    BY <2>1, TargetInRange DEF t, ThisRun, TargetInv
  <2>3. CASE Report
    <3>1. PICK u \in BOOLEAN : /\ coverage' = [coverage EXCEPT ![t] = Made(TRUE, u)]
                               /\ reportStatus' = IF u THEN 2 ELSE 0
      BY <2>3 DEF Report
    <3>2. coverage'[t] = Made(TRUE, u)
      BY <2>2, <3>1 DEF FilesType
    <3>3. mode = "edge" => edges'[t] = ThisRun
      BY <2>2, <2>3 DEF Report, ThisRun, FilesType
    <3> QED BY <2>1, <2>2, <3>1, <3>2, <3>3 DEF ReportInv, Written, Made
  <2>4. CASE ReportRejects
    BY <2>1, <2>2, <2>4 DEF ReportRejects, ReportInv, Written, target
  <2>5. CASE ReportFails
    <3>1. reportStatus' = 1
      BY <2>5 DEF ReportFails
    <3>2. coverage' = coverage \/
          \E w, u \in BOOLEAN : coverage' = [coverage EXCEPT ![t] = Made(w, u)]
      BY <2>5 DEF ReportFails
    <3>3. coverage'[t] = None \/ \E w, u \in BOOLEAN : coverage'[t] = Made(w, u)
      BY <2>2, <3>2 DEF FilesType
    <3>4. Written(coverage[t])' => /\ coverage'[t].run = run
                                   /\ coverage'[t].static = static[t]
                                   /\ coverage'[t].suite = suite[t]
      <4>1. CASE coverage'[t] = None
        BY <2>2, <4>1 DEF Written
      <4>2. CASE \E w, u \in BOOLEAN : coverage'[t] = Made(w, u)
        <5>1. PICK w \in BOOLEAN, u \in BOOLEAN : coverage'[t] = Made(w, u)
          BY <4>2
        <5> QED BY <5>1 DEF Made
      <4> QED BY <3>3, <4>1, <4>2
    <3> QED BY <2>1, <2>2, <3>1, <3>4 DEF ReportInv, Written
  <2> QED BY <1>2, <2>3, <2>4, <2>5
<1>3. CASE Forget \/ Scan \/ ForgetSuite \/ Suite
  BY <1>1, <1>3 DEF Forget, Scan, ForgetSuite, Suite, Goto
<1>4. CASE Start \/ Adding \/ Persisting \/ Interrupted
  BY <1>1, <1>4, ErrorEffect, RowEffect, PersistingEffect DEF Start, Interrupted, Goto, Adding
<1> QED BY <1>2, <1>3, <1>4, NextCases DEF Working

-----------------------------------------------------------------------------
(* What a row i of the rows so far has to say.                             *)
RowIsOfThisRun(i) ==
  rows[i].status # "error" =>
    /\ rows[i].made.run = run
    /\ rows[i].made.static = ThisRun
    /\ rows[i].made.suite.run = run
    /\ mode = "edge" => edges[i] = ThisRun
RowIsFailed(i) ==
  /\ rows[i].status = "passed" => ~rows[i].made.undefined
  /\ rows[i].status \in {"passed", "indeterminate"} => rows[i].made.suite.whole
RowInv(i) == rows[i].target = i /\ RowIsOfThisRun(i) /\ RowIsFailed(i)

LEMMA RowsInvByRow ==
  ASSUME RowsType
  PROVE  RowsInv <=> (\A i \in 1 .. Len(rows) : RowInv(i))
<1>1. DOMAIN rows = 1 .. Len(rows)
  BY DEF RowsType
<1> QED
  BY <1>1 DEF RowsInv, RowsOfThisRun, CutTraceIsFailed, RowInv, RowIsOfThisRun, RowIsFailed,
              ThisRun, Whole

(* A row written by Row counts what this run made.                         *)
LEMMA RowIsGood ==
  ASSUME ControlType, FilesType, RowsType, PointInv, TargetInv, ReportInv, Row
  PROVE  /\ coverage[t].run = run
         /\ coverage[t].static = ThisRun
         /\ coverage[t].suite.run = run
         /\ mode = "edge" => edges[t] = ThisRun
         /\ RowStatus = "passed" => ~coverage[t].undefined
         /\ RowStatus \in {"passed", "indeterminate"} => coverage[t].suite.whole
<1>1. pc = "row" /\ Usable /\ t \in Targets
  BY RowEffect, TargetInRange
<1>2. Written(coverage[t])
  BY <1>1 DEF Usable, Whole, Written, None
<1>3. /\ coverage[t].run = run
      /\ coverage[t].static = static[t] /\ coverage[t].suite = suite[t]
      /\ Written(suite[t])
      /\ mode = "edge" => edges[t] = ThisRun
  BY <1>1, <1>2 DEF ReportInv, Usable
<1>4. static[t] = ThisRun /\ suite[t].run = run /\ (suiteStatus = 0 => suite[t].whole)
  BY <1>1, <1>3 DEF TargetInv, Whole
<1> QED BY <1>3, <1>4 DEF RowStatus

LEMMA RowIsKept ==
  ASSUME NEW i, RowInv(i), rows'[i] = rows[i], edges'[i] = edges[i], run' = run, mode' = mode
  PROVE  RowInv(i)'
BY DEF RowInv, RowIsOfThisRun, RowIsFailed, ThisRun

LEMMA RowsStep ==
  ASSUME ControlType, FilesType, RowsType, PointInv, TargetInv, ReportInv, RowsInv, Next
  PROVE  RowsInv'
<1>0. RowsType' /\ (\A i \in 1 .. Len(rows) : RowInv(i)) /\ Len(rows) \in Nat
  BY RowsTypeStep, RowsInvByRow DEF RowsType
<1>a. SUFFICES \A i \in 1 .. Len(rows') : RowInv(i)'
  <2>1. DOMAIN rows' = 1 .. Len(rows')
    BY <1>0 DEF RowsType
  <2> QED
    BY <2>1 DEF RowsInv, RowsOfThisRun, CutTraceIsFailed, RowInv, RowIsOfThisRun, RowIsFailed,
                ThisRun, Whole
<1>1. CASE Start
  BY <1>1 DEF Start
<1>2. CASE AddingError
  <2>1. /\ rows' = Append(rows, AddedError) /\ AtTarget
        /\ UNCHANGED <<run, mode, edges>>
    BY <1>2, ErrorEffect
  <2>2. /\ Len(rows') = Len(rows) + 1 /\ rows'[Len(rows) + 1] = AddedError
        /\ \A i \in 1 .. Len(rows) : rows'[i] = rows[i]
    BY <2>1, AddedErrorType DEF RowsType
  <2>3. ASSUME NEW i, i = Len(rows) + 1
        PROVE  RowInv(i)'
    BY <2>1, <2>2, <2>3 DEF RowInv, RowIsOfThisRun, RowIsFailed, AddedError, t
  <2>4. ASSUME NEW i \in 1 .. Len(rows)
        PROVE  RowInv(i)'
    BY <1>0, <2>1, <2>2, RowIsKept
  <2> QED BY <1>0, <2>2, <2>3, <2>4
<1>3. CASE Row
  <2>1. /\ rows' = Append(rows, AddedRow) /\ AtTarget
        /\ UNCHANGED <<run, mode, edges>>
    BY <1>3, RowEffect
  <2>2. /\ Len(rows') = Len(rows) + 1 /\ rows'[Len(rows) + 1] = AddedRow
        /\ \A i \in 1 .. Len(rows) : rows'[i] = rows[i]
    BY <2>1, AddedRowType DEF RowsType
  <2>3. ASSUME NEW i, i = Len(rows) + 1
        PROVE  RowInv(i)'
    BY <1>3, <2>1, <2>2, <2>3, RowIsGood
       DEF RowInv, RowIsOfThisRun, RowIsFailed, AddedRow, t, ThisRun
  <2>4. ASSUME NEW i \in 1 .. Len(rows)
        PROVE  RowInv(i)'
    BY <1>0, <2>1, <2>2, RowIsKept
  <2> QED BY <1>0, <2>2, <2>3, <2>4
<1>4. CASE Working
  <2>1. rows' = rows /\ run' = run /\ mode' = mode /\ t \in Targets /\ t = Len(rows) + 1
    BY <1>4, WorkingEffect, TargetInRange
  <2>2. edges' = edges \/ \E e : edges' = [edges EXCEPT ![t] = e]
    BY <1>4 DEF Working, Forget, Scan, ForgetSuite, Suite, Report, ReportRejects, ReportFails,
                target
  <2>3. \A i \in 1 .. Len(rows) : i \in Targets /\ i # t
    BY <1>0, <1>4, <2>1, WorkingEffect, ConstantsAssumption
       DEF Targets, PointInv, ControlType, AtTarget
  <2>4. \A i \in 1 .. Len(rows) : edges'[i] = edges[i]
    BY <2>2, <2>3 DEF FilesType
  <2> QED BY <1>0, <2>1, <2>4, RowIsKept
<1>5. CASE Persisting \/ Interrupted
  <2>1. UNCHANGED <<rows, run, mode, edges>>
    BY <1>5, PersistingEffect DEF Interrupted, target
  <2> QED BY <1>0, <2>1, RowIsKept
<1> QED BY <1>1, <1>2, <1>3, <1>4, <1>5, NextCases DEF Adding

-----------------------------------------------------------------------------
(* What the two summaries hold: at least one of them is whole, with all    *)
(* rows but the last, at every step.                                       *)
LEMMA HoldsOwnRows ==
  ASSUME RowsType
  PROVE  WholeRows.whole /\ WholeRows.run = run /\ WholeRows.rows = rows
         /\ Holds(WholeRows, Len(rows))
BY DEF WholeRows, Holds, Whole, RowsType

LEMMA SummaryStep ==
  ASSUME ControlType, FilesType, RowsType, PointInv, SummaryInv, Next
  PROVE  SummaryInv'
<1>0. Len(rows) \in Nat
  BY DEF RowsType
<1>1. CASE Start
  BY <1>1 DEF Start, SummaryInv, Goto
<1>2. CASE Adding
  <2>1. /\ pc' = "json" /\ AtTarget /\ UNCHANGED <<summaries, run>>
        /\ Len(rows') = Len(rows) + 1
        /\ \A i \in 1 .. Len(rows) : rows'[i] = rows[i]
    BY <1>2, ErrorEffect, RowEffect, AddedErrorType, AddedRowType DEF Adding, RowsType
  <2>2. Len(rows') > 1 => Holds(summaryCsv, Len(rows))
    BY <1>0, <2>1 DEF SummaryInv, AtTarget
  <2>3. Len(rows') - 1 = Len(rows)
    BY <1>0, <2>1
  <2>4. Len(rows') > 1 => Holds(summaryCsv, Len(rows) - 1)'
    BY <2>1, <2>2, <2>3 DEF Holds, Whole, summaries
  <2> QED BY <2>1, <2>4 DEF SummaryInv
<1>3. CASE Working
  <2>1. /\ AtTarget /\ pc' \notin {"idle", "json", "csv"}
        /\ UNCHANGED <<rows, run, summaryJson, summaryCsv>>
    BY <1>3, WorkingEffect DEF summaries
  <2> QED BY <2>1 DEF SummaryInv, AtTarget, Holds, Whole
<1>4. CASE OpenJson
  <2>1. pc = "json" /\ pc' = "json" /\ UNCHANGED <<rows, run, summaryCsv>>
    BY <1>4 DEF OpenJson, Point
  <2> QED BY <2>1 DEF SummaryInv, Holds, Whole
<1>5. CASE WriteJson
  BY <1>5 DEF WriteJson, Goto, SummaryInv, WholeRows
<1>6. CASE OpenCsv
  BY <1>6 DEF OpenCsv, Point, SummaryInv, WholeRows
<1>7. CASE WriteCsv
  <2>1. /\ pc = "csv" /\ pc' \in {"idle", "forget"}
        /\ UNCHANGED <<rows, run, summaryJson>> /\ summaryCsv' = WholeRows
    BY <1>7 DEF WriteCsv, Point, Goto
  <2>2. summaryJson' = WholeRows
    BY <2>1 DEF SummaryInv
  <2> QED BY <2>1, <2>2, HoldsOwnRows DEF SummaryInv, Holds, Whole
<1>8. CASE Interrupted
  BY <1>8 DEF Interrupted, Goto, SummaryInv
<1> QED
  BY <1>1, <1>2, <1>3, <1>4, <1>5, <1>6, <1>7, <1>8, NextCases DEF Persisting

LEMMA ProgressStep ==
  ASSUME IndInv, Next, RowsType', PointInv', SummaryInv'
  PROVE  ProgressIsPersisted'
<1>1. CASE pc' # "idle"
  <2> DEFINE N == Len(rows')
  <2>2. N \in Nat /\ DOMAIN rows' = 1 .. N
    BY DEF RowsType
  <2> HIDE DEF N
  <2>3. CASE N <= 1
    BY <2>2, <2>3 DEF ProgressIsPersisted, N
  <2>4. CASE N > 1
    <3>1. PICK f \in {summaryJson', summaryCsv'}, m \in Nat :
               /\ m >= N - 1 /\ f.whole /\ f.run = run'
               /\ Len(f.rows) = m /\ \A j \in 1 .. m : f.rows[j] = rows'[j]
      <4>1. CASE pc' = "json"
        <5>1. /\ summaryCsv'.whole /\ summaryCsv'.run = run' /\ Len(summaryCsv'.rows) = N - 1
              /\ \A j \in 1 .. N - 1 : summaryCsv'.rows[j] = rows'[j]
          BY <2>4, <4>1 DEF SummaryInv, Holds, Whole, N
        <5> QED BY <2>2, <2>4, <5>1
      <4>2. CASE pc' = "csv"
        BY <2>2, <2>4, <4>2 DEF SummaryInv, WholeRows, N
      <4>3. CASE pc' \notin {"idle", "json", "csv"}
        <5>1. /\ summaryCsv'.whole /\ summaryCsv'.run = run' /\ Len(summaryCsv'.rows) = N
              /\ \A j \in 1 .. N : summaryCsv'.rows[j] = rows'[j]
          <6>1. Holds(summaryCsv, Len(rows))'
            BY <2>2, <2>4, <4>3 DEF SummaryInv, N
          <6> QED BY <6>1 DEF Holds, Whole, N
        <5> QED BY <2>2, <2>4, <5>1
      <4> QED BY <1>1, <4>1, <4>2, <4>3
    <3>2. f.rows \in Seq(RowTypes)
      BY DEF RowsType, Summaries
    <3>3. DOMAIN f.rows = 1 .. m
      BY <3>1, <3>2
    <3>4. \A n \in 1 .. N - 1 : f.whole /\ f.run = run' /\ n \in DOMAIN f.rows
                                /\ f.rows[n] = rows'[n]
      BY <2>2, <3>1, <3>3
    <3> QED BY <3>4 DEF ProgressIsPersisted, Whole, N
  <2> QED BY <2>2, <2>3, <2>4
<1>2. CASE pc' = "idle"
  <2>1. WriteCsv \/ Interrupted
    BY <1>2, NextCases, ErrorEffect, RowEffect, WorkingEffect
       DEF Start, Adding, Persisting, OpenJson, WriteJson, OpenCsv, Point, Goto
  <2>2. CASE Interrupted
    BY <2>2 DEF Interrupted, IndInv, ProgressIsPersisted, Whole, summaries
  <2>3. CASE WriteCsv
    <3>1. UNCHANGED <<rows, run>> /\ summaryCsv' = WholeRows
      BY <2>3 DEF WriteCsv
    <3>2. WholeRows.whole /\ WholeRows.run = run /\ WholeRows.rows = rows
          /\ DOMAIN rows = 1 .. Len(rows) /\ Len(rows) \in Nat
      BY DEF IndInv, WholeRows, RowsType
    <3> QED BY <3>1, <3>2 DEF ProgressIsPersisted, Whole
  <2> QED BY <2>1, <2>2, <2>3
<1> QED BY <1>1, <1>2

(* A run ends by WriteCsv of the last target, when both files are whole.   *)
LEMMA FinishedStep ==
  ASSUME IndInv, Next
  PROVE  FinishedRunIsReported'
<1>1. CASE pc' # "idle"
  BY <1>1 DEF FinishedRunIsReported
<1>2. CASE Interrupted
  BY <1>2 DEF Interrupted, FinishedRunIsReported
<1>3. CASE WriteCsv /\ pc' = "idle"
  <2>1. /\ pc = "csv" /\ ~(Len(rows) < targets) /\ status' = Verdict
        /\ UNCHANGED <<rows, run, targets, summaryJson>> /\ summaryCsv' = WholeRows
    BY <1>3 DEF WriteCsv, Point, Goto
  <2>2. Len(rows) = targets
    BY <2>1, ConstantsAssumption DEF IndInv, PointInv, RowsType, ControlType, Targets
  <2>3. summaryJson' = WholeRows /\ WholeRows' = WholeRows
    BY <2>1 DEF IndInv, SummaryInv, WholeRows
  <2>4. status' = "0" <=> (\A i \in DOMAIN rows : rows[i].status = "passed")
    BY <2>1 DEF Verdict
  <2> QED BY <2>1, <2>2, <2>3, <2>4 DEF FinishedRunIsReported
<1>4. Interrupted \/ (WriteCsv /\ pc' = "idle") \/ pc' # "idle"
  BY NextCases, ErrorEffect, RowEffect, WorkingEffect
     DEF Start, Adding, Persisting, OpenJson, WriteJson, OpenCsv, Point, Goto
<1> QED BY <1>1, <1>2, <1>3, <1>4

-----------------------------------------------------------------------------
LEMMA InitInv ==
  ASSUME Init
  PROVE  IndInv
<1> USE ConstantsAssumption
<1>1. ControlType
  BY DEF Init, ControlType, Points, Targets
<1>2. FilesType
  BY DEF Init, FilesType, Files, None
<1>3. RowsType
  BY DEF Init, RowsType, NoRows, Summaries
<1>4. BoundInv
  BY DEF Init, BoundInv, None, NoRows
<1>5. PointInv
  BY DEF Init, PointInv, Targets
<1>6. TargetInv /\ ReportInv /\ SummaryInv
  BY DEF Init, TargetInv, ReportInv, SummaryInv
<1>7. RowsInv
  BY DEF Init, RowsInv, RowsOfThisRun, CutTraceIsFailed
<1>8. ProgressIsPersisted
  BY DEF Init, ProgressIsPersisted
<1>9. FinishedRunIsReported
  BY DEF Init, FinishedRunIsReported
<1> QED BY <1>1, <1>2, <1>3, <1>4, <1>5, <1>6, <1>7, <1>8, <1>9 DEF IndInv

LEMMA NextInv ==
  ASSUME IndInv, Next
  PROVE  IndInv'
<1>1. ControlType' /\ FilesType' /\ RowsType' /\ BoundInv' /\ PointInv'
  BY ControlTypeStep, FilesTypeStep, RowsTypeStep, BoundStep, PointStep DEF IndInv
<1>2. TargetInv' /\ ReportInv' /\ RowsInv' /\ SummaryInv'
  BY TargetStep, ReportStep, RowsStep, SummaryStep DEF IndInv
<1>3. ProgressIsPersisted' /\ FinishedRunIsReported'
  BY <1>1, <1>2, ProgressStep, FinishedStep
<1> QED BY <1>1, <1>2, <1>3 DEF IndInv

LEMMA StutterInv ==
  ASSUME IndInv, UNCHANGED vars
  PROVE  IndInv'
<1> USE DEF vars, target, exits, summaries
<1>1. ControlType' /\ FilesType' /\ RowsType' /\ BoundInv' /\ PointInv'
  BY DEF IndInv, ControlType, FilesType, RowsType, BoundInv, PointInv
<1>2. TargetInv' /\ ReportInv'
  BY DEF IndInv, TargetInv, ReportInv, t, ThisRun, Written, Whole
<1>3. RowsInv'
  BY DEF IndInv, RowsInv, RowsOfThisRun, CutTraceIsFailed, Whole
<1>4. SummaryInv'
  BY DEF IndInv, SummaryInv, Holds, Whole, WholeRows
<1>5. ProgressIsPersisted' /\ FinishedRunIsReported'
  BY DEF IndInv, ProgressIsPersisted, FinishedRunIsReported, Whole, WholeRows
<1> QED BY <1>1, <1>2, <1>3, <1>4, <1>5 DEF IndInv

(* The invariant is inductive: it holds in every state of main's runs.     *)
THEOREM InvariantHolds == Spec => []IndInv
<1>1. IndInv /\ [Next]_vars => IndInv'
  BY NextInv, StutterInv
<1> QED BY InitInv, <1>1, PTL DEF Spec

LEMMA IndInvIsTyped ==
  ASSUME IndInv
  PROVE  TypeOK
<1>1. DOMAIN rows = 1 .. Len(rows) /\ Len(rows) \in Nat /\ run \in Nat /\ targets \in Nat
  BY ConstantsAssumption DEF IndInv, RowsType, ControlType, Targets
<1>2. /\ pc \in Points /\ run \in 0 .. MaxRuns /\ mode \in {"fast", "edge"} /\ targets \in Targets
      /\ suiteStatus \in 0 .. 1 /\ reportStatus \in 0 .. 2
      /\ status \in {"none", "running", "0", "1", "killed"}
      /\ Len(rows) <= targets /\ (pc = "forget" => Len(rows) < targets)
  BY DEF IndInv, ControlType, PointInv
<1>3. \A i \in DOMAIN rows : rows[i].target = i /\ rows[i].status \in RowStatuses
  <2>1. ASSUME NEW i \in DOMAIN rows
        PROVE  rows[i].target = i /\ rows[i].status \in RowStatuses
    <3>1. rows[i] \in RowTypes
      BY <1>1 DEF IndInv, RowsType
    <3> QED BY <3>1 DEF IndInv, RowsInv, RowTypes
  <2> QED BY <2>1
<1>4. ASSUME NEW i \in Targets
      PROVE  /\ {static[i], suite[i], edges[i]} \subseteq [whole : BOOLEAN, run : 0 .. run]
             /\ coverage[i].run \in 0 .. run
  <2>1. ASSUME NEW f \in Files, f.run <= run
        PROVE  f \in [whole : BOOLEAN, run : 0 .. run]
    BY <1>1, <2>1 DEF Files
  <2>2. static[i] \in Files /\ suite[i] \in Files /\ edges[i] \in Files
        /\ coverage[i] \in MadeFiles \cup {None}
    BY DEF IndInv, FilesType
  <2>3. static[i].run <= run /\ suite[i].run <= run /\ edges[i].run <= run
        /\ coverage[i].run <= run
    BY DEF IndInv, BoundInv
  <2>4. coverage[i].run \in Nat
    BY <2>2 DEF MadeFiles, None
  <2>5. coverage[i].run \in 0 .. run
    BY <1>1, <2>3, <2>4
  <2> QED BY <2>1, <2>2, <2>3, <2>5
<1>5. summaryJson.run \in 0 .. run /\ summaryCsv.run \in 0 .. run
  BY <1>1 DEF IndInv, BoundInv, RowsType, Summaries
<1> QED BY <1>2, <1>3, <1>4, <1>5 DEF TypeOK, Points

(* Types, and no file is of a run to come.                                 *)
THEOREM TypeCorrect == Spec => []TypeOK
BY InvariantHolds, IndInvIsTyped, PTL

(* The rows of a run tell of no file that an earlier run left in the       *)
(* output directory, however that run ended.                               *)
THEOREM RowsTellOfThisRun == Spec => []RowsOfThisRun
<1>1. IndInv => RowsOfThisRun
  BY DEF IndInv, RowsInv
<1> QED BY <1>1, InvariantHolds, PTL

(* A target whose trace was cut short is never reported as passed.         *)
THEOREM CutTracesFail == Spec => []CutTraceIsFailed
<1>1. IndInv => CutTraceIsFailed
  BY DEF IndInv, RowsInv
<1> QED BY <1>1, InvariantHolds, PTL

(* Wherever a run is interrupted, a summary file has the rows of all       *)
(* targets that were finished before the last one.                         *)
THEOREM ProgressSurvives == Spec => []ProgressIsPersisted
<1>1. IndInv => ProgressIsPersisted
  BY DEF IndInv
<1> QED BY <1>1, InvariantHolds, PTL

(* A run that came to its end is told of alike by its exit and both files. *)
THEOREM FinishedIsReported == Spec => []FinishedRunIsReported
<1>1. IndInv => FinishedRunIsReported
  BY DEF IndInv
<1> QED BY <1>1, InvariantHolds, PTL
=============================================================================
