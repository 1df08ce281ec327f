------------------------------ MODULE SuiteRun -------------------------------
(***************************************************************************)
(* run_suite.py: runs of main, one after the other, with one output        *)
(* directory.  A run selects tests, reuses or executes each, and writes    *)
(* suite.csv and summary.csv from the results.                             *)
(*                                                                         *)
(* A stored result (traces/<stem>.csv and .json) is one value here, which  *)
(* ResumeCache shows to be right.  The trace of a test is the number of    *)
(* the execution that wrote it.  An execution has the outcomes that        *)
(* run_test may return; a run may be interrupted anywhere.                 *)
(***************************************************************************)
EXTENDS Runners

CONSTANTS
  Listings,     \* pairs of a runner and the lines it reads
  Identities,   \* identities of an execution (command, build, mode ...)
  Unknown,      \* what is stored when the identity could not be determined
  MaxSelected,  \* bound on --limit
  MaxRuns       \* bound on the runs

ASSUME ConstantsAssumption ==
  Unknown \notin Identities /\ MaxSelected \in Nat /\ MaxRuns \in Nat

None == [file |-> "absent"]
Torn == [file |-> "torn"]

VARIABLES
  listing,    \* tests that the runner discovers; it fails if there are none
  pc,         \* idle, discard, test, record, raised, unidentified,
              \* suite, summary
  run,        \* number of the run
  resume,     \* args.resume
  identity,   \* trace_identity of the run's tests
  tests,      \* tests selected, in order
  results,    \* results so far
  stored,     \* stored[t]: stored result of t
  suiteCsv,   \* suite.csv: None, Torn, or the run and the rows by test
  summaryCsv, \* summary.csv: None, Torn, or the run and the status by test
  status,     \* exit: none, running, 0, 1, 2, killed
  executions, \* number of executions so far
  latest      \* history: latest[t], the execution of t begun last

vars == <<listing, pc, run, resume, identity, tests, results, stored, suiteCsv,
          summaryCsv, status, executions, latest>>
files == <<suiteCsv, summaryCsv>>
inputs == <<listing, run, resume, identity, tests>>

Statuses == {"passed", "failed", "timeout", "runner-error"}
Point(p) == pc = p
Goto(p) == pc' = p
Exit(s) == Goto("idle") /\ status' = s
test == tests[Len(results) + 1]

Init ==
  /\ \E l \in Listings :
       listing = IF DiscoveryFails(l[1], l[2]) THEN << >> ELSE discover_tests(l[1], l[2])
  /\ pc = "idle" /\ run = 0 /\ resume = FALSE
  /\ identity \in Identities
  /\ tests = << >> /\ results = << >>
  /\ stored = [t \in Range(listing) |-> None]
  /\ suiteCsv = None /\ summaryCsv = None
  /\ status = "none"
  /\ executions = 0
  /\ latest = [t \in Range(listing) |-> 0]

-----------------------------------------------------------------------------
(* --match and --exclude keep some names, --limit the first of the tests   *)
(* that have them.                                                         *)
Kept(names) == {i \in DOMAIN listing : listing[i] \in names}

FirstKept(names, limit) ==
  {at \in [1 .. limit -> Kept(names)] :
     \A i \in 1 .. limit : Cardinality({j \in Kept(names) : j <= at[i]}) = i}

Selections ==
  {[i \in DOMAIN at |-> listing[at[i]]] :
     at \in UNION {FirstKept(names, limit) :
                    names \in SUBSET Range(listing), limit \in 0 .. MaxSelected}}

(* Mutant of Start: tests of one name are run one after the other.         *)
StartDuplicates ==
  /\ Point("idle") /\ run < MaxRuns /\ listing # << >>
  /\ run' = run + 1
  /\ resume' \in BOOLEAN
  /\ identity' \in Identities
  /\ tests' \in Selections
  /\ results' = << >>
  /\ IF tests' = << >> THEN Goto("discard") /\ status' = "running"
     ELSE Goto("test") /\ status' = "running"
  /\ UNCHANGED <<listing, stored, files, executions, latest>>

(* Duplicate names are refused: they would share a stored result.          *)
Start ==
  /\ Point("idle") /\ run < MaxRuns /\ listing # << >>
  /\ run' = run + 1
  /\ resume' \in BOOLEAN
  /\ identity' \in Identities
  /\ tests' \in Selections
  /\ results' = << >>
  /\ IF tests' = << >> THEN Goto("discard") /\ status' = "running"
     ELSE IF ~IsInjective(tests') THEN Exit("2")
     ELSE Goto("test") /\ status' = "running"
  /\ UNCHANGED <<listing, stored, files, executions, latest>>

(* A path does not exist, or discovery fails: no file is touched.          *)
StartFails ==
  /\ Point("idle") /\ run < MaxRuns
  /\ run' = run + 1
  /\ tests' = << >> /\ results' = << >>
  /\ Exit("1")
  /\ UNCHANGED <<listing, resume, identity, stored, files, executions, latest>>

(* Mutant of DiscardSummary: an empty selection leaves summary.csv.        *)
DiscardSuiteOnly ==
  /\ Point("discard") /\ suiteCsv = None
  /\ Exit("1")
  /\ UNCHANGED <<inputs, results, stored, files, executions, latest>>

(* Nothing selected: both aggregates go, the stored results stay.          *)
DiscardSuite ==
  /\ Point("discard") /\ suiteCsv # None
  /\ suiteCsv' = None
  /\ UNCHANGED <<pc, inputs, results, stored, summaryCsv, status, executions, latest>>

DiscardSummary ==
  /\ Point("discard") /\ suiteCsv = None
  /\ summaryCsv' = None
  /\ Exit("1")
  /\ UNCHANGED <<inputs, results, stored, suiteCsv, executions, latest>>

-----------------------------------------------------------------------------
Reusable(t) ==
  /\ resume /\ stored[t] # None
  /\ stored[t].status = "passed" /\ stored[t].identity = identity

Result(t, s, e, r) == [test |-> t, status |-> s, rows |-> e, resumed |-> r]

(* Mutant of NextTest: one test too many is begun.                         *)
NextTestLate(result) ==
  /\ results' = Append(results, result)
  /\ Goto(IF Len(results') > Len(tests) THEN "suite" ELSE "test")

NextTest(result) ==
  /\ results' = Append(results, result)
  /\ Goto(IF Len(results') = Len(tests) THEN "suite" ELSE "test")

Reuse ==
  /\ Point("test") /\ Reusable(test)
  /\ NextTest(Result(test, "passed", stored[test].rows, TRUE))
  /\ UNCHANGED <<inputs, stored, files, status, executions, latest>>

(* The sidecar goes before the test is run.                                *)
Execute ==
  /\ Point("test") /\ ~Reusable(test)
  /\ stored' = [stored EXCEPT ![test] = None]
  /\ executions' = executions + 1
  /\ latest' = [latest EXCEPT ![test] = executions + 1]
  /\ Goto("record")
  /\ UNCHANGED <<inputs, results, files, status>>

(* Mutant of Record: a test that ran out of time counts as passed.         *)
RecordTimeoutAsPassed ==
  /\ Point("record")
  /\ \E s \in Statuses :
       LET verdict == IF s = "timeout" THEN "passed" ELSE s
           result == Result(test, verdict, executions, FALSE)
       IN /\ stored' = [stored EXCEPT ![test] =
                          [status |-> s, identity |-> identity, rows |-> executions]]
          /\ NextTest(result)
  /\ UNCHANGED <<inputs, files, status, executions, latest>>

(* run_test returns, and its result is stored.                             *)
Record ==
  /\ Point("record")
  /\ \E s \in Statuses :
       /\ stored' = [stored EXCEPT ![test] =
                       [status |-> s, identity |-> identity, rows |-> executions]]
       /\ NextTest(Result(test, s, executions, FALSE))
  /\ UNCHANGED <<inputs, files, status, executions, latest>>

(* The command or the identity cannot be determined, or a later step       *)
(* raises, up to run_test.                                                 *)
Raised ==
  /\ \/ Point("test") /\ pc' \in {"raised", "unidentified"}
     \/ Point("record") /\ pc' = "raised"
  /\ stored' = [stored EXCEPT ![test] = None]
  /\ UNCHANGED <<inputs, results, files, status, executions, latest>>

(* The error becomes a result without rows, which is stored.               *)
RecordError ==
  /\ pc \in {"raised", "unidentified"}
  /\ stored' = [stored EXCEPT ![test] =
                  [status |-> "runner-error", rows |-> 0,
                   identity |-> IF Point("raised") THEN identity ELSE Unknown]]
  /\ NextTest(Result(test, "runner-error", 0, FALSE))
  /\ UNCHANGED <<inputs, files, status, executions, latest>>

(* TraceIsolationError: the remaining tests are not run.                   *)
Isolated ==
  /\ Point("record")
  /\ Exit("1")
  /\ UNCHANGED <<inputs, results, stored, files, executions, latest>>

-----------------------------------------------------------------------------
RowsOf(rs) == [i \in DOMAIN rs |-> <<rs[i].test, rs[i].rows>>]
SummaryOf(rs) == [i \in DOMAIN rs |-> <<rs[i].test, rs[i].status, rs[i].resumed>>]

(* Both files are opened for writing, hence torn, and then complete.       *)
OpenSuite ==
  /\ Point("suite") /\ suiteCsv # Torn
  /\ suiteCsv' = Torn
  /\ UNCHANGED <<pc, inputs, results, stored, summaryCsv, status, executions, latest>>

(* Mutant of WriteSuite: the rows of tests that failed are left out.       *)
WriteSuitePassed ==
  /\ Point("suite") /\ suiteCsv = Torn
  /\ suiteCsv' = [file |-> "whole", run |-> run,
                  rows |-> RowsOf(SelectSeq(results, LAMBDA r : r.status = "passed"))]
  /\ Goto("summary")
  /\ UNCHANGED <<inputs, results, stored, summaryCsv, status, executions, latest>>

WriteSuite ==
  /\ Point("suite") /\ suiteCsv = Torn
  /\ suiteCsv' = [file |-> "whole", run |-> run, rows |-> RowsOf(results)]
  /\ Goto("summary")
  /\ UNCHANGED <<inputs, results, stored, summaryCsv, status, executions, latest>>

OpenSummary ==
  /\ Point("summary") /\ summaryCsv # Torn
  /\ summaryCsv' = Torn
  /\ UNCHANGED <<pc, inputs, results, stored, suiteCsv, status, executions, latest>>

Verdict == IF \E i \in DOMAIN results : results[i].status # "passed" THEN "1" ELSE "0"

WriteSummary ==
  /\ Point("summary") /\ summaryCsv = Torn
  /\ summaryCsv' = [file |-> "whole", run |-> run, rows |-> SummaryOf(results)]
  /\ Exit(Verdict)
  /\ UNCHANGED <<inputs, results, stored, suiteCsv, executions, latest>>

(* A signal, or an error that main does not handle.                        *)
Interrupted ==
  /\ pc # "idle"
  /\ Exit("killed")
  /\ UNCHANGED <<inputs, results, stored, files, executions, latest>>

Select == Start \/ StartFails \/ DiscardSuite \/ DiscardSummary
Loop == Reuse \/ Execute \/ Record \/ Raised \/ RecordError \/ Isolated
Aggregate == OpenSuite \/ WriteSuite \/ OpenSummary \/ WriteSummary
Next == Select \/ Loop \/ Aggregate \/ Interrupted

Spec == Init /\ [][Next]_vars

-----------------------------------------------------------------------------
Whole(f) == f.file = "whole"
ResultTypes == [test : Range(listing), status : Statuses, rows : Nat, resumed : BOOLEAN]

(* Types; a test is begun only while one is left, and the results are      *)
(* those of the tests selected, in their order.                            *)
TypeOK ==
  /\ pc \in {"idle", "discard", "test", "record", "raised", "unidentified",
             "suite", "summary"}
  /\ run \in 0 .. MaxRuns /\ resume \in BOOLEAN /\ identity \in Identities
  /\ Len(tests) <= MaxSelected /\ Range(tests) \subseteq DOMAIN stored
  /\ results \in Seq(ResultTypes) /\ Len(results) <= Len(tests)
  /\ (pc \in {"test", "record", "raised", "unidentified"}) => Len(results) < Len(tests)
  /\ \A i \in DOMAIN results : results[i].test = tests[i]
  /\ \A t \in DOMAIN stored :
       stored[t] = None \/ stored[t] \in
         [status : Statuses, identity : Identities \cup {Unknown},
          rows : 0 .. executions]
  /\ suiteCsv \in {None, Torn} \/ suiteCsv.run \in 1 .. run
  /\ summaryCsv \in {None, Torn} \/ summaryCsv.run \in 1 .. run
  /\ status \in {"none", "running", "0", "1", "2", "killed"}
  /\ executions \in Nat /\ latest \in [Range(listing) -> 0 .. executions]

(* The run went through all its tests and wrote both files.                *)
Completed ==
  /\ pc = "idle" /\ status \in {"0", "1"}
  /\ tests # << >> /\ Len(results) = Len(tests)

(* Exit 0 means that every selected test has a stored result that says     *)
(* passed, for the command and build of this run, from the execution of    *)
(* the test begun last; so the same run with --resume reuses them all, and *)
(* suite.csv holds exactly their rows (main, loop and line 775).           *)
ExitZeroIsEarned ==
  (pc = "idle" /\ status = "0") =>
    /\ Completed /\ Whole(suiteCsv) /\ suiteCsv.run = run
    /\ \A i \in DOMAIN tests :
         /\ stored[tests[i]] # None
         /\ stored[tests[i]].status = "passed"
         /\ stored[tests[i]].identity = identity
         /\ suiteCsv.rows[i] = <<tests[i], latest[tests[i]]>>

(* A completed run leaves a suite.csv and a summary.csv that agree with    *)
(* the stored results test by test, also for reused, failing and timed-out *)
(* tests (main, suite_rows and results).                                   *)
AggregatesMatchStored ==
  Completed =>
    /\ Whole(suiteCsv) /\ suiteCsv.run = run
    /\ suiteCsv.rows = [i \in DOMAIN tests |-> <<tests[i], stored[tests[i]].rows>>]
    /\ Whole(summaryCsv) /\ summaryCsv.run = run
    /\ \A i \in DOMAIN tests :
         /\ summaryCsv.rows[i][1] = tests[i]
         /\ summaryCsv.rows[i][2] = stored[tests[i]].status

(* Whichever runs were interrupted before: a summary.csv beside a          *)
(* suite.csv is of the same run and lists the same tests, or it is the     *)
(* older of the two (write_suite_trace comes before write_summary).        *)
AggregatesAgree ==
  (Whole(suiteCsv) /\ Whole(summaryCsv)) =>
    \/ summaryCsv.run < suiteCsv.run
    \/ /\ summaryCsv.run = suiteCsv.run
       /\ [i \in DOMAIN suiteCsv.rows |-> suiteCsv.rows[i][1]] =
            [i \in DOMAIN summaryCsv.rows |-> summaryCsv.rows[i][1]]

(* A run that selects no test and reaches its exit leaves no aggregate of  *)
(* an earlier run (main, line 641: an earlier run must not masquerade as   *)
(* this empty selection).                                                  *)
EmptySelectionLeavesNothing ==
  [][(pc = "discard" /\ status' = "1") =>
       (suiteCsv' = None /\ summaryCsv' = None)]_vars
=============================================================================
