# A TLA+ model of icallcov

icallcov measures which indirect call sites of a native program its tests
execute. `scan.py` lists the call sites of a binary, a DynamoRIO client writes
the ones a traced process executes, `run_suite.py` runs a test suite under that
client, and `report.py` compares the two. This directory holds TLA+ modules of
the parts whose correctness depends on order, failure or interleaving, the TLC
configurations that check them and machine-checked proofs about them.

## 1. The system

| Component | State it keeps | Operations | Interacts with |
|---|---|---|---|
| Suite: tracing a test (`run_suite.py`: `trace_workspace`, `run_test`, `stop_process_group`, `group_is_running`, `collect_pid_traces`, `cleanup_pid_traces`) | the lock file and `dynamic.<pid>.csv` files of a working directory, a `.icallcov-preserved-*` directory, one process group | lock, set old traces aside, launch, wait or time out, stop the group, collect, clean up, restore, unlock | traced processes (signals, `/proc`, files), other suites (lock), the user's files |
| Suite: stored results (`load_resume`, `write_test_trace`, `save_metadata`, loop of `main`) | `traces/<stem>.csv` and `.json` in the output directory | reuse a stored result, invalidate, record | earlier and later runs of the suite, by files |
| Suite: selection and aggregation (`main`, `write_suite_trace`, `write_summary`) | the list of results, `suite.csv`, `summary.csv` | select tests, run them in order, write both files | runners, `run_project.py`, `report.py` |
| Tracer (`dynamorio/`) | per process: open trace, list of sites (fast mode), mutexes | instrument a call site, mark or write it, fork, exit | the suite, by `dynamic.<pid>.csv` |
| Static scan (`scan.py`, `elf_addresses.py`) | `static.json` | disassemble, keep indirect calls, make offsets canonical | report |
| Report (`report.py`) | call-site records, coverage, edge export | load both sides, symbolize, classify, summarize | scan, suite, project run |
| Project run (`run_project.py`) | per target: output files and a status row | scan, run the suite, report, write summaries | all of the above by exit codes and files |
| IR scan (`scan_project_ir.py`, `llvm/`) | a run directory with bitcode, the published report pair | select units, compile, scan, publish with rollback | clang, the scanner, TypeDive |
| TypeDive (`typedive.py`) | an output directory: bitcode, a log and a table per mode, `summary.json`, `comparison.json` | select and compile units, run the analyzer, parse its log, compare with a trace | IR scan (commands), report (`load_dynamic`), the patched analyzer, addr2line |
| Runners (`runners/`) | none | discover tests, make a test's command | suite |

Behaviours that are hard to get right and to test:

* **Processes outlive what started them.** A test may leave children, ignore
  SIGTERM, fork while it is being stopped or refuse to die; pids are reused.
* **Files are shared by name only.** Old traces of the user, traces of the test
  and traces of another suite's test have names from one namespace; the code
  must never delete the first, nor take the last for its own.
* **Every step may fail or be interrupted**: a rename, a delete, the launch, a
  signal, a `KeyboardInterrupt` at any program point (section 7 names the
  bytecodes left out), SIGKILL of the suite.
* **Results survive the process that wrote them**: after an interruption an
  older success must not come back.
* **Publication with rollback, exit codes and stale files** between the scripts.
* **Text that is read twice or in part**: a compiler command, whose option values
  may look like inputs; the log of an analyzer that skips what it cannot read.

What makes each component correct, in a sentence: the suite leaves the user's
traces alone, collects only when nothing writes any more, records only the
test's own rows and calls no test passed unless it left traces and all of them
were whole; a reused result is that
of the latest execution; aggregates agree with the results they summarize; a
process's trace holds every call site it executed once it has exited, and none
its parent executed; offsets agree between both sides of the report; a project
row never rests on a file of an earlier run; a report pair is published whole
or not at all; bitcode is that of the entry it is named after; a static summary
vouches for whole tables and a comparison accounts for every call.

## 2. Plan

Modules, in the order of the importance of what they model.

1. `TraceWorkspace` - one directory, its suites and its processes (done, with
   proofs).
2. `ResumeCache`, implementing `ResumeContract` - stored results over runs and
   interruptions (done, with proofs).
3. `Tracer` - one traced process tree in fast and edge mode: instrumentation,
   threads, fork, exec, exit, kill (done, with proofs). It justifies what
   `TraceWorkspace` assumes of `OpenTrace`, `Fork` and `Exit`: a process writes
   its own rows to its own file.
4. `ScanProject`, implementing `ReportPair` - runs of the IR scan and the
   publication of the report pair, with failures at each step (done, with
   proofs).
5. `SuiteRun` - selection, the loop over the tests, aggregates, above the
   stored results, and `ProjectRun` above it, with stale files and exit codes
   (done, with proofs).
6. `Coverage` - three coordinates of a call site, matching static and dynamic
   sites, classification and the edge export (done, with proofs).
7. `CompileCommands` - the reading and rewriting of compile commands as
   operators, with what a compiler driver makes of them as the reference; and
   `TypeDive` above it - analysis and comparison in one directory (done, with
   proofs of both).
8. `Runners` - discovery, as operators used by `SuiteRun` (done).

Abstract specifications worth stating: `ResumeContract` and `ReportPair`
(here); the trace as a set; the project row as a function of the last
run. Theorems worth proving: type correctness and the safety invariants of
each state machine, both refinements, and lemmas on the operators of
`Coverage` that need no induction (round trip of offsets). All of them are
proved but those section 5 lists as only model-checked.

## 3. Modules

| Module | What it is |
|---|---|
| `TraceWorkspace` | state machine of suites, processes and files in one directory; its properties |
| `TraceWorkspaceInv` | the inductive invariant, in named parts |
| `TraceWorkspace_proofs` | theorems and proofs |
| `MCTraceWorkspace` | symmetry, for TLC |
| `ResumeContract` | what `--resume` promises |
| `ResumeCache` | the files and program points behind it; its properties |
| `ResumeCacheInv`, `ResumeCache_proofs`, `MCResumeCache` | as above |
| `Tracer`, `MCTracer` | the DynamoRIO client in a process tree; its properties |
| `TracerInv`, `Tracer_proofs` | as above |
| `ReportPair` | what the IR scan promises about its two reports |
| `ScanProject` | runs of `scan_project` and `publish_reports`; its properties |
| `ScanProjectInv`, `ScanProject_proofs`, `MCScanProject` | as above |
| `Runners` | the tests a runner discovers, as operators |
| `SuiteRun`, `MCSuiteRun` | runs of `run_suite.py`'s `main` and their aggregates; its properties |
| `SuiteRunInv`, `SuiteRun_proofs` | as above |
| `ProjectRun`, `MCProjectRun` | runs of `run_project.py`'s `main` over the files of its targets; its properties |
| `ProjectRunInv`, `ProjectRun_proofs` | as above |
| `Coverage`, `MCCoverage` | scan, trace and report of one binary; its properties |
| `CoverageInv`, `Coverage_proofs` | as above |
| `CompileCommands` | `load_compdb`, `command_parts`, `bitcode_command`, and what a driver makes of a command |
| `TypeDive`, `MCTypeDive` | `analyze` and `compare` in one output directory; its properties |
| `TypeDive_proofs` | invariants, theorems and proofs |

Definitions whose comment begins with "Mutant of" are faulty variants of the
definition they stand next to. No specification uses them; they document which
slip in the code each property would catch.

### TraceWorkspace

A suite is at one program point `pc[s]`. The points and the code:

| Points | Code in `run_suite.py` | Actions |
|---|---|---|
| `idle` | loop of `main` | `Acquire`, `LockBusy`, `SetupFails` |
| `move` | `trace_workspace`, renames into the preserved directory | `MoveOne`, `MoveFails`, `MoveDone` |
| `launch`, `wait` | `run_test`, `Popen` and `proc.wait` | `Launch`, `LaunchFails`, `LaunchInterrupted`, `LeaderExited`, `TimeoutExpires`, `InterruptWait` |
| `signal`, `list`, `scan`, `grace` | `stop_process_group` and `group_is_running` | `GroupGone`, `SignalGroup`, `ListProcesses`, `ScanPasses`, `ScanFinds`, `ScanClean`, `Rescan`, `GraceExpires`, `StopBroken` |
| `glob`, `collect` | `run_test` after the `with`, `collect_pid_traces` | `Glob`, `CollectOne`, `CollectDone`, `CollectFails` |
| `cleanup`, `restore`, `release` | the `finally` clause, `cleanup_pid_traces` | `CleanupOne` ... `Release` |
| any | SIGKILL of the suite | `Crash` |

`/proc` is read in two stages, as in the code: the listing (`ListProcesses`),
then one entry at a time in any order (`ScanPasses`, `ScanFinds`). Processes
are pids with a state, a process group and the fact that a fatal signal is on
its way; `OpenTrace`, `Fork` and `Exit` are the tracer's handlers of start, fork and
exit seen from outside, `Die` and `Reap` are the kernel. A pid whose process
has been reaped is free for the next one, so pid reuse and the reuse of file
names happen.

A file is reduced to who wrote it (`by`: the user, or the n-th test of a suite)
and whether it can be read whole; a whole trace may be a header without rows,
which counts as read like any other. `err[s]` is the exception that is on its way
through the `finally` clauses: `oserror` ends the test with `runner-error`,
`interrupt` (a KeyboardInterrupt in the body) and `isolation`
(TraceIsolationError: an OSError in the `finally` clause) end the suite, and so
does `cut`, a KeyboardInterrupt in the `finally` clause, which
`except OSError` does not catch and which skips what is left of the clause
(`FinallyFails`). `abandon` is an exit that leaves the group alive: from
`stop_process_group` by an interrupt or an OSError, or from `Popen` by an
interrupt after the fork (`LaunchInterrupted`). One atomic step covers each system call that changes
shared state; what the suite does to its own variables between two of them is
part of the step.

Properties: `UserTracesSafe`, `CollectsOwnRows`, `PassedHasOwnTraces`,
`QuietCollection`, `OneTracedRun`, `HandsBackDirectory`, `LockIsReleased`. Four
of them except suites in `Abandoned`: those that were killed, or that left
`stop_process_group` or `Popen` with the group alive. Nothing in the code can
keep such a group from writing into the directory. `HandsBackDirectory` excludes
no more than the code does: a suite whose `finally` clause was cut short, by
an OSError or an interrupt, leaves traces and moved files where they are, but it
never goes on to another test; whichever clause ran to its end left nothing.

### ResumeCache

One test's CSV, its JSON sidecar and their temporary files, and the suite runs
that read and replace them. `pc[s]` follows `main`: load the sidecar, compare
the digest, read the rows (`LoadMetadata`, `CheckDigest`, `ReuseTrace` or
`RejectTrace`), else `Invalidate`, `RunTest` or `RunIsolated`, and record
(`WriteTrace`, `ReplaceTrace`, `HashTrace`, `WriteSidecar`, `ReplaceSidecar`).
`Interrupted` ends a run at any point, `Damage` changes a file between runs. A
digest stands for the bytes it was computed from, a trace for its number of
rows and a mark. `latest` and `passed` are history variables.

`ResumeContract` has only the history, the identity asked for and the answer:
`Reuse` may answer only with the latest execution, if it passed with the
identity asked for, and `Begin` withdraws it. `ImplementsContract` is the
refinement, with `asked <- identity`.

### Tracer

Per process: the contents of its trace (`file`), the file its descriptor
writes to (`log`), the lock and the half-written rows of edge mode, the site
records of fast mode with their flags, and the calls it has really made
(`calls`, a history variable). A row is two elements of `file`: the call site,
then the target. `RecordSite` and `RecordTarget` are the two halves of
`record_edge`; `Instrument`, `MarkCovered`, `FlushSite` and `FlushRest` are
fast mode. `Fork` copies the parent's memory and descriptor, and `EventFork`
is the callback that runs in the child before any of its code. DynamoRIO
suspends the other threads where they hold no client lock before a fork, an
exec or an exit (`AtSafePoint`). `Kill` may come between any two writes.

`EdgeTraceIsHistory` equates an edge trace with the calls, row by row;
`FastTraceIsCoverage` equates the sites of a fast trace with the sites run,
after exit; `NoForeignSites` is what is left of that for a process that was
killed. An `exec` starts the history over, since the client overwrites the
trace (README, Current Limitations).

### ScanProject

`pc` follows `scan_project` (`compile`) and `publish_reports` (`backup`,
`publish`, `rollback`, `tidy`); `discard` is the `finally` clause before
`keep_run_dir` is set. `at` is the unit or the name of the loop the code is
in. A report is the number of the run that made it; `staged`, `backups` and
`ir` are the contents of the run directories, which stay from run to run. The
scanner, the compilers and the JSON are external: they succeed or fail. A
KeyboardInterrupt runs the `finally` clause but not the `except OSError` of
`publish_reports` (`Interrupted`); SIGKILL runs neither (`Killed`).

`ReportPair` has the pair as one variable that changes in one step. In the
refinement it is what was there before as long as renames are under way
(`Pair`). `Recoverable` and `ReportsPointAtIR` say what is left when that fails,
and `ReportIsComplete` that deleting equal bitcode loses no unit. A run that
cannot delete its backups ends with an error although the pair is published;
the contract allows that (`Fail`).

### SuiteRun

Runs of `main`, one after the other, in one output directory. A listing is what
a runner reads, line by line; `discover_tests` (`Runners`) makes the tests of it,
`Selections` is any filter and limit, and `Start` refuses names that repeat.
They do when a name derived for a repeated command of a file is that of another
line, or when ctest lists a name twice. `Reuse`, `Execute`, `Record`,
`Raised`, `RecordError` and `Isolated` are the loop; `OpenSuite` ...
`WriteSummary` write the two aggregates, each torn until it is whole. A stored
result is one value that is there or not: `ResumeCache` shows that its two files
amount to that, and `TraceWorkspace` gives the statuses an execution may have.
An execution that fails because its executable cannot be identified is recorded
without an identity (`Unknown`).
The trace of an execution is its number, so a row of `suite.csv` is a test and
the execution its rows come from. `latest` is a history variable.

`ExitZeroIsEarned` ties the exit to the files; with it, a second run with
`--resume` reuses every test. `AggregatesMatchStored` compares `suite.csv` and
`summary.csv` with the stored results after any run that went through its
tests. The aggregates are not replaced atomically, and a run that is stopped
leaves those of an earlier run; `AggregatesAgree` says what holds then.

### ProjectRun

One program point per step of the loop of `main` (`forget`, `scan`,
`forgetSuite`, `suite`, `report`, `row`, `json`, `csv`). A file is the run that
wrote it and whether it is whole; `coverage.json` also names the `static.json`
and `suite.csv` it was made from, so a count that rests on an earlier run is
seen in the row. The three scripts are processes that may fail before, inside
or after each file they write: `Suite` is what `SuiteRun` allows (exit 0 only with
a whole `suite.csv`), `ReportRejects` is argparse's exit 2, which is also the
exit for an undefined coverage. `ProgressIsPersisted` holds because
`summary.json` is whole again before `summary.csv` is opened.

### CompileCommands

Arguments are strings of a small vocabulary with one or two members for each of
the code's tables (`VALUE_OPTIONS`, `DROP_VALUES`, `DROP_FLAGS`, `UNSUPPORTED`),
one joined spelling of `-o` and of `-x`, launchers, compilers and response files.
`OutputStep` is a round of the loop of `original_output`, `PartStep` one of
`command_parts`, both folded over the arguments; `load_entry` is a round of the
loop of `load_compdb`, and `Only` the filters that keep entries in their order.
The reference, `Meaning`, is not a loop: it gives each position its role -
option, value, end of the options, input - and reads off inputs with their
languages, options in order and the output. A language or an output in force at
a position (`Named`, `Written`) is what the last option before it that sets one
says (`LastOption`, `Setting`). `SameTranslation` relates the meanings of two
commands.

### TypeDive

`AddEntry` and `AddArgument` write the compilation database, before `Start` makes
the directory and selects units; `Compile` takes one unit after the other, and
for each mode `RunAnalyzer`, `ParseLog` and `WriteTable` follow; `OpenSummary` and
`WriteSummary` end the analysis. What the analyzer finds is chosen, and so is its
log: records may be missing, printed twice or twice with different text, the
statistics may be cut off, a module may be skipped with exit 0. `Compare`
matches the tables with a trace; what addr2line says of an offset (`Frames`) is
inlined code or nothing, and differs from what the offset really is
(`CallSite`, `Entry`), which the code does not know. `Stop` is an error or a kill
anywhere; nothing is cleaned up.

`RewriteIsFaithful` is about the commands; `TablesAreExact` about the files after
any stop; `EveryCallIsAccounted` and `CandidatesAreFound` about the comparison,
the latter against the true call sites and functions. `candidates` is a history
variable. Four assumptions say what the constants stand for: candidates are of
the program's own call sites and functions and finitely many
(`CandidateSetsAssumption`), the offsets of a trace's internal calls are of
call sites and functions (`TracesAssumption`: the binary is the one that was
traced, which `compare` cannot check and says so; counts are naturals), debug information may be
missing but not wrong (`FramesAssumption`), and words are strings
(`WordsAssumption`).

### Coverage

An image has segments and, at some addresses, calls with the names and source
directories that `objdump` and `addr2line` report. `Scan` keeps the indirect
ones by offset; `Call` is a call of the running program together with the row it
leaves (`Tracer` shows which); `CallInLibrary`, `Damaged`, `Rebuild` and the cut
in `EndTests` are what may come between (a cut row has lost its target, or part
of its caller too: `CutRows`); `ReadRow` is one round of the loop of
`load_dynamic`; `Report` and `Reject` are the rest of `report.py`. Three
coordinates meet: the ELF address, the address in the process and the offset.
The start of a module is defined from the pages the loader maps
(`MappedPages`), not from the formula of `elf_image_base`. `ImagesAssumption` is
what makes an image a program: it has segments, and its code lies in them. `calls` and
`scanned` are history variables: the properties compare the report with the
calls really made.

## 4. Runs

| Run | Instance | What it shows |
|---|---|---|
| `ws_shared` | 2 suites, 1 test each, 2 pids (one names a user's trace), 1 OSError, interrupt or crash | all safety properties: the lock, the remains of a killed suite, abandoned groups, children left behind, pid reuse |
| `ws_live` | 1 suite, 3 pids (as above), 1 OSError or interrupt, fairness | the lock is released although the test may fork and trap for ever; the inductive invariant |
| `ws_race` | 1 suite, 3 pids, forks during a scan | **violated**: see Findings |
| `resume_one` | 1 suite at a time, 2 identities, 3 traces, 3 runs, 1 damaged file | the contract, and the inductive invariant |
| `resume_shared` | 2 suites at once in one output directory | **violated**: see Findings |
| `scan_project` | 3 runs, 2 units, 2 bitcode contents, 3 failures | the contract of the report pair, recovery, retained IR, and the inductive invariant |
| `tracer` | either mode, 2 processes of 2 threads, 2 sites with 2 records each, 2 targets, 2 calls each | rows stay whole, and with their process, over fork, exec, exit, kill; coverage after exit is exact, whatever was inherited or instrumented twice |
| `suite_run` | 6 listings of the 4 runners (repeated names, none, an error), selections of up to 2, 2 identities, 3 runs | aggregates against stored results, with reuse, errors, isolation and interrupts, whatever names the runners give |
| `project_run` | 1 or 2 targets, 2 runs | no count of an earlier run, cut traces are failed, finished rows survive, exit 0 is earned |
| `coverage` | 3 images with pages of 4 bytes, 2 biases, 2 tests, 3 rows | coverage is exactly what was executed, also if the last row lost its target, and so are the edges of a complete trace; addresses agree |
| `typedive` | databases of up to 4 arguments from 17, 3 rules; 3 call sites and 3 functions, 7 sets of candidates; traces of 1 or 2 calls, 3 binaries | faithful commands, exact tables after any stop, complete and correct comparisons |
| `coverage_cut` | as `coverage` | **violated**: see Findings |

Bounds. Three pids are a leader, a child and a pid of the user's old trace,
which either may get; one more pid only repeats a child; with two suites two pids
are the leaders of both, or a leader and its child. A test of the second suite
stands for the next test of the first as well: nothing but files and processes
survives a test. Two suites suffice for a pairwise lock. One mishap per behaviour
reaches every error path; a second failure on the way out changes `err` only,
and the proofs do not bound their number. Three runs of a test are a success,
an interrupted execution and a reuse. A parent and a child are all a fork
relates; two threads and two sites are all that can be mixed up in a row. Three failures of an IR scan are a failed rename, a failed rollback
and a later kill; three runs let a torn pair be the one a failing run starts
from. Three runs of a suite are one that stores results, one that is stopped and one
that resumes; two of a project are one that leaves files and one that could
take them for its own, and two targets are a finished one and a later one. `MaxSize` counts the
arguments of a database after its first compiler; a second entry, a source that
begins with a dash and a launcher or wrapper cost one argument each. Four allow an
option, its value, `--` and the source, or an option before and after the source
with the language changed in between. The database is forgotten once the units
are compiled, since nothing reads it again. Two candidates are a line shared by
two call sites or a name shared by two functions. The images of `coverage` differ in base, alignment and call sites; two
share their layout. `CHECK_DEADLOCK FALSE` stands in every configuration because the
programs end.

Fairness (`ws_live`): weak fairness of each suite's steps, since nothing
else blocks a suite that has the lock - `--timeout` bounds the wait (a timeout
of 0 switches that off and voids the property) - and strong fairness of
`GraceExpires`, because the deadline is a monotonic clock that the loop reads
in every round. The traced processes get no fairness: they may do anything for
ever.

## 5. Proofs

`TraceWorkspace_proofs`, for any suites, pids, tests and mishaps:

* `TypeCorrect`: the type invariant, with no assumption on forks.
* `Inductive`: `IndInv`, and from it `UserTracesSurvive`, `CollectionIsQuiet`,
  `NoLeakIntoNextTest`, `ResultsAreOwn`, `PassedTestsHaveTraces`,
  `DirectoryIsHandedBack`, all assuming that no member forks while a scan is
  under way (`~ForkDuringScan`) - the assumption `ws_race` shows to be needed.

The argument: the lock makes the suite at work unique (`LockInv`). Every
process that runs its program belongs to that suite's test while it is between
`wait` and `grace`, or to an abandoned test (`ActiveInv`), because the scan's
list always contains every live member (`ScanInv`) and so a clean scan means a
dead group. Hence no process runs while user files are in place
(`UserApartInv`), which with the bookkeeping of who holds them where
(`UserPlaceInv`) gives `UserTracesSafe`; what the suite sees after the moves is
its own (`OwnerInv`, and `FreshInv`: a test not started yet has written
nothing). A test still called passed was read from traces that were all whole
(`VerdictInv`, `WholeInv`); where the clause that sets traces aside and puts them
back stands (`HandBackInv`), and that only suites that end leave anything
(`LeftInv`), give the last two properties.
None of the properties is inductive alone: each needs to know where files and
processes are at every program point.

`ResumeCache_proofs`: `TypeCorrect` for any number of suites; and, with one
suite at a time (`OneSuite`), `InvariantHolds`, `ReusesOnlyPassed` and
the refinement `ResumeImplementsContract`. The invariant says that a sidecar on
disk, and the copy a run has in hand, tell of the latest execution, and that
there is no sidecar while an execution or its recording is under way.

`ScanProject_proofs`: for any units, bitcode, runs and number of failures, the
types (`TypeCorrect`), `NothingIsLost`, `InstalledIRIsKept`,
`InstalledReportIsComplete` and the refinement
`ScanProjectImplementsContract`. The invariant places the earlier report of each
name at each point (`PlaceInv`), says how far a run that stopped can have got
(`OutcomeInv`), and that every report in place lists one unit for each bitcode
content of its run (`IRInv`), for which new runs must find an empty directory
(`FutureInv`, mkdtemp).

`ProjectRun_proofs`: for any targets, runs and failures of the scripts,
`TypeCorrect`, `RowsTellOfThisRun`, `CutTracesFail`, `ProgressSurvives` and
`FinishedIsReported`. The invariant follows the files of the target at work from
their removal on (`TargetInv`): with `coverage.json` and `suite.csv` gone when the
scripts start, whatever `report.py` leaves was made from this run's files and
agrees with its exit (`ReportInv`), so the row that is added does too
(`RowsInv`); what each summary holds at each point (`SummaryInv`) gives the last
two.

`SuiteRun_proofs`: for any listings, limits, identities and number of runs,
`TypeCorrect`, `ExitZero`, `AggregatesMatch`, `AggregatesAgreeAlways` and
`EmptySelection` (an action property). Both aggregates are made of `results`, a
list in memory, while the properties speak of the stored files. They agree
because a run refuses tests whose names repeat (`PointInv`): a later test then
never overwrites what an earlier one stored (`ResultsInv`), and a stored success is of the last
execution of its test (`LatestInv`). While a run is under way a whole
`summary.csv` is of an earlier run, and of a run before the one of `suite.csv`
or of the same (`AggregatesInv`, `OlderInv`).

`Tracer_proofs`: for any processes, threads, sites, records and targets,
`TypeCorrect`, `EdgeTrace`, `FastTrace` and `NoForeignSite`. The invariant
speaks of one process at a time (`ProcessInv`); a lemma shows that a step of one
process leaves that of every other alone, except a fork, whose child must have
an empty trace of its own before it runs. In edge mode the trace has an odd
length exactly while a thread holds the lock, or when the process died in
between, and each whole row is the call of the same number (`EdgeInv`). In fast
mode the heads of the rows together with the sites of the records that are
flagged and not yet flushed are the sites called (`FastInv`); at exit none is left.

`Coverage_proofs`: for any images, page size, load biases, tests and numbers of
calls, `TypeCorrect`, `OffsetsLeadBack`, `NoSourceCallIsLost`,
`CoverageIsWhatRan` and `EdgesAreWhatRan`, from the invariant of
`InvariantHolds`. `OffsetsLeadBack` rests on a fact of arithmetic:
rounding down to pages is monotone, so the lowest page the loader maps is that
of the lowest segment, moved by the bias. The offset of a row is then the
distance of the instruction to the image base (`CallsInv`). In a complete trace
each call has a row and each row of the binary is of a call, in edge mode as
many as there were calls of that offset and target (`TraceInv`); in one that lost
its last target the callers are still those of the calls (`CallersInv`); reading keeps these numbers, row by row (`LoadInv`); a report is
made from what was read, and only if the image base is that of the scan
(`OutcomeInv`).

`TypeDive_proofs`: for any database, candidates, logs, traces and binaries that
meet the assumptions named above, `SummaryVouches`, `TypeCorrect`,
`ComparisonIsOfTheCalls`, `NoCallIsLost`, `CallsAreAccounted` and
`CommandsAreFaithful`. A log that is accepted holds no pair that was
not found and as many as were, hence all of them, and an analyzer that skipped a
module is not accepted (`AcceptedLogIsWhole`); the invariant `TablesIndInv` carries
that from the log to the table and over the modes to the summary, and says that
a directory that was once used is not used again. `CompareIndInv` adds that a
comparison on disk was made of all candidates of a whole analysis, of one trace
and one binary, and that nothing changes once its file is opened; the rest is
about `compare` itself: which calls share an edge, and which candidates it is
matched with. That every call is in one edge (`EveryCallInOneEdge`) gives the
rest of `EveryCallIsAccounted`, the events: the edges' calls lie apart, so their
sums add up (`SumOfParts`). The facts about sums are proved from the definition
of `SumFunctionOnSet`, by an induction over subsets that is itself proved
(`Counting`, `Adding`), since the library's induction theorems take an operator.

`CommandsAreFaithful` is `RewriteIsFaithful` for commands of any length over the
vocabulary and any other strings, for all response files and all rules. It
relates three readings of a command: two loops, `command_parts` and
`original_output`, and the roles of positions in `Meaning`. The argument:

* `FoldLeft` over a sequence with one element more takes one step more
  (`FoldSteps`), which follows from its definition by induction over the set of
  positions; `Appending` is induction over sequences.
* A driver that reads from left to right (`DriveStep`) holds at each prefix what
  the roles say of it (`Reads`, `DriveReads`): the end of the options, the option
  that waits for its value, the language and output in force, the inputs and the
  settled options. `MeaningIs` reads the meaning of a command with one input off
  its last state.
* While nothing is refused, three things are in step at each argument
  (`Tracks`, `TracksGrow`): `command_parts` and `original_output` know what a
  driver of the original arguments knows, and a driver of the arguments kept has
  read the same options but for those that divert or select, and no input.
* The rest of the new command - the source's language, the options added, the
  source and the output - is read from that state (`RewritingIsFaithful`).
* Response files: `contents` is a recursive function, and it exists because
  nesting stops at `MaxNesting` (`ContentsExist`). So the arguments of a unit are
  strings, and do not depend on the number it has (`LoadedUnit`).
* The invariant `CommandsInv`: units to compile were made of their own entries,
  under some number in the filtered database, and what was compiled is faithful;
  `bitcode` is empty outside `compile`.

Only model-checked:

* `LockIsReleased`: liveness is out of the prover's reach.
* What the folds of `Runners` compute for every input. (The theorems about
  `SuiteRun` hold for whatever tests they give.)

Every safety invariant and action property of a passing run is a theorem.

`IndInv` of `SuiteRun`, `Tracer`, `Coverage` and `ProjectRun` and the invariants of
`TypeDive` are no properties of a run; the run checks the properties they imply.
`TypeCorrect` of `TraceWorkspace` and `ScanProject` is proved; their runs check
the type invariants as parts of `IndInv`.

## 6. Findings

1. **A fork during the scan hides a process** (`ws_race`). `group_is_running`
   lists `/proc` once. A member that survives SIGTERM may fork after the
   listing and exit before its own entry is read; the scan then finds nobody,
   SIGKILL is never sent and the child runs on while traces are collected,
   contrary to the comment at `run_suite.py:390` and to `README.md:61`.
2. **Two suites in one output directory** (`resume_shared`). The lock covers the
   working directory, not the output directory. `save_metadata` hashes whatever
   CSV is there; if another suite has just replaced it by a trace with the same
   numbers of rows and sites, the sidecar vouches for the wrong trace, contrary
   to `README.md:66`.
3. **A cut row is another call site** (`coverage_cut`). `load_dynamic` takes the
   caller of an incomplete row. If the suite is stopped inside the last row of
   `suite.csv`, an offset without its last digits may be that of a project call
   site that never ran, which then counts as covered, contrary to
   `README.md:192`. The suite refuses such rows (`read_trace`); `run_project.py`
   marks the target failed but reports the count.

## 7. Not modelled

* Processes that leave their group with `setsid` (README, Current Limitations)
  and an `exec` that keeps its pid and overwrites its trace (same place).
* An interrupt between the `rename` of a trace and `moved.append`, between
  `mkdtemp` and the `try`, before the lock is taken and after the traces are
  put back: single bytecodes apart, and no program point of its own. The trace
  stays in the preserved directory in the first case. (An interrupt at a
  program point is an action: in the moves, in `Popen` before and after the fork,
  in the wait, in `stop_process_group`, while collecting and in the `finally` clause.)
* Loss of power: a rename or unlink that the file system forgets.
* A rebuild of the executable between `trace_identity` and the test.
* Threads inside `vfork`; a kill between opening a trace and its header; a full
  disk (the client ignores the result of its writes).
* The text that objdump, addr2line and test programs print, the validation of
  a project's manifest and of ELF headers: they refuse an input before anything
  changes.
* Modules that share a basename (README, Current Limitations), and a build that
  keeps the image base of the one that was scanned, as every position independent
  binary does: `report.py` cannot tell it. The runs contain such a rebuild,
  and the properties about classification speak of the binary that was scanned only.
* Two runs of `run_project.py` in one output directory, and a script that outlives
  it: SIGTERM or SIGKILL of `run_project.py` does not end the child it waits for
  (`subprocess.run`), which could write into the files of a later run.
  `Interrupted` ends both, as Ctrl-C in a terminal does.
* Aggregates of different runs: `AggregatesAgree` allows `summary.csv` to be of an
  earlier run than `suite.csv`, since a run may be stopped between the two and
  nothing in the files tells.
* What `run_project.py` leaves of earlier runs beside its counts. (`observed_edges.json` of
  an earlier edge run stays in a target's directory after a fast run:
  `run_project.py` deletes `coverage.json` and `suite.csv` only. `RowsOfThisRun`
  speaks of edge runs that give a count; after a fast or a failed run the file is stale.)
* Log files, the contents of rows, formatting of summaries.
* Commands: response files that cannot be read or split for a reason other than
  that they are missing, spellings other than those of the vocabulary (`-Wp,`, prefixes such
  as `-save-temps=`), suffixes of sources other than `.c`, an explicit `output` of
  a database entry and the filter of `load_compdb` by it, working directories.
* TypeDive: `docker_analyze` (a command line for the same analysis), path maps,
  the validation of single records and tool versions, the hashes in the
  documents: a file replaced between its use and its hash is vouched for. The
  analyzer is a third-party program; the patch only makes it print its pairs.
* Runners: the regular expressions and shell splitting, the spelling of derived
  names, commands and working directories of tests. ctest's listing may name a test
  twice; with a limit that leaves the first, the command of the last is run.
* The LLVM scanner (`llvm/icall_ir_scan.cpp`): a loop over instructions that prints
  a document and has no state beyond it; example programs and container recipes.
