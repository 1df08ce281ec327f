----------------------------- MODULE SuiteRunInv -----------------------------
(***************************************************************************)
(* The inductive invariant of SuiteRun, in named parts.                    *)
(***************************************************************************)
EXTENDS SuiteRun

Names == Range(listing)
Points == {"idle", "discard", "test", "record", "raised", "unidentified",
           "suite", "summary"}
StoredTypes ==
  [status : Statuses, identity : Identities \cup {Unknown}, rows : 0 .. executions]
IsAggregate(f) == f \in {None, Torn} \/ (Whole(f) /\ f.run \in 1 .. run)

ControlType ==
  /\ pc \in Points
  /\ run \in 0 .. MaxRuns /\ resume \in BOOLEAN /\ identity \in Identities
  /\ status \in {"none", "running", "0", "1", "2", "killed"}
  /\ executions \in Nat

ListsType ==
  /\ tests \in Seq(Names) /\ Len(tests) <= MaxSelected
  /\ results \in Seq(ResultTypes) /\ Len(results) <= Len(tests)

FilesType ==
  /\ stored \in [Names -> {None} \cup StoredTypes]
  /\ latest \in [Names -> 0 .. executions]
  /\ IsAggregate(suiteCsv) /\ IsAggregate(summaryCsv)

(* Where the run is: a name is selected once, which keeps the stored       *)
(* results of the tests apart.                                             *)
PointInv ==
  /\ pc # "idle" <=> status = "running"
  /\ pc # "idle" => run > 0
  /\ pc = "discard" => tests = << >> /\ results = << >>
  /\ pc \notin {"idle", "discard"} => IsInjective(tests) /\ tests # << >>
  /\ pc \in {"test", "record", "raised", "unidentified"} => Len(results) < Len(tests)
  /\ pc \in {"suite", "summary"} => Len(results) = Len(tests)

(* A result is that of its test and is stored as it is; a pass with the    *)
(* identity of this run.                                                   *)
Agrees(r, t) ==
  /\ r.test = t
  /\ stored[t] # None
  /\ stored[t].status = r.status
  /\ r.status = "passed" => stored[t].identity = identity
  /\ stored[t].rows = r.rows
ResultsInv == \A i \in DOMAIN results : Agrees(results[i], tests[i])

(* A stored pass is of the execution begun last.                           *)
LatestInv ==
  /\ \A t \in Names :
       stored[t] # None => (stored[t].status = "passed" => stored[t].rows = latest[t])
  /\ pc = "record" => latest[test] = executions

(* What the aggregates are once they are written.                          *)
SuiteWritten == suiteCsv = [file |-> "whole", run |-> run, rows |-> RowsOf(results)]
SummaryWritten == summaryCsv = [file |-> "whole", run |-> run, rows |-> SummaryOf(results)]
AggregatesInv ==
  /\ pc = "summary" => SuiteWritten
  /\ Completed => SuiteWritten /\ SummaryWritten
  /\ (pc = "idle" /\ status = "0") =>
       Completed /\ \A i \in DOMAIN results : results[i].status = "passed"

(* A whole summary.csv is of an earlier run while a run is under way.      *)
OlderInv ==
  /\ pc # "idle" /\ Whole(summaryCsv) => summaryCsv.run < run
  /\ AggregatesAgree

IndInv ==
  /\ ControlType /\ ListsType /\ FilesType /\ PointInv /\ ResultsInv
  /\ LatestInv /\ AggregatesInv /\ OlderInv
=============================================================================
