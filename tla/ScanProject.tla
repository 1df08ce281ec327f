----------------------------- MODULE ScanProject -----------------------------
(***************************************************************************)
(* scan_project_ir.py: runs of scan_project, one after the other, with one *)
(* output directory.  A run compiles each selected unit to bitcode in a    *)
(* directory of its own, scans the distinct ones, and publishes two        *)
(* reports: backups first, then two renames, undone if one fails, then the *)
(* backups go.  The directory is removed unless publication has started.   *)
(*                                                                         *)
(* A report is the number of the run that made it.  Any file operation may *)
(* fail, and the process may be interrupted or killed between any two.     *)
(***************************************************************************)
EXTENDS Naturals, Sequences

CONSTANTS
  NumUnits,     \* units that load_compdb selected
  Contents,     \* what the bitcode of a unit may be
  MaxRuns,      \* bound on the runs
  MaxFailures   \* bound on the operations that fail

ASSUME ConstantsAssumption ==
  /\ NumUnits \in Nat \ {0}
  /\ MaxRuns \in Nat /\ MaxFailures \in Nat

names == <<"callsites.json", "callsites.txt">>
Names == {names[i] : i \in 1 .. Len(names)}
Units == 1 .. NumUnits
Runs  == 1 .. MaxRuns
Absent == 0

VARIABLES
  pc,        \* idle, compile, backup, publish, rollback, tidy, discard
  at,        \* unit or position in names; in rollback, names still to be undone
  run,       \* number of the run, hence its run_dir
  outcome,   \* how it ended: none, running, ok, failed, torn, killed
  reports,   \* reports[n]: what is at output_dir / n
  staged,    \* staged[r]: reports in run_dir r that are not published yet
  backups,   \* backups[r][n]: what previous-n in run_dir r holds
  ir,        \* ir[r]: units whose bitcode is in run_dir r
  contents,  \* contents[r]: bitcode of the units run r has compiled
  scanned,   \* scanned[r]: units whose bitcode the report of r lists
  before,    \* history: the reports when the run began
  failures

vars == <<pc, at, run, outcome, reports, staged, backups, ir, contents, scanned,
          before, failures>>
dirs == <<staged, backups, ir, contents, scanned>>

Init ==
  /\ pc = "idle" /\ at = 1 /\ run = 0 /\ outcome = "none"
  /\ reports = [n \in Names |-> Absent]
  /\ staged = [r \in Runs |-> {}]
  /\ backups = [r \in Runs |-> [n \in Names |-> Absent]]
  /\ ir = [r \in Runs |-> {}]
  /\ contents = [r \in Runs |-> << >>]
  /\ scanned = [r \in Runs |-> {}]
  /\ before = [n \in Names |-> Absent]
  /\ failures = 0

-----------------------------------------------------------------------------
Goto(p, i) == pc' = p /\ at' = i
End(o) == Goto("idle", 1) /\ outcome' = o

Failure ==
  /\ failures < MaxFailures
  /\ failures' = failures + 1

Begin ==
  /\ pc = "idle" /\ run < MaxRuns
  /\ run' = run + 1
  /\ outcome' = "running"
  /\ Goto("compile", 1)
  /\ before' = reports
  /\ UNCHANGED <<reports, dirs, failures>>

(* Mutant of Compile: the same bitcode is listed twice.                    *)
CompileKeepsCopies ==
  /\ pc = "compile" /\ at <= NumUnits
  /\ \E content \in Contents :
       /\ contents' = [contents EXCEPT ![run] = Append(@, content)]
       /\ ir' = [ir EXCEPT ![run] = @ \cup {at}]
  /\ Goto("compile", at + 1)
  /\ UNCHANGED <<run, outcome, reports, staged, backups, scanned, before, failures>>

(* A copy of bitcode that is there already is deleted again.               *)
Compile ==
  /\ pc = "compile" /\ at <= NumUnits
  /\ \E content \in Contents :
       /\ contents' = [contents EXCEPT ![run] = Append(@, content)]
       /\ ir' = IF \E u \in ir[run] : contents[run][u] = content
                  THEN ir ELSE [ir EXCEPT ![run] = @ \cup {at}]
  /\ Goto("compile", at + 1)
  /\ UNCHANGED <<run, outcome, reports, staged, backups, scanned, before, failures>>

CompileFails ==
  /\ pc = "compile" /\ at <= NumUnits
  /\ Failure
  /\ Goto("discard", 1)
  /\ UNCHANGED <<run, outcome, reports, dirs, before>>

(* The scanner writes callsites.json, from which callsites.txt is made.    *)
Scan ==
  /\ pc = "compile" /\ at = NumUnits + 1
  /\ scanned' = [scanned EXCEPT ![run] = ir[run]]
  /\ staged' = [staged EXCEPT ![run] = Names]
  /\ Goto("backup", 1)
  /\ UNCHANGED <<run, outcome, reports, backups, ir, contents, before, failures>>

(* It fails, or writes something else than its schema says.                *)
ScanFails ==
  /\ pc = "compile" /\ at = NumUnits + 1
  /\ Failure
  /\ Goto("discard", 1)
  /\ UNCHANGED <<run, outcome, reports, dirs, before>>

-----------------------------------------------------------------------------
(* publish_reports, from here on with keep_run_dir set.                    *)

BackUp ==
  /\ pc = "backup" /\ at <= Len(names)
  /\ backups' = [backups EXCEPT ![run][names[at]] = reports[names[at]]]
  /\ Goto("backup", at + 1)
  /\ UNCHANGED <<run, outcome, reports, staged, ir, contents, scanned, before, failures>>

(* The destination is not a file, or the copy fails.                       *)
BackUpFails ==
  /\ pc = "backup" /\ at <= Len(names)
  /\ Failure
  /\ End("failed")
  /\ UNCHANGED <<run, reports, dirs, before>>

(* Mutant of BackUpDone: the backups go before the reports are replaced.   *)
BackUpDoneTidies ==
  /\ pc = "backup" /\ at = Len(names) + 1
  /\ backups' = [backups EXCEPT ![run] = [n \in Names |-> Absent]]
  /\ Goto("publish", 1)
  /\ UNCHANGED <<run, outcome, reports, staged, ir, contents, scanned, before, failures>>

BackUpDone ==
  /\ pc = "backup" /\ at = Len(names) + 1
  /\ Goto("publish", 1)
  /\ UNCHANGED <<run, outcome, reports, dirs, before, failures>>

Publish ==
  /\ pc = "publish"
  /\ reports' = [reports EXCEPT ![names[at]] = run]
  /\ staged' = [staged EXCEPT ![run] = @ \ {names[at]}]
  /\ IF at = Len(names) THEN Goto("tidy", 1) ELSE Goto("publish", at + 1)
  /\ UNCHANGED <<run, outcome, backups, ir, contents, scanned, before, failures>>

(* Mutant of PublishFails: an error during publication is only reported.   *)
PublishFailsKeeps ==
  /\ pc = "publish"
  /\ Failure
  /\ End("failed")
  /\ UNCHANGED <<run, reports, dirs, before>>

(* Mutant of PublishFails: the directory goes as after any other error.    *)
PublishFailsDiscards ==
  /\ pc = "publish"
  /\ Failure
  /\ Goto("discard", 1)
  /\ UNCHANGED <<run, outcome, reports, dirs, before>>

PublishFails ==
  /\ pc = "publish"
  /\ Failure
  /\ Goto("rollback", at - 1)
  /\ UNCHANGED <<run, outcome, reports, dirs, before>>

(* The last name published comes first; a report that was not there before *)
(* is removed.                                                             *)
Undo ==
  /\ pc = "rollback" /\ at > 0
  /\ LET n == names[at] IN
       /\ reports' = [reports EXCEPT ![n] = backups[run][n]]
       /\ backups' = [backups EXCEPT ![run][n] = Absent]
  /\ Goto("rollback", at - 1)
  /\ UNCHANGED <<run, outcome, staged, ir, contents, scanned, before, failures>>

UndoFails ==
  /\ pc = "rollback" /\ at > 0
  /\ Failure
  /\ Goto("rollback", at - 1)
  /\ UNCHANGED <<run, outcome, reports, dirs, before>>

RolledBack ==
  /\ pc = "rollback" /\ at = 0
  /\ End(IF reports = before THEN "failed" ELSE "torn")
  /\ UNCHANGED <<run, reports, dirs, before, failures>>

Tidy ==
  /\ pc = "tidy" /\ at <= Len(names)
  /\ backups' = [backups EXCEPT ![run][names[at]] = Absent]
  /\ Goto("tidy", at + 1)
  /\ UNCHANGED <<run, outcome, reports, staged, ir, contents, scanned, before, failures>>

(* The pair is published all the same; the run ends with an error.         *)
TidyFails ==
  /\ pc = "tidy" /\ at <= Len(names)
  /\ Failure
  /\ End("failed")
  /\ UNCHANGED <<run, reports, dirs, before>>

Succeed ==
  /\ pc = "tidy" /\ at = Len(names) + 1
  /\ End("ok")
  /\ UNCHANGED <<run, reports, dirs, before, failures>>

-----------------------------------------------------------------------------
(* The finally clause of scan_project, before publication.                 *)
RunDir(s) == staged' = [staged EXCEPT ![run] = {}] /\ ir' = [ir EXCEPT ![run] = s]

Discard ==
  /\ pc = "discard"
  /\ RunDir({})
  /\ backups' = [backups EXCEPT ![run] = [n \in Names |-> Absent]]
  /\ End("failed")
  /\ UNCHANGED <<run, reports, contents, scanned, before, failures>>

(* rmtree gives up and leaves part of the directory behind.                *)
DiscardFails ==
  /\ pc = "discard"
  /\ Failure
  /\ \E left \in SUBSET ir[run] : RunDir(left)
  /\ End("failed")
  /\ UNCHANGED <<run, reports, backups, contents, scanned, before>>

(* A KeyboardInterrupt: scan_project cleans up, publish_reports does not.  *)
Interrupted ==
  /\ pc \notin {"idle", "discard"}
  /\ Failure
  /\ IF pc = "compile"
       THEN Goto("discard", 1) /\ UNCHANGED outcome
       ELSE End("killed")
  /\ UNCHANGED <<run, reports, dirs, before>>

Killed ==
  /\ pc # "idle"
  /\ Failure
  /\ End("killed")
  /\ UNCHANGED <<run, reports, dirs, before>>

Prepare == Begin \/ Compile \/ CompileFails \/ Scan \/ ScanFails \/ Discard \/ DiscardFails
PublishReports ==
  \/ BackUp \/ BackUpFails \/ BackUpDone \/ Publish \/ PublishFails
  \/ Undo \/ UndoFails \/ RolledBack \/ Tidy \/ TidyFails \/ Succeed

Next == Prepare \/ PublishReports \/ Interrupted \/ Killed

Spec == Init /\ [][Next]_vars

-----------------------------------------------------------------------------
TypeOK ==
  /\ pc \in {"idle", "compile", "backup", "publish", "rollback", "tidy", "discard"}
  /\ at \in 0 .. NumUnits + Len(names)
  /\ run \in 0 .. MaxRuns
  /\ outcome \in {"none", "running", "ok", "failed", "torn", "killed"}
  /\ reports \in [Names -> 0 .. MaxRuns]
  /\ staged \in [Runs -> SUBSET Names]
  /\ backups \in [Runs -> [Names -> 0 .. MaxRuns]]
  /\ ir \in [Runs -> SUBSET Units]
  /\ contents \in [Runs -> Seq(Contents)]
  /\ scanned \in [Runs -> SUBSET Units]
  /\ before \in [Names -> 0 .. MaxRuns]
  /\ failures \in 0 .. MaxFailures

(* The pair a reader can rely on: while publish_reports is between its     *)
(* first rename and its last, or is undoing them, the pair before.         *)
InProgress == pc \in {"publish", "rollback"}
Pair == LET shown == IF InProgress THEN before ELSE reports
        IN <<shown[names[1]], shown[names[2]]>>

Contract == INSTANCE ReportPair WITH pair <- Pair

(* publish_reports replaces both reports or, short of a kill or a failing  *)
(* rollback, neither, and nothing else replaces one (scan_project).        *)
ImplementsContract == Contract!Spec

(* Whatever goes wrong, and even once the run has been killed, each report *)
(* it found is in its place or in run_dir until both new ones are in place *)
(* (publish_reports, keep_run_dir).                                        *)
Recoverable ==
  \/ \A n \in Names :
       \/ before[n] \in {Absent, reports[n]}
       \/ before[n] = backups[run][n]
  \/ \A n \in Names : reports[n] = run

(* A published callsites.json never lists bitcode that is gone             *)
(* (keep_run_dir).                                                         *)
ReportsPointAtIR ==
  LET r == reports["callsites.json"]
  IN r # Absent => scanned[r] # {} /\ scanned[r] \subseteq ir[r]

(* A published report stands for the bitcode of every selected unit, and   *)
(* for no bitcode twice (digests in scan_project).                         *)
ReportIsComplete ==
  \A n \in Names : reports[n] # Absent =>
    LET r == reports[n]
        bitcode(us) == {contents[r][u] : u \in us}
    IN /\ Len(contents[r]) = NumUnits
       /\ bitcode(scanned[r]) = bitcode(Units)
       /\ \A u, v \in scanned[r] : contents[r][u] = contents[r][v] => u = v
=============================================================================
