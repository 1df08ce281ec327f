---------------------------- MODULE ScanProjectInv ---------------------------
(***************************************************************************)
(* The inductive invariant of ScanProject, in named parts.                 *)
(***************************************************************************)
EXTENDS ScanProject

json == "callsites.json"
text == "callsites.txt"

(* Where a run can be, and how the latest one ended.                       *)
PointInv ==
  /\ pc = "idle" <=> outcome # "running"
  /\ run = 0 <=> outcome = "none"
  /\ CASE pc = "idle"     -> TRUE
       [] pc = "compile"  -> at \in 1 .. NumUnits + 1
       [] pc = "discard"  -> at = 1
       [] pc = "publish"  -> at \in 1 .. 2
       [] pc = "rollback" -> at \in 0 .. 1
       [] OTHER           -> at \in 1 .. 3

(* The directories of runs that have not begun are empty, and no report is *)
(* of such a run; what a run found is of earlier runs.                     *)
FutureInv ==
  /\ \A r \in Runs : r > run => ir[r] = {} /\ contents[r] = << >>
  /\ \A n \in Names : reports[n] <= run
  /\ \A n \in Names : before[n] # Absent => before[n] < run

Saved(n) == backups[run][n] = before[n]

(* Where the earlier reports are at each point.                            *)
PlaceInv ==
  /\ pc \in {"compile", "backup", "discard"} => reports = before
  /\ pc = "backup" => (at > 1 => Saved(json)) /\ (at > 2 => Saved(text))
  /\ pc \in {"publish", "rollback"} => Saved(text) /\ reports[text] = before[text]
  /\ pc = "publish" =>
       Saved(json) /\ reports[json] = IF at = 1 THEN before[json] ELSE run
  /\ pc = "rollback" =>
       \/ at = 0 /\ reports[json] = before[json]
       \/ reports[json] = run /\ Saved(json)
  /\ pc = "tidy" => reports[json] = run /\ reports[text] = run

(* What the latest run has left behind.                                    *)
OutcomeInv ==
  LET none  == reports = before
      both  == reports[json] = run /\ reports[text] = run
      first == reports[json] = run /\ reports[text] = before[text] /\ Saved(json)
  IN /\ outcome = "none" => none
     /\ outcome = "ok" => both
     /\ outcome = "failed" => none \/ both
     /\ outcome \in {"torn", "killed"} => none \/ first \/ both

(* The bitcode in run_dir r is that of the first n units, each once.       *)
Covers(r, n) ==
  /\ Len(contents[r]) = n
  /\ ir[r] \subseteq 1 .. n
  /\ \A u \in 1 .. n : \E v \in ir[r] : contents[r][v] = contents[r][u]
  /\ \A u, v \in ir[r] : contents[r][u] = contents[r][v] => u = v

Complete(r) == Covers(r, NumUnits) /\ scanned[r] = ir[r]

IRInv ==
  /\ pc = "compile" => Covers(run, at - 1)
  /\ pc \in {"backup", "publish", "rollback", "tidy"} => Complete(run)
  /\ \A n \in Names : reports[n] # Absent => Complete(reports[n])
  /\ \A n \in Names : before[n] # Absent => Complete(before[n])

IndInv == TypeOK /\ PointInv /\ FutureInv /\ PlaceInv /\ OutcomeInv /\ IRInv
=============================================================================
