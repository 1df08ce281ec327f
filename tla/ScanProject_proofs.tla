------------------------- MODULE ScanProject_proofs --------------------------
(***************************************************************************)
(* Proofs about ScanProject, for any units, bitcode, runs and failures:    *)
(* its types, the inductive invariant, what a published report stands for, *)
(* and that the two reports implement ReportPair.                          *)
(***************************************************************************)
EXTENDS ScanProjectInv, TLAPS

LEMMA NameFacts ==
  /\ names[1] = json /\ names[2] = text /\ json # text
  /\ Len(names) = 2 /\ Names = {json, text}
<1>1. names[1] = json /\ names[2] = text /\ Len(names) = 2
  BY DEF names, json, text
<1>2. Names = {json, text}
  BY <1>1 DEF Names
<1> QED BY <1>1, <1>2 DEF json, text

(* Two maps of names to runs are the same if they agree on both names.     *)
LEMMA SameReports ==
  ASSUME NEW f \in [Names -> 0 .. MaxRuns], NEW g \in [Names -> 0 .. MaxRuns],
         f[json] = g[json], f[text] = g[text]
  PROVE  f = g
BY NameFacts

(* The type invariant in two parts.                                        *)
ControlType ==
  /\ pc \in {"idle", "compile", "backup", "publish", "rollback", "tidy", "discard"}
  /\ at \in 0 .. NumUnits + 2
  /\ run \in 0 .. MaxRuns
  /\ outcome \in {"none", "running", "ok", "failed", "torn", "killed"}
  /\ failures \in 0 .. MaxFailures

FilesType ==
  /\ reports \in [Names -> 0 .. MaxRuns]
  /\ before \in [Names -> 0 .. MaxRuns]
  /\ staged \in [Runs -> SUBSET Names]
  /\ backups \in [Runs -> [Names -> 0 .. MaxRuns]]
  /\ ir \in [Runs -> SUBSET Units]
  /\ contents \in [Runs -> Seq(Contents)]
  /\ scanned \in [Runs -> SUBSET Units]

LEMMA TypeParts == TypeOK <=> ControlType /\ FilesType
BY NameFacts DEF TypeOK, ControlType, FilesType

(* A run that is under way has a directory.                                *)
LEMMA RunInRuns ==
  ASSUME ControlType, PointInv, pc # "idle"
  PROVE  run \in Runs
BY ConstantsAssumption DEF ControlType, PointInv, Runs

LEMMA CompileEffect ==
  ASSUME ControlType, PointInv, Compile
  PROVE  /\ run \in Runs /\ at \in Units /\ at \in Nat \ {0}
         /\ \E content \in Contents :
              /\ contents' = [contents EXCEPT ![run] = Append(@, content)]
              /\ ir' = IF \E u \in ir[run] : contents[run][u] = content
                         THEN ir ELSE [ir EXCEPT ![run] = @ \cup {at}]
<1>1. run \in Runs /\ at \in Units /\ at \in Nat \ {0}
  BY RunInRuns DEF Compile, PointInv, Units, ControlType
<1>2. \E content \in Contents :
        /\ contents' = [contents EXCEPT ![run] = Append(@, content)]
        /\ ir' = IF \E u \in ir[run] : contents[run][u] = content
                   THEN ir ELSE [ir EXCEPT ![run] = @ \cup {at}]
  BY DEF Compile
<1> QED BY <1>1, <1>2

LEMMA CompileTypes ==
  ASSUME ControlType, PointInv, FilesType, Compile
  PROVE  /\ contents' \in [Runs -> Seq(Contents)]
         /\ ir' \in [Runs -> SUBSET Units]
         /\ \A r \in Runs : r # run => ir'[r] = ir[r] /\ contents'[r] = contents[r]
<1>1. run \in Runs /\ at \in Units
  BY CompileEffect
<1>2. PICK content \in Contents :
        /\ contents' = [contents EXCEPT ![run] = Append(@, content)]
        /\ ir' = IF \E u \in ir[run] : contents[run][u] = content
                   THEN ir ELSE [ir EXCEPT ![run] = @ \cup {at}]
  BY CompileEffect
<1>3. contents' \in [Runs -> Seq(Contents)]
  BY <1>1, <1>2 DEF FilesType
<1>4. ir' \in [Runs -> SUBSET Units]
  BY <1>1, <1>2 DEF FilesType
<1>5. \A r \in Runs : r # run => ir'[r] = ir[r] /\ contents'[r] = contents[r]
  BY <1>1, <1>2 DEF FilesType
<1> QED BY <1>3, <1>4, <1>5

LEMMA ControlTypeStep == ControlType /\ PointInv /\ [Next]_vars => ControlType'
<1> USE ConstantsAssumption, NameFacts
    DEF ControlType, PointInv, dirs, Goto, End, Failure, Units, Runs, Absent
<1> SUFFICES ASSUME ControlType, PointInv, [Next]_vars
             PROVE  ControlType'
  OBVIOUS
<1>1. CASE Begin
  BY <1>1 DEF Begin
<1>2. CASE Compile
  BY <1>2 DEF Compile
<1>3. CASE CompileFails
  BY <1>3 DEF CompileFails
<1>4. CASE Scan
  BY <1>4 DEF Scan
<1>5. CASE ScanFails
  BY <1>5 DEF ScanFails
<1>6. CASE Discard
  BY <1>6 DEF Discard
<1>7. CASE DiscardFails
  BY <1>7 DEF DiscardFails
<1>8. CASE BackUp
  BY <1>8 DEF BackUp
<1>9. CASE BackUpFails
  BY <1>9 DEF BackUpFails
<1>10. CASE BackUpDone
  BY <1>10 DEF BackUpDone
<1>11. CASE Publish
  BY <1>11 DEF Publish
<1>12. CASE PublishFails
  BY <1>12 DEF PublishFails
<1>13. CASE Undo
  BY <1>13 DEF Undo
<1>14. CASE UndoFails
  BY <1>14 DEF UndoFails
<1>15. CASE RolledBack
  BY <1>15 DEF RolledBack
<1>16. CASE Tidy
  BY <1>16 DEF Tidy
<1>17. CASE TidyFails
  BY <1>17 DEF TidyFails
<1>18. CASE Succeed
  BY <1>18 DEF Succeed
<1>19. CASE Interrupted
  BY <1>19 DEF Interrupted
<1>20. CASE Killed
  BY <1>20 DEF Killed
<1>21. CASE UNCHANGED vars
  BY <1>21 DEF vars
<1> QED
  BY <1>1, <1>2, <1>3, <1>4, <1>5, <1>6, <1>7, <1>8, <1>9, <1>10, <1>11,
     <1>12, <1>13, <1>14, <1>15, <1>16, <1>17, <1>18, <1>19, <1>20, <1>21
     DEF Next, Prepare, PublishReports

LEMMA FilesTypeStep == ControlType /\ PointInv /\ FilesType /\ [Next]_vars => FilesType'
<1> USE ConstantsAssumption, NameFacts
    DEF FilesType, RunDir, dirs, Units, Absent
<1> SUFFICES ASSUME ControlType, PointInv, FilesType, [Next]_vars
             PROVE  FilesType'
  OBVIOUS
<1>1. CASE Begin
  BY <1>1 DEF Begin
<1>2. CASE Compile
  <2>1. contents' \in [Runs -> Seq(Contents)] /\ ir' \in [Runs -> SUBSET Units]
    BY <1>2, CompileTypes
  <2> QED BY <1>2, <2>1 DEF Compile
<1>3. CASE CompileFails
  BY <1>3 DEF CompileFails
<1>4. CASE Scan
  BY <1>4 DEF Scan
<1>5. CASE ScanFails
  BY <1>5 DEF ScanFails
<1>6. CASE Discard
  <2>1. run \in Runs
    BY <1>6, RunInRuns DEF Discard
  <2>2. backups' \in [Runs -> [Names -> 0 .. MaxRuns]]
    BY <1>6, <2>1 DEF Discard
  <2>3. staged' \in [Runs -> SUBSET Names] /\ ir' \in [Runs -> SUBSET Units]
    BY <1>6, <2>1 DEF Discard
  <2> QED BY <1>6, <2>2, <2>3 DEF Discard
<1>7. CASE DiscardFails
  <2>1. run \in Runs
    BY <1>7, RunInRuns DEF DiscardFails
  <2>2. PICK left \in SUBSET ir[run] : RunDir(left)
    BY <1>7 DEF DiscardFails
  <2>3. staged' \in [Runs -> SUBSET Names]
    BY <2>1, <2>2
  <2>4. left \in SUBSET Units
    BY <2>1
  <2>5. ir' \in [Runs -> SUBSET Units]
    BY <2>1, <2>2, <2>4
  <2> QED BY <1>7, <2>3, <2>5 DEF DiscardFails
<1>8. CASE BackUp
  <2>1. run \in Runs /\ names[at] \in Names
    BY <1>8, RunInRuns DEF BackUp, PointInv, ControlType
  <2>2. reports[names[at]] \in 0 .. MaxRuns
    BY <2>1
  <2>3. backups' \in [Runs -> [Names -> 0 .. MaxRuns]]
    BY <1>8, <2>1, <2>2 DEF BackUp
  <2> QED BY <1>8, <2>3 DEF BackUp
<1>9. CASE BackUpFails
  BY <1>9 DEF BackUpFails
<1>10. CASE BackUpDone
  BY <1>10 DEF BackUpDone
<1>11. CASE Publish
  <2>1. run \in Runs /\ names[at] \in Names
    BY <1>11, RunInRuns DEF Publish, PointInv, ControlType
  <2>2. reports' \in [Names -> 0 .. MaxRuns]
    BY <1>11, <2>1 DEF Publish, Runs
  <2>3. staged' \in [Runs -> SUBSET Names]
    BY <1>11, <2>1 DEF Publish
  <2> QED BY <1>11, <2>2, <2>3 DEF Publish
<1>12. CASE PublishFails
  BY <1>12 DEF PublishFails
<1>13. CASE Undo
  <2>1. run \in Runs /\ at = 1
    BY <1>13, RunInRuns DEF Undo, PointInv, ControlType
  <2>2. json \in Names /\ 0 \in 0 .. MaxRuns
    OBVIOUS
  <2>3. /\ reports' = [reports EXCEPT ![json] = backups[run][json]]
        /\ backups' = [backups EXCEPT ![run][json] = 0]
    BY <1>13, <2>1 DEF Undo
  <2>4. backups[run] \in [Names -> 0 .. MaxRuns]
    BY <2>1
  <2>5. reports' \in [Names -> 0 .. MaxRuns]
    BY <2>2, <2>3, <2>4
  <2>6. [backups[run] EXCEPT ![json] = 0] \in [Names -> 0 .. MaxRuns]
    BY <2>2, <2>4
  <2>7. backups' \in [Runs -> [Names -> 0 .. MaxRuns]]
    BY <2>1, <2>3, <2>6
  <2> QED BY <1>13, <2>5, <2>7 DEF Undo
<1>14. CASE UndoFails
  BY <1>14 DEF UndoFails
<1>15. CASE RolledBack
  BY <1>15 DEF RolledBack
<1>16. CASE Tidy
  <2>1. run \in Runs /\ names[at] \in Names /\ 0 \in 0 .. MaxRuns
    BY <1>16, RunInRuns DEF Tidy, PointInv, ControlType
  <2>2. [backups[run] EXCEPT ![names[at]] = 0] \in [Names -> 0 .. MaxRuns]
    BY <2>1
  <2>3. backups' \in [Runs -> [Names -> 0 .. MaxRuns]]
    BY <1>16, <2>1, <2>2 DEF Tidy
  <2> QED BY <1>16, <2>3 DEF Tidy
<1>17. CASE TidyFails
  BY <1>17 DEF TidyFails
<1>18. CASE Succeed
  BY <1>18 DEF Succeed
<1>19. CASE Interrupted
  BY <1>19 DEF Interrupted
<1>20. CASE Killed
  BY <1>20 DEF Killed
<1>21. CASE UNCHANGED vars
  BY <1>21 DEF vars
<1> QED
  BY <1>1, <1>2, <1>3, <1>4, <1>5, <1>6, <1>7, <1>8, <1>9, <1>10, <1>11,
     <1>12, <1>13, <1>14, <1>15, <1>16, <1>17, <1>18, <1>19, <1>20, <1>21
     DEF Next, Prepare, PublishReports

LEMMA PointStep == ControlType /\ PointInv /\ [Next]_vars => PointInv'
<1> USE ConstantsAssumption, NameFacts
    DEF ControlType, PointInv, dirs, Goto, End, Failure, Units, Runs, Absent
<1> SUFFICES ASSUME ControlType, PointInv, [Next]_vars
             PROVE  PointInv'
  OBVIOUS
<1>1. CASE Begin
  BY <1>1 DEF Begin
<1>2. CASE Compile
  BY <1>2 DEF Compile
<1>3. CASE CompileFails
  BY <1>3 DEF CompileFails
<1>4. CASE Scan
  BY <1>4 DEF Scan
<1>5. CASE ScanFails
  BY <1>5 DEF ScanFails
<1>6. CASE Discard
  BY <1>6 DEF Discard
<1>7. CASE DiscardFails
  BY <1>7 DEF DiscardFails
<1>8. CASE BackUp
  BY <1>8 DEF BackUp
<1>9. CASE BackUpFails
  BY <1>9 DEF BackUpFails
<1>10. CASE BackUpDone
  BY <1>10 DEF BackUpDone
<1>11. CASE Publish
  BY <1>11 DEF Publish
<1>12. CASE PublishFails
  BY <1>12 DEF PublishFails
<1>13. CASE Undo
  BY <1>13 DEF Undo
<1>14. CASE UndoFails
  BY <1>14 DEF UndoFails
<1>15. CASE RolledBack
  BY <1>15 DEF RolledBack
<1>16. CASE Tidy
  BY <1>16 DEF Tidy
<1>17. CASE TidyFails
  BY <1>17 DEF TidyFails
<1>18. CASE Succeed
  BY <1>18 DEF Succeed
<1>19. CASE Interrupted
  BY <1>19 DEF Interrupted
<1>20. CASE Killed
  BY <1>20 DEF Killed
<1>21. CASE UNCHANGED vars
  BY <1>21 DEF vars
<1> QED
  BY <1>1, <1>2, <1>3, <1>4, <1>5, <1>6, <1>7, <1>8, <1>9, <1>10, <1>11,
     <1>12, <1>13, <1>14, <1>15, <1>16, <1>17, <1>18, <1>19, <1>20, <1>21
     DEF Next, Prepare, PublishReports

LEMMA FutureStep == ControlType /\ FilesType /\ PointInv /\ PlaceInv /\ FutureInv /\ [Next]_vars => FutureInv'
<1> USE ConstantsAssumption, NameFacts
    DEF ControlType, FilesType, PointInv, FutureInv, RunDir, dirs, Goto, End, Failure, Units, Runs, Absent
<1> SUFFICES ASSUME ControlType, FilesType, PointInv, PlaceInv, FutureInv, [Next]_vars
             PROVE  FutureInv'
  OBVIOUS
<1>1. CASE Begin
  BY <1>1 DEF Begin
<1>2. CASE Compile
  <2>1. \A r \in Runs : r # run => ir'[r] = ir[r] /\ contents'[r] = contents[r]
    BY <1>2, CompileTypes
  <2>2. run' = run /\ reports' = reports /\ before' = before
    BY <1>2 DEF Compile
  <2>3. \A r \in Runs : r > run => r # run
    OBVIOUS
  <2> QED BY <2>1, <2>2, <2>3
<1>3. CASE CompileFails
  BY <1>3 DEF CompileFails
<1>4. CASE Scan
  BY <1>4 DEF Scan
<1>5. CASE ScanFails
  BY <1>5 DEF ScanFails
<1>6. CASE Discard
  BY <1>6 DEF Discard
<1>7. CASE DiscardFails
  <2>1. run \in Runs
    BY <1>7, RunInRuns DEF DiscardFails
  <2>2. PICK left \in SUBSET ir[run] : RunDir(left)
    BY <1>7 DEF DiscardFails
  <2>3. \A r \in Runs : r > run => ir'[r] = ir[r]
    BY <2>1, <2>2
  <2> QED BY <1>7, <2>3 DEF DiscardFails
<1>8. CASE BackUp
  BY <1>8 DEF BackUp
<1>9. CASE BackUpFails
  BY <1>9 DEF BackUpFails
<1>10. CASE BackUpDone
  BY <1>10 DEF BackUpDone
<1>11. CASE Publish
  BY <1>11 DEF Publish
<1>12. CASE PublishFails
  BY <1>12 DEF PublishFails
<1>13. CASE Undo
  <2>1. at = 1 /\ pc = "rollback" /\ run \in Runs
    BY <1>13, RunInRuns DEF Undo
  <2>2. reports[json] = run /\ Saved(json)
    BY <2>1 DEF PlaceInv
  <2>3. reports'[json] = before[json] /\ reports'[text] = reports[text]
    BY <1>13, <2>1, <2>2 DEF Undo, Saved
  <2>4. before[json] <= run
    BY <2>1
  <2> QED BY <1>13, <2>3, <2>4 DEF Undo
<1>14. CASE UndoFails
  BY <1>14 DEF UndoFails
<1>15. CASE RolledBack
  BY <1>15 DEF RolledBack
<1>16. CASE Tidy
  BY <1>16 DEF Tidy
<1>17. CASE TidyFails
  BY <1>17 DEF TidyFails
<1>18. CASE Succeed
  BY <1>18 DEF Succeed
<1>19. CASE Interrupted
  BY <1>19 DEF Interrupted
<1>20. CASE Killed
  BY <1>20 DEF Killed
<1>21. CASE UNCHANGED vars
  BY <1>21 DEF vars
<1> QED
  BY <1>1, <1>2, <1>3, <1>4, <1>5, <1>6, <1>7, <1>8, <1>9, <1>10, <1>11,
     <1>12, <1>13, <1>14, <1>15, <1>16, <1>17, <1>18, <1>19, <1>20, <1>21
     DEF Next, Prepare, PublishReports

LEMMA PlaceStep == ControlType /\ FilesType /\ PointInv /\ PlaceInv /\ [Next]_vars => PlaceInv'
<1> USE ConstantsAssumption, NameFacts
    DEF ControlType, FilesType, PointInv, PlaceInv, Saved, RunDir, dirs, Goto, End, Failure, Units, Runs, Absent
<1> SUFFICES ASSUME ControlType, FilesType, PointInv, PlaceInv, [Next]_vars
             PROVE  PlaceInv'
  OBVIOUS
<1>1. CASE Begin
  BY <1>1 DEF Begin
<1>2. CASE Compile
  BY <1>2 DEF Compile
<1>3. CASE CompileFails
  BY <1>3 DEF CompileFails
<1>4. CASE Scan
  BY <1>4 DEF Scan
<1>5. CASE ScanFails
  BY <1>5 DEF ScanFails
<1>6. CASE Discard
  BY <1>6 DEF Discard
<1>7. CASE DiscardFails
  BY <1>7 DEF DiscardFails
<1>8. CASE BackUp
  BY <1>8 DEF BackUp
<1>9. CASE BackUpFails
  BY <1>9 DEF BackUpFails
<1>10. CASE BackUpDone
  BY <1>10 DEF BackUpDone
<1>11. CASE Publish
  BY <1>11 DEF Publish
<1>12. CASE PublishFails
  BY <1>12 DEF PublishFails
<1>13. CASE Undo
  BY <1>13 DEF Undo
<1>14. CASE UndoFails
  BY <1>14 DEF UndoFails
<1>15. CASE RolledBack
  BY <1>15 DEF RolledBack
<1>16. CASE Tidy
  BY <1>16 DEF Tidy
<1>17. CASE TidyFails
  BY <1>17 DEF TidyFails
<1>18. CASE Succeed
  BY <1>18 DEF Succeed
<1>19. CASE Interrupted
  BY <1>19 DEF Interrupted
<1>20. CASE Killed
  BY <1>20 DEF Killed
<1>21. CASE UNCHANGED vars
  BY <1>21 DEF vars
<1> QED
  BY <1>1, <1>2, <1>3, <1>4, <1>5, <1>6, <1>7, <1>8, <1>9, <1>10, <1>11,
     <1>12, <1>13, <1>14, <1>15, <1>16, <1>17, <1>18, <1>19, <1>20, <1>21
     DEF Next, Prepare, PublishReports

(* A run that stops has published nothing, the first name only, with the   *)
(* earlier report saved, or everything.                                    *)
LEMMA StoppedAnywhere ==
  ASSUME ControlType, FilesType, PointInv, PlaceInv, pc # "idle"
  PROVE  \/ reports = before
         \/ reports[json] = run /\ reports[text] = before[text] /\ Saved(json)
         \/ reports[json] = run /\ reports[text] = run
<1>1. reports[json] = before[json] /\ reports[text] = before[text] => reports = before
  BY SameReports DEF FilesType
<1>2. CASE pc \in {"compile", "backup", "discard"}
  BY <1>2 DEF PlaceInv
<1>3. CASE pc \in {"publish", "rollback"}
  BY <1>1, <1>3 DEF PlaceInv
<1>4. CASE pc = "tidy"
  BY <1>4 DEF PlaceInv
<1> QED BY <1>2, <1>3, <1>4 DEF ControlType

LEMMA OutcomeStep == ControlType /\ FilesType /\ PointInv /\ PlaceInv /\ OutcomeInv /\ [Next]_vars => OutcomeInv'
<1> USE ConstantsAssumption, NameFacts
    DEF ControlType, PointInv, PlaceInv, OutcomeInv, Saved, dirs, Goto, End, Failure, Units, Runs, Absent
<1> SUFFICES ASSUME ControlType, FilesType, PointInv, PlaceInv, OutcomeInv, [Next]_vars
             PROVE  OutcomeInv'
  OBVIOUS
<1>1. CASE Begin
  BY <1>1 DEF Begin
<1>2. CASE Compile
  BY <1>2 DEF Compile
<1>3. CASE CompileFails
  BY <1>3 DEF CompileFails
<1>4. CASE Scan
  BY <1>4 DEF Scan
<1>5. CASE ScanFails
  BY <1>5 DEF ScanFails
<1>6. CASE Discard
  BY <1>6 DEF Discard
<1>7. CASE DiscardFails
  BY <1>7 DEF DiscardFails
<1>8. CASE BackUp
  BY <1>8 DEF BackUp
<1>9. CASE BackUpFails
  BY <1>9 DEF BackUpFails
<1>10. CASE BackUpDone
  BY <1>10 DEF BackUpDone
<1>11. CASE Publish
  BY <1>11 DEF Publish
<1>12. CASE PublishFails
  BY <1>12 DEF PublishFails
<1>13. CASE Undo
  BY <1>13 DEF Undo
<1>14. CASE UndoFails
  BY <1>14 DEF UndoFails
<1>15. CASE RolledBack
  BY <1>15, StoppedAnywhere DEF RolledBack, Saved
<1>16. CASE Tidy
  BY <1>16 DEF Tidy
<1>17. CASE TidyFails
  BY <1>17 DEF TidyFails
<1>18. CASE Succeed
  BY <1>18 DEF Succeed
<1>19. CASE Interrupted
  BY <1>19, StoppedAnywhere DEF Interrupted, Saved
<1>20. CASE Killed
  BY <1>20, StoppedAnywhere DEF Killed, Saved
<1>21. CASE UNCHANGED vars
  BY <1>21 DEF vars
<1> QED
  BY <1>1, <1>2, <1>3, <1>4, <1>5, <1>6, <1>7, <1>8, <1>9, <1>10, <1>11,
     <1>12, <1>13, <1>14, <1>15, <1>16, <1>17, <1>18, <1>19, <1>20, <1>21
     DEF Next, Prepare, PublishReports

(* A step that leaves the run directories alone leaves reports complete.   *)
LEMMA CompleteFrame ==
  ASSUME ir' = ir, contents' = contents, scanned' = scanned
  PROVE  /\ \A r : Complete(r)' <=> Complete(r)
         /\ \A r, n : Covers(r, n)' <=> Covers(r, n)
BY DEF Complete, Covers

(* Until publication the reports are those of earlier runs.                *)
LEMMA EarlierReports ==
  ASSUME FilesType, ControlType, PointInv, FutureInv, PlaceInv,
         pc \in {"compile", "discard"}, NEW n \in Names, reports[n] # Absent
  PROVE  reports[n] \in Runs /\ reports[n] # run /\ before[n] = reports[n]
BY DEF FilesType, ControlType, PointInv, FutureInv, PlaceInv, Runs, Absent

LEMMA CompileCovers ==
  ASSUME FilesType, ControlType, PointInv, Compile, Covers(run, at - 1)
  PROVE  Covers(run, at - 1)'
<1>0. run \in Runs /\ at \in Nat \ {0}
  BY CompileEffect
<1>1. run \in Runs /\ at \in Nat \ {0} /\ run' = run /\ at' - 1 = at
  BY <1>0 DEF Compile, Goto
<1>2. PICK content \in Contents :
        /\ contents' = [contents EXCEPT ![run] = Append(@, content)]
        /\ ir' = IF \E u \in ir[run] : contents[run][u] = content
                   THEN ir ELSE [ir EXCEPT ![run] = @ \cup {at}]
  BY CompileEffect
<1> DEFINE s == contents[run]  t == contents'[run]
<1>3. s \in Seq(Contents) /\ Len(s) = at - 1
  BY <1>1 DEF FilesType, Covers
<1>4. t = Append(s, content)
  BY <1>1, <1>2 DEF FilesType
<1>5. Len(t) = at /\ t[at] = content /\ \A u \in 1 .. at - 1 : t[u] = s[u]
  BY <1>1, <1>3, <1>4
<1>6. ir[run] \subseteq 1 .. at - 1 /\ at \notin ir[run]
  BY <1>1 DEF Covers
<1> HIDE DEF s, t
<1>7. /\ \A u \in 1 .. at - 1 : \E v \in ir[run] : s[v] = s[u]
      /\ \A u, v \in ir[run] : s[u] = s[v] => u = v
  BY DEF Covers, s
<1>8. CASE \E u \in ir[run] : s[u] = content
  <2>1. ir'[run] = ir[run]
    BY <1>2, <1>8 DEF s
  <2>2. /\ Len(t) = at
        /\ ir'[run] \subseteq 1 .. at
        /\ \A u \in 1 .. at : \E v \in ir'[run] : t[v] = t[u]
        /\ \A u, v \in ir'[run] : t[u] = t[v] => u = v
    BY <1>1, <1>5, <1>6, <1>7, <1>8, <2>1
  <2> QED BY <2>2, <1>1 DEF Covers, t
<1>9. CASE ~ \E u \in ir[run] : s[u] = content
  <2>1. ir'[run] = ir[run] \cup {at}
    BY <1>1, <1>2, <1>9 DEF s, FilesType
  <2>2. Len(t) = at /\ ir'[run] \subseteq 1 .. at
    BY <1>1, <1>5, <1>6, <2>1
  <2>3. \A u \in 1 .. at : \E v \in ir'[run] : t[v] = t[u]
    BY <1>1, <1>5, <1>6, <1>7, <2>1
  <2>4. \A u, v \in ir'[run] : t[u] = t[v] => u = v
    BY <1>1, <1>5, <1>6, <1>7, <1>9, <2>1
  <2> QED BY <2>2, <2>3, <2>4, <1>1 DEF Covers, t
<1> QED BY <1>8, <1>9

(* A step on the latest run's directory before publication leaves the      *)
(* reports that are in place complete.                                     *)
LEMMA ReportsStayComplete ==
  ASSUME ControlType, FilesType, PointInv, FutureInv, PlaceInv, IRInv,
         pc \in {"compile", "discard"}, reports' = reports, before' = before,
         \A r \in Runs : r # run =>
           ir'[r] = ir[r] /\ contents'[r] = contents[r] /\ scanned'[r] = scanned[r]
  PROVE  /\ \A n \in Names : reports[n] # Absent => Complete(reports[n])'
         /\ \A n \in Names : before[n] # Absent => Complete(before[n])'
<1>1. run \in Runs /\ reports = before
  BY RunInRuns DEF PlaceInv
<1>2. ASSUME NEW r \in Runs, r # run, Complete(r)
      PROVE  Complete(r)'
  BY <1>1, <1>2 DEF Complete, Covers
<1>3. \A n \in Names : reports[n] # Absent =>
        reports[n] \in Runs /\ reports[n] # run /\ Complete(reports[n])
  BY EarlierReports DEF IRInv
<1>4. ASSUME NEW n \in Names, reports[n] # Absent
      PROVE  Complete(reports[n])'
  <2>1. PICK r \in Runs : r = reports[n] /\ r # run /\ Complete(r)
    BY <1>3, <1>4
  <2>2. Complete(r)' /\ r = reports'[n]
    BY <1>2, <2>1
  <2> QED BY <2>2 DEF Complete, Covers
<1>5. ASSUME NEW n \in Names, before[n] # Absent
      PROVE  Complete(before[n])'
  <2>1. Complete(reports[n])' /\ before'[n] = reports'[n]
    BY <1>1, <1>4, <1>5
  <2> QED BY <2>1 DEF Complete, Covers
<1> QED BY <1>4, <1>5

LEMMA IRStep == ControlType /\ FilesType /\ PointInv /\ FutureInv /\ PlaceInv /\ IRInv /\ [Next]_vars => IRInv'
<1> USE ConstantsAssumption, NameFacts
    DEF IRInv, Goto, End
<1> SUFFICES ASSUME ControlType, FilesType, PointInv, FutureInv, PlaceInv, IRInv, [Next]_vars
             PROVE  IRInv'
  OBVIOUS
<1>1. CASE Begin
  <2>1. run + 1 \in Runs
    BY <1>1 DEF Begin, ControlType, Runs
  <2>2. ir[run + 1] = {} /\ contents[run + 1] = << >>
    BY <2>1 DEF FutureInv, ControlType
  <2>3. Covers(run, 0)'
    BY <1>1, <2>2 DEF Begin, Covers, dirs
  <2>4. \A r : Complete(r)' <=> Complete(r)
    BY <1>1, CompleteFrame DEF Begin, dirs
  <2> QED BY <1>1, <2>3, <2>4 DEF Begin
<1>2. CASE Compile
  <2>1. Covers(run, at - 1)'
    BY <1>2, CompileCovers DEF Compile
  <2>9. \A r \in Runs : r # run => ir'[r] = ir[r] /\ contents'[r] = contents[r]
                                    /\ scanned'[r] = scanned[r]
    BY <1>2, CompileEffect DEF Compile
  <2>10. /\ \A n \in Names : reports[n] # Absent => Complete(reports[n])'
         /\ \A n \in Names : before[n] # Absent => Complete(before[n])'
    BY <1>2, <2>9, ReportsStayComplete DEF Compile
  <2> QED BY <1>2, <2>1, <2>10 DEF Compile
<1>3. CASE CompileFails
  <2>1. UNCHANGED <<ir, contents, scanned>>
    BY <1>3 DEF CompileFails, dirs
  <2>2. \A r : Complete(r)' <=> Complete(r)
    BY <2>1, CompleteFrame
  <2> QED BY <1>3, <2>2 DEF CompileFails
<1>4. CASE Scan
  <2>1. run \in Runs /\ run' = run /\ at - 1 = NumUnits
    BY <1>4, RunInRuns, ConstantsAssumption DEF Scan
  <2>2. Covers(run, NumUnits) /\ scanned'[run] = ir'[run] /\ ir' = ir /\ contents' = contents
    BY <1>4, <2>1 DEF Scan, FilesType
  <2>3. Complete(run)'
    BY <2>1, <2>2 DEF Complete, Covers
  <2>9. \A r \in Runs : r # run => ir'[r] = ir[r] /\ contents'[r] = contents[r]
                                    /\ scanned'[r] = scanned[r]
    BY <1>4 DEF Scan, FilesType, RunDir
  <2>10. /\ \A n \in Names : reports[n] # Absent => Complete(reports[n])'
         /\ \A n \in Names : before[n] # Absent => Complete(before[n])'
    BY <1>4, <2>9, ReportsStayComplete DEF Scan
  <2> QED BY <1>4, <2>3, <2>10 DEF Scan
<1>5. CASE ScanFails
  <2>1. UNCHANGED <<ir, contents, scanned>>
    BY <1>5 DEF ScanFails, dirs
  <2>2. \A r : Complete(r)' <=> Complete(r)
    BY <2>1, CompleteFrame
  <2> QED BY <1>5, <2>2 DEF ScanFails
<1>6. CASE Discard
  <2>9. \A r \in Runs : r # run => ir'[r] = ir[r] /\ contents'[r] = contents[r]
                                    /\ scanned'[r] = scanned[r]
    BY <1>6 DEF Discard, FilesType, RunDir
  <2>10. /\ \A n \in Names : reports[n] # Absent => Complete(reports[n])'
         /\ \A n \in Names : before[n] # Absent => Complete(before[n])'
    BY <1>6, <2>9, ReportsStayComplete DEF Discard
  <2> QED BY <1>6, <2>10 DEF Discard
<1>7. CASE DiscardFails
  <2>9. \A r \in Runs : r # run => ir'[r] = ir[r] /\ contents'[r] = contents[r]
                                    /\ scanned'[r] = scanned[r]
    BY <1>7 DEF DiscardFails, FilesType, RunDir
  <2>10. /\ \A n \in Names : reports[n] # Absent => Complete(reports[n])'
         /\ \A n \in Names : before[n] # Absent => Complete(before[n])'
    BY <1>7, <2>9, ReportsStayComplete DEF DiscardFails
  <2> QED BY <1>7, <2>10 DEF DiscardFails
<1>8. CASE BackUp
  <2>1. UNCHANGED <<ir, contents, scanned>>
    BY <1>8 DEF BackUp, dirs
  <2>2. \A r : Complete(r)' <=> Complete(r)
    BY <2>1, CompleteFrame
  <2> QED BY <1>8, <2>2 DEF BackUp
<1>9. CASE BackUpFails
  <2>1. UNCHANGED <<ir, contents, scanned>>
    BY <1>9 DEF BackUpFails, dirs
  <2>2. \A r : Complete(r)' <=> Complete(r)
    BY <2>1, CompleteFrame
  <2> QED BY <1>9, <2>2 DEF BackUpFails
<1>10. CASE BackUpDone
  <2>1. UNCHANGED <<ir, contents, scanned>>
    BY <1>10 DEF BackUpDone, dirs
  <2>2. \A r : Complete(r)' <=> Complete(r)
    BY <2>1, CompleteFrame
  <2> QED BY <1>10, <2>2 DEF BackUpDone
<1>11. CASE Publish
  <2>1. \A r : Complete(r)' <=> Complete(r)
    BY <1>11, CompleteFrame DEF Publish
  <2>2. \A n \in Names : reports'[n] = reports[n] \/ reports'[n] = run
    BY <1>11 DEF Publish, FilesType
  <2>3. run' = run /\ before' = before /\ pc = "publish" /\ pc' \in {"publish", "tidy"}
    BY <1>11 DEF Publish
  <2>4. Complete(run)'
    <3>1. PICK r : r = run
      OBVIOUS
    <3>2. Complete(r)' /\ run' = r
      BY <2>1, <2>3, <3>1
    <3> QED BY <3>2 DEF Complete, Covers
  <2>5. ASSUME NEW n \in Names, reports'[n] # Absent
        PROVE  Complete(reports[n])'
    <3>1. PICK r : r = reports'[n] /\ (r = reports[n] \/ r = run)
      BY <2>2
    <3>2. Complete(r)'
      BY <2>1, <2>3, <2>5, <3>1
    <3> QED BY <3>1, <3>2 DEF Complete, Covers
  <2> QED BY <2>1, <2>3, <2>4, <2>5
<1>12. CASE PublishFails
  <2>1. UNCHANGED <<ir, contents, scanned>>
    BY <1>12 DEF PublishFails, dirs
  <2>2. \A r : Complete(r)' <=> Complete(r)
    BY <2>1, CompleteFrame
  <2> QED BY <1>12, <2>2 DEF PublishFails
<1>13. CASE Undo
  <2>1. \A r : Complete(r)' <=> Complete(r)
    BY <1>13, CompleteFrame DEF Undo
  <2>2. at = 1 /\ reports[json] = run /\ Saved(json)
    BY <1>13 DEF Undo, PlaceInv, PointInv, ControlType
  <2>3. reports'[json] = before[json] /\ reports'[text] = reports[text]
    BY <1>13, <2>2, NameFacts DEF Undo, Saved, FilesType
  <2>4. run' = run /\ before' = before /\ pc = "rollback" /\ pc' = "rollback"
    BY <1>13 DEF Undo
  <2>5. \A n \in Names : reports'[n] # Absent => Complete(reports'[n])
    BY <2>3, NameFacts
  <2> QED BY <2>1, <2>4, <2>5
<1>14. CASE UndoFails
  <2>1. UNCHANGED <<ir, contents, scanned>>
    BY <1>14 DEF UndoFails, dirs
  <2>2. \A r : Complete(r)' <=> Complete(r)
    BY <2>1, CompleteFrame
  <2> QED BY <1>14, <2>2 DEF UndoFails
<1>15. CASE RolledBack
  <2>1. UNCHANGED <<ir, contents, scanned>>
    BY <1>15 DEF RolledBack, dirs
  <2>2. \A r : Complete(r)' <=> Complete(r)
    BY <2>1, CompleteFrame
  <2> QED BY <1>15, <2>2 DEF RolledBack
<1>16. CASE Tidy
  <2>1. UNCHANGED <<ir, contents, scanned>>
    BY <1>16 DEF Tidy, dirs
  <2>2. \A r : Complete(r)' <=> Complete(r)
    BY <2>1, CompleteFrame
  <2> QED BY <1>16, <2>2 DEF Tidy
<1>17. CASE TidyFails
  <2>1. UNCHANGED <<ir, contents, scanned>>
    BY <1>17 DEF TidyFails, dirs
  <2>2. \A r : Complete(r)' <=> Complete(r)
    BY <2>1, CompleteFrame
  <2> QED BY <1>17, <2>2 DEF TidyFails
<1>18. CASE Succeed
  <2>1. UNCHANGED <<ir, contents, scanned>>
    BY <1>18 DEF Succeed, dirs
  <2>2. \A r : Complete(r)' <=> Complete(r)
    BY <2>1, CompleteFrame
  <2> QED BY <1>18, <2>2 DEF Succeed
<1>19. CASE Interrupted
  <2>1. UNCHANGED <<ir, contents, scanned>>
    BY <1>19 DEF Interrupted, dirs
  <2>2. \A r : Complete(r)' <=> Complete(r)
    BY <2>1, CompleteFrame
  <2> QED BY <1>19, <2>2 DEF Interrupted
<1>20. CASE Killed
  <2>1. UNCHANGED <<ir, contents, scanned>>
    BY <1>20 DEF Killed, dirs
  <2>2. \A r : Complete(r)' <=> Complete(r)
    BY <2>1, CompleteFrame
  <2> QED BY <1>20, <2>2 DEF Killed
<1>21. CASE UNCHANGED vars
  <2>1. \A r : (Complete(r)' <=> Complete(r)) /\ (\A n : Covers(r, n)' <=> Covers(r, n))
    BY <1>21, CompleteFrame DEF vars
  <2> QED BY <1>21, <2>1 DEF vars
<1> QED
  BY <1>1, <1>2, <1>3, <1>4, <1>5, <1>6, <1>7, <1>8, <1>9, <1>10, <1>11,
     <1>12, <1>13, <1>14, <1>15, <1>16, <1>17, <1>18, <1>19, <1>20, <1>21
     DEF Next, Prepare, PublishReports

-----------------------------------------------------------------------------
LEMMA InductiveInit == Init => IndInv
<1> SUFFICES ASSUME Init PROVE IndInv
  OBVIOUS
<1>1. ControlType /\ FilesType
  BY ConstantsAssumption DEF Init, ControlType, FilesType, Absent
<1>2. PointInv /\ FutureInv /\ PlaceInv /\ OutcomeInv /\ IRInv
  BY ConstantsAssumption, NameFacts
     DEF Init, PointInv, FutureInv, PlaceInv, OutcomeInv, IRInv, Absent
<1> QED BY <1>1, <1>2, TypeParts DEF IndInv

LEMMA InductiveStep == IndInv /\ [Next]_vars => IndInv'
<1> SUFFICES ASSUME IndInv, [Next]_vars PROVE IndInv'
  OBVIOUS
<1>1. /\ ControlType /\ FilesType
      /\ PointInv /\ FutureInv /\ PlaceInv /\ OutcomeInv /\ IRInv
  BY TypeParts DEF IndInv
<1>2. ControlType' /\ FilesType'
  BY <1>1, ControlTypeStep, FilesTypeStep
<1>3. TypeOK'
  <2>1. Names' = Names /\ names' = names
    BY DEF Names, names
  <2> QED BY <1>2, NameFacts DEF TypeOK, ControlType, FilesType
<1>4. PointInv' /\ FutureInv'
  BY <1>1, PointStep, FutureStep
<1>5. PlaceInv' /\ OutcomeInv'
  BY <1>1, PlaceStep, OutcomeStep
<1>6. IRInv'
  BY <1>1, IRStep
<1> QED BY <1>3, <1>4, <1>5, <1>6 DEF IndInv

(* For any units, bitcode, runs and failures: the types, and at each point *)
(* of publish_reports where the earlier reports are and what stands in     *)
(* their place.                                                            *)
THEOREM InvariantHolds == Spec => []IndInv
BY InductiveInit, InductiveStep, PTL DEF Spec

(* The types of scan_project's files and variables.                        *)
THEOREM TypeCorrect == Spec => []TypeOK
<1>1. IndInv => TypeOK
  BY DEF IndInv
<1> QED BY InvariantHolds, <1>1, PTL

(* publish_reports never loses an earlier report, whichever operations     *)
(* fail and wherever the process is killed.                                *)
THEOREM NothingIsLost == Spec => []Recoverable
<1>1. IndInv => Recoverable
  <2> SUFFICES ASSUME IndInv PROVE Recoverable
    OBVIOUS
  <2>1. ControlType /\ FilesType /\ PointInv /\ PlaceInv /\ OutcomeInv
    BY TypeParts DEF IndInv
  <2>2. \/ reports = before
        \/ reports[json] = run /\ reports[text] = before[text] /\ Saved(json)
        \/ reports[json] = run /\ reports[text] = run
    <3>1. CASE pc = "idle"
      BY <2>1, <3>1 DEF PointInv, OutcomeInv, ControlType
    <3>2. CASE pc # "idle"
      BY <2>1, <3>2, StoppedAnywhere
    <3> QED BY <3>1, <3>2
  <2> QED BY <2>2, NameFacts DEF Recoverable, Saved
<1> QED BY InvariantHolds, <1>1, PTL

(* scan_project never deletes bitcode that an installed report lists.      *)
THEOREM InstalledIRIsKept == Spec => []ReportsPointAtIR
<1>1. IndInv => ReportsPointAtIR
  <2> SUFFICES ASSUME IndInv, reports[json] # Absent
               PROVE  scanned[reports[json]] # {}
                      /\ scanned[reports[json]] \subseteq ir[reports[json]]
    BY DEF ReportsPointAtIR, json
  <2>1. Complete(reports[json])
    BY NameFacts DEF IndInv, IRInv
  <2>2. 1 \in 1 .. NumUnits
    BY ConstantsAssumption
  <2> QED BY <2>1, <2>2 DEF Complete, Covers
<1> QED BY InvariantHolds, <1>1, PTL

(* A report that is installed stands for all selected units, and for no    *)
(* bitcode twice (scan_project).                                           *)
THEOREM InstalledReportIsComplete == Spec => []ReportIsComplete
<1>1. IndInv => ReportIsComplete
  <2> SUFFICES ASSUME IndInv, NEW n \in Names, reports[n] # Absent
               PROVE  LET r == reports[n]
                          bitcode(us) == {contents[r][u] : u \in us}
                      IN /\ Len(contents[r]) = NumUnits
                         /\ bitcode(scanned[r]) = bitcode(Units)
                         /\ \A u, v \in scanned[r] : contents[r][u] = contents[r][v] => u = v
    BY DEF ReportIsComplete
  <2> DEFINE r == reports[n]
  <2>1. Complete(r)
    BY DEF IndInv, IRInv
  <2>2. {contents[r][u] : u \in scanned[r]} = {contents[r][u] : u \in Units}
    BY <2>1 DEF Complete, Covers, Units
  <2> QED BY <2>1, <2>2 DEF Complete, Covers
<1> QED BY InvariantHolds, <1>1, PTL

-----------------------------------------------------------------------------
(* Each step of a run is a step of the contract, or changes nothing there. *)

LEMMA PairIs ==
  /\ InProgress => Pair = <<before[json], before[text]>>
  /\ ~InProgress => Pair = <<reports[json], reports[text]>>
BY NameFacts DEF Pair

LEMMA PairWillBe ==
  /\ pc' \in {"publish", "rollback"} => Pair' = <<before'[json], before'[text]>>
  /\ pc' \notin {"publish", "rollback"} => Pair' = <<reports'[json], reports'[text]>>
<1>1. names' = names
  BY DEF names
<1> QED BY <1>1, NameFacts DEF Pair, InProgress

(* What is left of the pair if the run stops here.                         *)
LEMMA StoppedPair ==
  ASSUME ControlType, FilesType, PointInv, PlaceInv, pc # "idle"
  PROVE  <<reports[json], reports[text]>> \in {Pair, <<run, Pair[2]>>}
<1>1. CASE InProgress
  BY <1>1, PairIs DEF InProgress, PlaceInv, PointInv
<1>2. CASE ~InProgress
  BY <1>2, PairIs
<1> QED BY <1>1, <1>2

LEMMA ContractInit == Init => Contract!Init
BY NameFacts DEF Init, Contract!Init, Pair, InProgress, Absent

LEMMA ContractStep == IndInv /\ [Next]_vars => [Contract!Next]_(Contract!vars)
<1> USE NameFacts DEF Goto, End, Failure, dirs
<1> SUFFICES ASSUME IndInv, [Next]_vars
             PROVE  Contract!Next \/ UNCHANGED <<Pair, run, outcome>>
  BY DEF Contract!vars
<1>0. ControlType /\ FilesType /\ PointInv /\ FutureInv /\ PlaceInv
  BY TypeParts DEF IndInv
<1>1. CASE Begin
  <2>1. Pair' = Pair
    BY <1>1, PairIs, PairWillBe DEF Begin, InProgress
  <2> QED BY <1>0, <1>1, <2>1 DEF Begin, Contract!Next, Contract!Begin, PointInv
<1>2. CASE Compile \/ CompileFails \/ Scan \/ ScanFails \/ BackUp \/ Tidy
  BY <1>2, PairIs, PairWillBe
     DEF Compile, CompileFails, Scan, ScanFails, BackUp, Tidy, InProgress
<1>3. CASE BackUpDone
  BY <1>0, <1>3, PairIs, PairWillBe DEF BackUpDone, InProgress, PlaceInv
<1>4. CASE Publish
  <2>1. CASE at = 1
    BY <1>4, <2>1, PairIs, PairWillBe DEF Publish, InProgress
  <2>2. CASE at # 1
    <3>1. at = 2 /\ outcome = "running" /\ reports[json] = run /\ run # 0
      BY <1>0, <1>4, <2>2 DEF Publish, PointInv, PlaceInv, ControlType
    <3>2. Pair = <<before[json], before[text]>> /\ before[text] # run
      BY <1>0, <1>4, <3>1, PairIs DEF Publish, InProgress, FutureInv, ControlType, FilesType, Absent
    <3>3. Pair' = <<run, run>>
      BY <1>0, <1>4, <3>1, PairWillBe DEF Publish, FilesType
    <3> QED BY <1>4, <3>1, <3>2, <3>3 DEF Publish, Contract!Next, Contract!Publish
  <2> QED BY <2>1, <2>2
<1>5. CASE PublishFails \/ Undo \/ UndoFails
  BY <1>5, PairIs, PairWillBe DEF PublishFails, Undo, UndoFails, InProgress
<1>6. CASE BackUpFails \/ TidyFails \/ Discard \/ DiscardFails
  <2>1. Pair' = Pair /\ run' = run /\ outcome' = "failed"
    BY <1>6, PairIs, PairWillBe
       DEF BackUpFails, TidyFails, Discard, DiscardFails, InProgress
  <2>2. outcome = "running"
    BY <1>0, <1>6 DEF BackUpFails, TidyFails, Discard, DiscardFails, PointInv
  <2> QED BY <2>1, <2>2 DEF Contract!Next, Contract!Fail
<1>7. CASE Succeed
  <2>1. Pair' = Pair /\ run' = run /\ outcome' = "ok"
    BY <1>7, PairIs, PairWillBe DEF Succeed, InProgress
  <2>2. outcome = "running" /\ Pair = <<run, run>>
    BY <1>0, <1>7, PairIs DEF Succeed, PointInv, PlaceInv, InProgress
  <2> QED BY <2>1, <2>2 DEF Contract!Next, Contract!Succeed
<1>8. CASE RolledBack
  <2>1. outcome = "running" /\ pc # "idle" /\ run' = run
    BY <1>0, <1>8 DEF RolledBack, PointInv
  <2>2. Pair' = <<reports[json], reports[text]>>
    BY <1>8, PairWillBe DEF RolledBack
  <2>3. CASE reports = before
    <3>1. Pair' = Pair /\ outcome' = "failed"
      BY <1>8, <2>2, <2>3, PairIs DEF RolledBack, InProgress
    <3> QED BY <2>1, <3>1 DEF Contract!Next, Contract!Fail
  <2>4. CASE reports # before
    BY <1>0, <1>8, <2>1, <2>2, <2>4, StoppedPair
       DEF RolledBack, Contract!Next, Contract!Tear
  <2> QED BY <2>3, <2>4
<1>9. ASSUME pc # "idle", End("killed"), run' = run, reports' = reports
      PROVE  Contract!Next
  <2>1. Pair' = <<reports[json], reports[text]>>
    BY <1>9, PairWillBe
  <2>2. outcome = "running" /\ outcome' = "killed"
    BY <1>0, <1>9 DEF PointInv
  <2> QED BY <1>0, <1>9, <2>1, <2>2, StoppedPair DEF Contract!Next, Contract!Tear
<1>10. CASE Interrupted
  <2>1. CASE pc = "compile"
    BY <1>10, <2>1, PairIs, PairWillBe DEF Interrupted, InProgress
  <2>2. CASE pc # "compile"
    BY <1>9, <1>10, <2>2 DEF Interrupted
  <2> QED BY <2>1, <2>2
<1>11. CASE Killed
  BY <1>9, <1>11 DEF Killed
<1>12. CASE UNCHANGED vars
  BY <1>12, PairIs, PairWillBe DEF vars, InProgress
<1> QED
  BY <1>1, <1>2, <1>3, <1>4, <1>5, <1>6, <1>7, <1>8, <1>10, <1>11, <1>12
     DEF Next, Prepare, PublishReports

(* callsites.json and callsites.txt change together or not at all, short   *)
(* of a kill or a failing rollback (publish_reports).                      *)
THEOREM ScanProjectImplementsContract == Spec => ImplementsContract
BY InvariantHolds, ContractInit, ContractStep, PTL
   DEF Spec, ImplementsContract, Contract!Spec
=============================================================================
