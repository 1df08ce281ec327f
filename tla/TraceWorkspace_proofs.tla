------------------------ MODULE TraceWorkspace_proofs -----------------------
(***************************************************************************)
(* The properties of TraceWorkspace, for every number of suites, pids,     *)
(* tests and mishaps.  One lemma per part of the inductive invariant says  *)
(* that every action preserves it; the theorems are at the end.  The       *)
(* properties assume ~ForkDuringScan (see README, the /proc scan).         *)
(***************************************************************************)
EXTENDS TraceWorkspaceInv, TLAPS

USE DEF vars, dirVars, procVars, suiteVars

(* CollectOne keeps the types of what it changes.                          *)
LEMMA CollectType ==
  ASSUME TypeOK, NEW t \in Suites, CollectOne(t)
  PROVE  /\ read' \in [Suites -> SUBSET (Tags \cup {User})]
         /\ status' \in [Suites -> {"none", "passed", "failed", "timeout", "runner-error"}]
         /\ todo' \in [Suites -> SUBSET Pids]
<1>1. PICK p \in todo[t] :
        /\ todo' = [todo EXCEPT ![t] = @ \ {p}]
        /\ \/ /\ file[p].by # Nobody
              /\ read' = [read EXCEPT ![t] = @ \cup {file[p].by}]
              /\ status' = status
           \/ /\ status' = [status EXCEPT ![t] =
                              IF @ = "passed" THEN "runner-error" ELSE @]
              /\ read' = read
  BY DEF CollectOne
<1>2. p \in Pids /\ file[p].by \in Tags \cup {User, Nobody}
  BY DEF TypeOK, Contents
<1>3. read' \in [Suites -> SUBSET (Tags \cup {User})]
  <2>1. CASE read' = read
    BY <2>1 DEF TypeOK
  <2>2. CASE file[p].by # Nobody /\ read' = [read EXCEPT ![t] = @ \cup {file[p].by}]
    <3>1. read[t] \cup {file[p].by} \in SUBSET (Tags \cup {User})
      BY <1>2, <2>2 DEF TypeOK
    <3>2. read \in [Suites -> SUBSET (Tags \cup {User})]
      BY DEF TypeOK
    <3> QED BY <2>2, <3>1, <3>2
  <2> QED BY <1>1, <2>1, <2>2
<1>4. status' \in [Suites -> {"none", "passed", "failed", "timeout", "runner-error"}]
  BY <1>1, ZenonT(30) DEF TypeOK
<1>5. todo' \in [Suites -> SUBSET Pids]
  BY <1>1 DEF TypeOK
<1> QED BY <1>3, <1>4, <1>5

(* Stopped keeps the types of what it changes.                             *)
LEMMA StoppedType ==
  ASSUME TypeOK, NEW t \in Suites, Stopped(t)
  PROVE  /\ pc' \in [Suites -> Points]
         /\ todo' \in [Suites -> SUBSET Pids]
         /\ err' \in [Suites -> {"none", "oserror", "interrupt", "cut", "isolation", "abandon"}]
<1>1. Present \subseteq Pids
  BY DEF Present
<1>2. CASE err[t] = "interrupt"
  <2>1. pc' = [pc EXCEPT ![t] = "cleanup"]
    BY <1>2 DEF Stopped, LeaveBody, Goto
  <2>2. todo' = [todo EXCEPT ![t] = Present]
    BY <1>2 DEF Stopped, LeaveBody
  <2>3. err' = [err EXCEPT ![t] = "interrupt"]
    BY <1>2 DEF Stopped, LeaveBody
  <2> QED BY <1>1, <2>1, <2>2, <2>3 DEF TypeOK, Points
<1>3. CASE err[t] # "interrupt"
  BY <1>3 DEF Stopped, Goto, TypeOK, Points
<1> QED BY <1>2, <1>3

(* Types: a trace file is written by the user or by a test.                *)
LEMMA TypeStep ==
  ASSUME TypeOK, LockInv, [Next]_vars
  PROVE  TypeOK'
<1> USE ConstantsAssumption, OwnersAssumption DEF TypeOK, Points, At, Goto, Mishap,
      LeaveBody, BeginStop, Exceptions, Stopped, ReapLeader, LeaderZombie, Runs
<1>a. /\ Present \subseteq Pids /\ NoFile \in Contents
      /\ \A s \in Suites : pc[s] \in HoldPoints => Tag(s) \in Tags
      /\ \A c \in Contents : c.by \in Tags \cup {User, Nobody}
      /\ \A c \in Contents : [c EXCEPT !.whole = TRUE] \in Contents
      /\ \A o \in Tags \cup {User, Nobody}, w \in BOOLEAN : [by |-> o, whole |-> w] \in Contents
  <2>1. Present \subseteq Pids /\ NoFile \in Contents
    BY DEF Present, NoFile, Contents
  <2>2. \A s \in Suites : pc[s] \in HoldPoints => Tag(s) \in Tags
    BY DEF LockInv, Tag, Tags
  <2>3. ASSUME NEW c \in Contents
        PROVE  c.by \in Tags \cup {User, Nobody} /\ [c EXCEPT !.whole = TRUE] \in Contents
    BY DEF Contents
  <2>4. \A o \in Tags \cup {User, Nobody}, w \in BOOLEAN : [by |-> o, whole |-> w] \in Contents
    BY DEF Contents
  <2> QED BY <2>1, <2>2, <2>3, <2>4
<1> USE <1>a
<1>1. ASSUME NEW t \in Suites, Acquire(t) PROVE TypeOK'
  BY <1>1 DEF Acquire, Present
<1>2. ASSUME NEW t \in Suites, LockBusy(t) PROVE TypeOK'
  BY <1>2 DEF LockBusy
<1>3. ASSUME NEW t \in Suites, MoveOne(t) PROVE TypeOK'
  BY <1>3 DEF MoveOne
<1>4. ASSUME NEW t \in Suites, MoveDone(t) PROVE TypeOK'
  BY <1>4 DEF MoveDone
<1>5. ASSUME NEW t \in Suites, Launch(t) PROVE TypeOK'
  BY <1>5 DEF Launch, HoldPoints, ReadyPoints
<1>6. ASSUME NEW t \in Suites, LeaderExited(t) PROVE TypeOK'
  BY <1>6 DEF LeaderExited
<1>7. ASSUME NEW t \in Suites, TimeoutExpires(t) PROVE TypeOK'
  BY <1>7 DEF TimeoutExpires
<1>8. ASSUME NEW t \in Suites, GroupGone(t) PROVE TypeOK'
  <2> HIDE DEF Stopped
  <2> QED BY <1>8, StoppedType DEF GroupGone
<1>9. ASSUME NEW t \in Suites, SignalGroup(t) PROVE TypeOK'
  BY <1>9 DEF SignalGroup, Live, Group, LiveGroup
<1>10. ASSUME NEW t \in Suites, ListProcesses(t) PROVE TypeOK'
  <2>1. CASE LeaderZombie(t)
    BY <1>10, <2>1, ZenonT(30) DEF ListProcesses
  <2>2. CASE ~LeaderZombie(t)
    BY <1>10, <2>2 DEF ListProcesses
  <2> QED BY <2>1, <2>2
<1>11. ASSUME NEW t \in Suites, ScanPasses(t) PROVE TypeOK'
  BY <1>11 DEF ScanPasses
<1>12. ASSUME NEW t \in Suites, ScanFinds(t) PROVE TypeOK'
  BY <1>12 DEF ScanFinds
<1>13. ASSUME NEW t \in Suites, ScanClean(t) PROVE TypeOK'
  <2>1. leader' \in [Suites -> Pids \cup {Nobody}] /\ group' \in [Pids -> Tags \cup {Nobody}]
        /\ state' \in [Pids -> {"none", "starting", "tracing", "zombie"}]
    <3>1. CASE LeaderZombie(t)
      BY <1>13, <3>1, ZenonT(30) DEF ScanClean
    <3>2. CASE ~LeaderZombie(t)
      BY <1>13, <3>2 DEF ScanClean
    <3> QED BY <3>1, <3>2
  <2> HIDE DEF Stopped, ReapLeader, LeaderZombie
  <2> QED BY <1>13, StoppedType, <2>1 DEF ScanClean
<1>14. ASSUME NEW t \in Suites, Rescan(t) PROVE TypeOK'
  BY <1>14 DEF Rescan
<1>15. ASSUME NEW t \in Suites, GraceExpires(t) PROVE TypeOK'
  <2>1. CASE sig[t] = "TERM"
    BY <1>15, <2>1, ZenonT(30) DEF GraceExpires
  <2>2. CASE sig[t] = "KILL"
    BY <1>15, <2>2, ZenonT(30) DEF GraceExpires
  <2> QED BY <2>1, <2>2
<1>16. ASSUME NEW t \in Suites, Glob(t) PROVE TypeOK'
  BY <1>16 DEF Glob
<1>17. ASSUME NEW t \in Suites, CollectOne(t) PROVE TypeOK'
  BY <1>17, CollectType DEF CollectOne
<1>18. ASSUME NEW t \in Suites, CollectDone(t) PROVE TypeOK'
  BY <1>18 DEF CollectDone
<1>19. ASSUME NEW t \in Suites, CleanupOne(t) PROVE TypeOK'
  BY <1>19 DEF CleanupOne
<1>20. ASSUME NEW t \in Suites, CleanupDone(t) PROVE TypeOK'
  BY <1>20 DEF CleanupDone
<1>21. ASSUME NEW t \in Suites, RestoreOne(t) PROVE TypeOK'
  BY <1>21 DEF RestoreOne, Moved
<1>22. ASSUME NEW t \in Suites, RestoreDone(t) PROVE TypeOK'
  BY <1>22 DEF RestoreDone
<1>23. ASSUME NEW t \in Suites, Release(t) PROVE TypeOK'
  <2>1. status' \in [Suites -> {"none", "passed", "failed", "timeout", "runner-error"}]
    BY <1>23, ZenonT(30) DEF Release
  <2>2. read' \in [Suites -> SUBSET (Tags \cup {User})]
    BY <1>23 DEF Release
  <2>3. pc' \in [Suites -> Points]
    <3>1. pc' = [pc EXCEPT ![t] = "idle"] \/ pc' = [pc EXCEPT ![t] = "aborted"]
      BY <1>23 DEF Release
    <3> QED BY <3>1
  <2> QED BY <1>23, <2>1, <2>2, <2>3 DEF Release
<1>24. ASSUME NEW t \in Suites, SetupFails(t) PROVE TypeOK'
  BY <1>24 DEF SetupFails
<1>25. ASSUME NEW t \in Suites, MoveFails(t) PROVE TypeOK'
  BY <1>25 DEF MoveFails
<1>26. ASSUME NEW t \in Suites, LaunchFails(t) PROVE TypeOK'
  BY <1>26 DEF LaunchFails
<1>26a. ASSUME NEW t \in Suites, LaunchInterrupted(t) PROVE TypeOK'
  BY <1>26a DEF LaunchInterrupted, HoldPoints, ReadyPoints
<1>27. ASSUME NEW t \in Suites, CollectFails(t) PROVE TypeOK'
  BY <1>27 DEF CollectFails
<1>28. ASSUME NEW t \in Suites, CleanupFails(t) PROVE TypeOK'
  BY <1>28 DEF CleanupFails, FinallyFails
<1>29. ASSUME NEW t \in Suites, RestoreFails(t) PROVE TypeOK'
  BY <1>29 DEF RestoreFails, FinallyFails
<1>30. ASSUME NEW t \in Suites, InterruptWait(t) PROVE TypeOK'
  BY <1>30 DEF InterruptWait
<1>31. ASSUME NEW t \in Suites, StopBroken(t) PROVE TypeOK'
  BY <1>31 DEF StopBroken
<1>32. ASSUME NEW t \in Suites, Crash(t) PROVE TypeOK'
  BY <1>32 DEF Crash
<1>33. ASSUME NEW q \in Pids, OpenTrace(q) PROVE TypeOK'
  BY <1>33 DEF OpenTrace
<1>34. ASSUME NEW q \in Pids, Fork(q) PROVE TypeOK'
  BY <1>34 DEF Fork
<1>35. ASSUME NEW q \in Pids, Exit(q) PROVE TypeOK'
  BY <1>35 DEF Exit
<1>36. ASSUME NEW q \in Pids, Die(q) PROVE TypeOK'
  BY <1>36 DEF Die
<1>37. ASSUME NEW q \in Pids, Reap(q) PROVE TypeOK'
  BY <1>37 DEF Reap
<1>38. CASE UNCHANGED vars
  BY <1>38
<1> QED
  BY <1>1, <1>2, <1>3, <1>4, <1>5, <1>6, <1>7, <1>8, <1>9, <1>10, <1>11,
     <1>12, <1>13, <1>14, <1>15, <1>16, <1>17, <1>18, <1>19, <1>20, <1>21,
     <1>22, <1>23, <1>24, <1>25, <1>26, <1>26a, <1>27, <1>28, <1>29, <1>30, <1>31,
     <1>32, <1>33, <1>34, <1>35, <1>36, <1>37, <1>38,
     Zenon
  DEF Next, Step, Stop, Mishappen, Process

(* Mutual exclusion, and the exceptions a suite may still carry.           *)
LEMMA LockStep ==
  ASSUME TypeOK, LockInv, [Next]_vars
  PROVE  LockInv'
<1> USE ConstantsAssumption, OwnersAssumption DEF TypeOK, Points, At, Goto, Mishap,
      LeaveBody, BeginStop, Exceptions, Stopped, ReapLeader, LeaderZombie,
      LockInv, HoldPoints, ReadyPoints, RunPoints, Graceful
<1>1. ASSUME NEW t \in Suites, Acquire(t) PROVE LockInv'
  BY <1>1 DEF Acquire
<1>2. ASSUME NEW t \in Suites, LockBusy(t) PROVE LockInv'
  BY <1>2 DEF LockBusy
<1>3. ASSUME NEW t \in Suites, MoveOne(t) PROVE LockInv'
  BY <1>3 DEF MoveOne
<1>4. ASSUME NEW t \in Suites, MoveDone(t) PROVE LockInv'
  BY <1>4 DEF MoveDone
<1>5. ASSUME NEW t \in Suites, Launch(t) PROVE LockInv'
  BY <1>5 DEF Launch
<1>6. ASSUME NEW t \in Suites, LeaderExited(t) PROVE LockInv'
  BY <1>6 DEF LeaderExited
<1>7. ASSUME NEW t \in Suites, TimeoutExpires(t) PROVE LockInv'
  BY <1>7 DEF TimeoutExpires
<1>8. ASSUME NEW t \in Suites, GroupGone(t) PROVE LockInv'
  BY <1>8 DEF GroupGone
<1>9. ASSUME NEW t \in Suites, SignalGroup(t) PROVE LockInv'
  BY <1>9 DEF SignalGroup
<1>10. ASSUME NEW t \in Suites, ListProcesses(t) PROVE LockInv'
  BY <1>10 DEF ListProcesses
<1>11. ASSUME NEW t \in Suites, ScanPasses(t) PROVE LockInv'
  BY <1>11 DEF ScanPasses
<1>12. ASSUME NEW t \in Suites, ScanFinds(t) PROVE LockInv'
  BY <1>12 DEF ScanFinds
<1>13. ASSUME NEW t \in Suites, ScanClean(t) PROVE LockInv'
  BY <1>13 DEF ScanClean
<1>14. ASSUME NEW t \in Suites, Rescan(t) PROVE LockInv'
  BY <1>14 DEF Rescan
<1>15. ASSUME NEW t \in Suites, GraceExpires(t) PROVE LockInv'
  BY <1>15 DEF GraceExpires
<1>16. ASSUME NEW t \in Suites, Glob(t) PROVE LockInv'
  BY <1>16 DEF Glob
<1>17. ASSUME NEW t \in Suites, CollectOne(t) PROVE LockInv'
  BY <1>17 DEF CollectOne
<1>18. ASSUME NEW t \in Suites, CollectDone(t) PROVE LockInv'
  BY <1>18 DEF CollectDone
<1>19. ASSUME NEW t \in Suites, CleanupOne(t) PROVE LockInv'
  BY <1>19 DEF CleanupOne
<1>20. ASSUME NEW t \in Suites, CleanupDone(t) PROVE LockInv'
  BY <1>20 DEF CleanupDone
<1>21. ASSUME NEW t \in Suites, RestoreOne(t) PROVE LockInv'
  BY <1>21 DEF RestoreOne
<1>22. ASSUME NEW t \in Suites, RestoreDone(t) PROVE LockInv'
  BY <1>22 DEF RestoreDone
<1>23. ASSUME NEW t \in Suites, Release(t) PROVE LockInv'
  BY <1>23 DEF Release
<1>24. ASSUME NEW t \in Suites, SetupFails(t) PROVE LockInv'
  BY <1>24 DEF SetupFails
<1>25. ASSUME NEW t \in Suites, MoveFails(t) PROVE LockInv'
  BY <1>25 DEF MoveFails
<1>26. ASSUME NEW t \in Suites, LaunchFails(t) PROVE LockInv'
  BY <1>26 DEF LaunchFails
<1>26a. ASSUME NEW t \in Suites, LaunchInterrupted(t) PROVE LockInv'
  BY <1>26a DEF LaunchInterrupted
<1>27. ASSUME NEW t \in Suites, CollectFails(t) PROVE LockInv'
  BY <1>27 DEF CollectFails
<1>28. ASSUME NEW t \in Suites, CleanupFails(t) PROVE LockInv'
  BY <1>28 DEF CleanupFails, FinallyFails
<1>29. ASSUME NEW t \in Suites, RestoreFails(t) PROVE LockInv'
  BY <1>29 DEF RestoreFails, FinallyFails
<1>30. ASSUME NEW t \in Suites, InterruptWait(t) PROVE LockInv'
  BY <1>30 DEF InterruptWait
<1>31. ASSUME NEW t \in Suites, StopBroken(t) PROVE LockInv'
  BY <1>31 DEF StopBroken
<1>32. ASSUME NEW t \in Suites, Crash(t) PROVE LockInv'
  BY <1>32 DEF Crash
<1>33. ASSUME NEW q \in Pids, OpenTrace(q) PROVE LockInv'
  BY <1>33 DEF OpenTrace
<1>34. ASSUME NEW q \in Pids, Fork(q) PROVE LockInv'
  BY <1>34 DEF Fork
<1>35. ASSUME NEW q \in Pids, Exit(q) PROVE LockInv'
  BY <1>35 DEF Exit
<1>36. ASSUME NEW q \in Pids, Die(q) PROVE LockInv'
  BY <1>36 DEF Die
<1>37. ASSUME NEW q \in Pids, Reap(q) PROVE LockInv'
  BY <1>37 DEF Reap
<1>38. CASE UNCHANGED vars
  BY <1>38
<1> QED
  BY <1>1, <1>2, <1>3, <1>4, <1>5, <1>6, <1>7, <1>8, <1>9, <1>10, <1>11,
     <1>12, <1>13, <1>14, <1>15, <1>16, <1>17, <1>18, <1>19, <1>20, <1>21,
     <1>22, <1>23, <1>24, <1>25, <1>26, <1>26a, <1>27, <1>28, <1>29, <1>30, <1>31,
     <1>32, <1>33, <1>34, <1>35, <1>36, <1>37, <1>38,
     Zenon
  DEF Next, Step, Stop, Mishappen, Process

(* An abandoned suite stays abandoned, and is never forgiven.              *)
LEMMA AbandonedGrows ==
  ASSUME TypeOK, LockInv, [Next]_vars
  PROVE  /\ Abandoned \subseteq Abandoned'
         /\ NobodyAbandons' => NobodyAbandons
<1> USE ConstantsAssumption, OwnersAssumption DEF TypeOK, Points, At, Goto, Mishap,
      LeaveBody, BeginStop, Exceptions, Stopped, ReapLeader, LeaderZombie,
      LockInv, HoldPoints, ReadyPoints, RunPoints, Graceful
<1> DEFINE Kept(s) ==
      /\ pc[s] = "crashed" => pc'[s] = "crashed"
      /\ err[s] = "abandon" => err'[s] = "abandon"
<1> SUFFICES \A s \in Suites : Kept(s)
  BY DEF Abandoned, NobodyAbandons
<1> SUFFICES ASSUME NEW s \in Suites
             PROVE  Kept(s)
  OBVIOUS
<1>1. ASSUME NEW t \in Suites, Acquire(t) PROVE Kept(s)
  BY <1>1, ZenonT(30) DEF Acquire
<1>2. ASSUME NEW t \in Suites, LockBusy(t) PROVE Kept(s)
  BY <1>2 DEF LockBusy
<1>3. ASSUME NEW t \in Suites, MoveOne(t) PROVE Kept(s)
  BY <1>3 DEF MoveOne
<1>4. ASSUME NEW t \in Suites, MoveDone(t) PROVE Kept(s)
  BY <1>4 DEF MoveDone
<1>5. ASSUME NEW t \in Suites, Launch(t) PROVE Kept(s)
  BY <1>5 DEF Launch
<1>6. ASSUME NEW t \in Suites, LeaderExited(t) PROVE Kept(s)
  BY <1>6 DEF LeaderExited
<1>7. ASSUME NEW t \in Suites, TimeoutExpires(t) PROVE Kept(s)
  BY <1>7 DEF TimeoutExpires
<1>8. ASSUME NEW t \in Suites, GroupGone(t) PROVE Kept(s)
  BY <1>8 DEF GroupGone
<1>9. ASSUME NEW t \in Suites, SignalGroup(t) PROVE Kept(s)
  BY <1>9 DEF SignalGroup
<1>10. ASSUME NEW t \in Suites, ListProcesses(t) PROVE Kept(s)
  BY <1>10 DEF ListProcesses
<1>11. ASSUME NEW t \in Suites, ScanPasses(t) PROVE Kept(s)
  BY <1>11 DEF ScanPasses
<1>12. ASSUME NEW t \in Suites, ScanFinds(t) PROVE Kept(s)
  BY <1>12 DEF ScanFinds
<1>13. ASSUME NEW t \in Suites, ScanClean(t) PROVE Kept(s)
  BY <1>13 DEF ScanClean
<1>14. ASSUME NEW t \in Suites, Rescan(t) PROVE Kept(s)
  BY <1>14 DEF Rescan
<1>15. ASSUME NEW t \in Suites, GraceExpires(t) PROVE Kept(s)
  <2>1. err[t] \in {"none", "interrupt"} /\ pc[t] = "grace"
    BY <1>15 DEF GraceExpires
  <2>2. \A r \in Suites : r # t => pc'[r] = pc[r] /\ err'[r] = err[r]
    BY <1>15 DEF GraceExpires
  <2> QED BY <2>1, <2>2
<1>16. ASSUME NEW t \in Suites, Glob(t) PROVE Kept(s)
  BY <1>16 DEF Glob
<1>17. ASSUME NEW t \in Suites, CollectOne(t) PROVE Kept(s)
  BY <1>17 DEF CollectOne
<1>18. ASSUME NEW t \in Suites, CollectDone(t) PROVE Kept(s)
  BY <1>18, ZenonT(30) DEF CollectDone
<1>19. ASSUME NEW t \in Suites, CleanupOne(t) PROVE Kept(s)
  BY <1>19 DEF CleanupOne
<1>20. ASSUME NEW t \in Suites, CleanupDone(t) PROVE Kept(s)
  BY <1>20 DEF CleanupDone
<1>21. ASSUME NEW t \in Suites, RestoreOne(t) PROVE Kept(s)
  BY <1>21 DEF RestoreOne
<1>22. ASSUME NEW t \in Suites, RestoreDone(t) PROVE Kept(s)
  BY <1>22 DEF RestoreDone
<1>23. ASSUME NEW t \in Suites, Release(t) PROVE Kept(s)
  BY <1>23 DEF Release
<1>24. ASSUME NEW t \in Suites, SetupFails(t) PROVE Kept(s)
  BY <1>24 DEF SetupFails
<1>25. ASSUME NEW t \in Suites, MoveFails(t) PROVE Kept(s)
  BY <1>25, ZenonT(30) DEF MoveFails
<1>26. ASSUME NEW t \in Suites, LaunchFails(t) PROVE Kept(s)
  <2>1. err[t] \in {"none", "interrupt"} /\ pc[t] \in {"launch", "glob", "collect"}
    BY <1>26 DEF LaunchFails
  <2>2. PICK kind \in Exceptions : LeaveBody(t, kind)
    BY <1>26 DEF LaunchFails
  <2>3. \A r \in Suites : r # t => pc'[r] = pc[r] /\ err'[r] = err[r]
    BY <2>2
  <2> QED BY <2>1, <2>3
<1>26a. ASSUME NEW t \in Suites, LaunchInterrupted(t) PROVE Kept(s)
  BY <1>26a DEF LaunchInterrupted
<1>27. ASSUME NEW t \in Suites, CollectFails(t) PROVE Kept(s)
  <2>1. err[t] \in {"none", "interrupt"} /\ pc[t] \in {"launch", "glob", "collect"}
    BY <1>27 DEF CollectFails
  <2>2. PICK kind \in Exceptions : LeaveBody(t, kind)
    BY <1>27 DEF CollectFails
  <2>3. \A r \in Suites : r # t => pc'[r] = pc[r] /\ err'[r] = err[r]
    BY <2>2
  <2> QED BY <2>1, <2>3
<1>28. ASSUME NEW t \in Suites, CleanupFails(t) PROVE Kept(s)
  BY <1>28 DEF CleanupFails, FinallyFails
<1>29. ASSUME NEW t \in Suites, RestoreFails(t) PROVE Kept(s)
  BY <1>29 DEF RestoreFails, FinallyFails
<1>30. ASSUME NEW t \in Suites, InterruptWait(t) PROVE Kept(s)
  BY <1>30, ZenonT(30) DEF InterruptWait
<1>31. ASSUME NEW t \in Suites, StopBroken(t) PROVE Kept(s)
  BY <1>31 DEF StopBroken
<1>32. ASSUME NEW t \in Suites, Crash(t) PROVE Kept(s)
  BY <1>32 DEF Crash
<1>33. ASSUME NEW q \in Pids, OpenTrace(q) PROVE Kept(s)
  BY <1>33 DEF OpenTrace
<1>34. ASSUME NEW q \in Pids, Fork(q) PROVE Kept(s)
  BY <1>34 DEF Fork
<1>35. ASSUME NEW q \in Pids, Exit(q) PROVE Kept(s)
  BY <1>35 DEF Exit
<1>36. ASSUME NEW q \in Pids, Die(q) PROVE Kept(s)
  BY <1>36 DEF Die
<1>37. ASSUME NEW q \in Pids, Reap(q) PROVE Kept(s)
  BY <1>37 DEF Reap
<1>38. CASE UNCHANGED vars
  BY <1>38
<1> QED
  BY <1>1, <1>2, <1>3, <1>4, <1>5, <1>6, <1>7, <1>8, <1>9, <1>10, <1>11,
     <1>12, <1>13, <1>14, <1>15, <1>16, <1>17, <1>18, <1>19, <1>20, <1>21,
     <1>22, <1>23, <1>24, <1>25, <1>26, <1>26a, <1>27, <1>28, <1>29, <1>30, <1>31,
     <1>32, <1>33, <1>34, <1>35, <1>36, <1>37, <1>38,
     Zenon
  DEF Next, Step, Stop, Mishappen, Process

(* A process that runs its program belongs to the test under way, or to an *)
(* abandoned one.                                                          *)
LEMMA ActiveStep ==
  ASSUME TypeOK, LockInv, ActiveInv, ScanInv, [Next]_vars
  PROVE  ActiveInv'
<1> USE ConstantsAssumption, OwnersAssumption DEF TypeOK, Points, At, Goto, Mishap,
      LeaveBody, BeginStop, Exceptions, Stopped, ReapLeader, LeaderZombie,
      LockInv, ActiveInv, HoldPoints, ReadyPoints, RunPoints, Graceful, Active, OwnTag, AbandonedTag, Live, Tag, Tags, Runs
<1>a. Abandoned \subseteq Abandoned'
  BY AbandonedGrows
<1> USE <1>a
<1>1. ASSUME NEW t \in Suites, Acquire(t) PROVE ActiveInv'
  BY <1>1 DEF Acquire
<1>2. ASSUME NEW t \in Suites, LockBusy(t) PROVE ActiveInv'
  BY <1>2 DEF LockBusy
<1>3. ASSUME NEW t \in Suites, MoveOne(t) PROVE ActiveInv'
  BY <1>3 DEF MoveOne
<1>4. ASSUME NEW t \in Suites, MoveDone(t) PROVE ActiveInv'
  BY <1>4 DEF MoveDone
<1>5. ASSUME NEW t \in Suites, Launch(t) PROVE ActiveInv'
  BY <1>5 DEF Launch
<1>6. ASSUME NEW t \in Suites, LeaderExited(t) PROVE ActiveInv'
  BY <1>6 DEF LeaderExited
<1>7. ASSUME NEW t \in Suites, TimeoutExpires(t) PROVE ActiveInv'
  BY <1>7 DEF TimeoutExpires
<1>8. ASSUME NEW t \in Suites, GroupGone(t) PROVE ActiveInv'
  <2>1. \A p \in Pids : Active(p) => group[p] # Tag(t)
    BY <1>8 DEF GroupGone, Group
  <2> QED BY <1>8, <2>1 DEF GroupGone
<1>9. ASSUME NEW t \in Suites, SignalGroup(t) PROVE ActiveInv'
  BY <1>9 DEF SignalGroup
<1>10. ASSUME NEW t \in Suites, ListProcesses(t) PROVE ActiveInv'
  <2>1. CASE LeaderZombie(t)
    <3>1. \A p \in Pids : /\ state[p]' # "none" => state[p] # "none" /\ group[p]' = group[p]
                          /\ Active(p)' => Active(p)
      BY <1>10, <2>1 DEF ListProcesses
    <3>2. lock' = lock /\ test' = test /\ pc' = [pc EXCEPT ![t] = "scan"]
      BY <1>10, <2>1 DEF ListProcesses
    <3> QED BY <1>10, <3>1, <3>2 DEF ListProcesses
  <2>2. CASE ~LeaderZombie(t)
    BY <1>10, <2>2 DEF ListProcesses
  <2> QED BY <2>1, <2>2
<1>11. ASSUME NEW t \in Suites, ScanPasses(t) PROVE ActiveInv'
  BY <1>11 DEF ScanPasses
<1>12. ASSUME NEW t \in Suites, ScanFinds(t) PROVE ActiveInv'
  BY <1>12 DEF ScanFinds
<1>13. ASSUME NEW t \in Suites, ScanClean(t) PROVE ActiveInv'
  <2>1. LiveGroup(t) = {}
    BY <1>13 DEF ScanClean, ScanInv
  <2>2. \A p \in Pids : Active(p) => group[p] # Tag(t)
    BY <2>1 DEF LiveGroup, Group
  <2>3. \A p \in Pids : /\ state[p]' # "none" => state[p] # "none" /\ group[p]' = group[p]
                        /\ Active(p)' => Active(p)
    BY <1>13 DEF ScanClean
  <2>4. lock' = lock /\ test' = test /\ \A s \in Suites : s # t => pc[s]' = pc[s]
    BY <1>13 DEF ScanClean
  <2> QED BY <1>13, <2>2, <2>3, <2>4 DEF ScanClean
<1>14. ASSUME NEW t \in Suites, Rescan(t) PROVE ActiveInv'
  BY <1>14 DEF Rescan
<1>15. ASSUME NEW t \in Suites, GraceExpires(t) PROVE ActiveInv'
  <2>1. LiveGroup(t) \subseteq doomed \/ sig[t] = "TERM"
    BY <1>15 DEF GraceExpires, ScanInv
  <2>2. CASE sig[t] = "TERM"
    BY <1>15, <2>2 DEF GraceExpires
  <2>3. CASE LiveGroup(t) \subseteq doomed
    BY <1>15, <2>3 DEF GraceExpires, LiveGroup, Group
  <2> QED BY <2>1, <2>2, <2>3
<1>16. ASSUME NEW t \in Suites, Glob(t) PROVE ActiveInv'
  BY <1>16 DEF Glob
<1>17. ASSUME NEW t \in Suites, CollectOne(t) PROVE ActiveInv'
  BY <1>17 DEF CollectOne
<1>18. ASSUME NEW t \in Suites, CollectDone(t) PROVE ActiveInv'
  BY <1>18 DEF CollectDone
<1>19. ASSUME NEW t \in Suites, CleanupOne(t) PROVE ActiveInv'
  BY <1>19 DEF CleanupOne
<1>20. ASSUME NEW t \in Suites, CleanupDone(t) PROVE ActiveInv'
  BY <1>20 DEF CleanupDone
<1>21. ASSUME NEW t \in Suites, RestoreOne(t) PROVE ActiveInv'
  BY <1>21 DEF RestoreOne
<1>22. ASSUME NEW t \in Suites, RestoreDone(t) PROVE ActiveInv'
  BY <1>22 DEF RestoreDone
<1>23. ASSUME NEW t \in Suites, Release(t) PROVE ActiveInv'
  BY <1>23 DEF Release
<1>24. ASSUME NEW t \in Suites, SetupFails(t) PROVE ActiveInv'
  BY <1>24 DEF SetupFails
<1>25. ASSUME NEW t \in Suites, MoveFails(t) PROVE ActiveInv'
  BY <1>25 DEF MoveFails
<1>26. ASSUME NEW t \in Suites, LaunchFails(t) PROVE ActiveInv'
  BY <1>26 DEF LaunchFails
<1>26a. ASSUME NEW t \in Suites, LaunchInterrupted(t) PROVE ActiveInv'
  BY <1>26a DEF LaunchInterrupted, Abandoned
<1>27. ASSUME NEW t \in Suites, CollectFails(t) PROVE ActiveInv'
  BY <1>27 DEF CollectFails
<1>28. ASSUME NEW t \in Suites, CleanupFails(t) PROVE ActiveInv'
  BY <1>28 DEF CleanupFails, FinallyFails
<1>29. ASSUME NEW t \in Suites, RestoreFails(t) PROVE ActiveInv'
  BY <1>29 DEF RestoreFails, FinallyFails
<1>30. ASSUME NEW t \in Suites, InterruptWait(t) PROVE ActiveInv'
  BY <1>30 DEF InterruptWait
<1>31. ASSUME NEW t \in Suites, StopBroken(t) PROVE ActiveInv'
  BY <1>31 DEF StopBroken, Abandoned
<1>32. ASSUME NEW t \in Suites, Crash(t) PROVE ActiveInv'
  BY <1>32 DEF Crash, Abandoned
<1>33. ASSUME NEW q \in Pids, OpenTrace(q) PROVE ActiveInv'
  BY <1>33 DEF OpenTrace
<1>34. ASSUME NEW q \in Pids, Fork(q) PROVE ActiveInv'
  BY <1>34 DEF Fork
<1>35. ASSUME NEW q \in Pids, Exit(q) PROVE ActiveInv'
  BY <1>35 DEF Exit
<1>36. ASSUME NEW q \in Pids, Die(q) PROVE ActiveInv'
  BY <1>36 DEF Die
<1>37. ASSUME NEW q \in Pids, Reap(q) PROVE ActiveInv'
  BY <1>37 DEF Reap
<1>38. CASE UNCHANGED vars
  BY <1>38 DEF Abandoned
<1> QED
  BY <1>1, <1>2, <1>3, <1>4, <1>5, <1>6, <1>7, <1>8, <1>9, <1>10, <1>11,
     <1>12, <1>13, <1>14, <1>15, <1>16, <1>17, <1>18, <1>19, <1>20, <1>21,
     <1>22, <1>23, <1>24, <1>25, <1>26, <1>26a, <1>27, <1>28, <1>29, <1>30, <1>31,
     <1>32, <1>33, <1>34, <1>35, <1>36, <1>37, <1>38,
     Zenon
  DEF Next, Step, Stop, Mishappen, Process

(* Without a fork during a scan, group_is_running misses no live member.    *)
LEMMA ScanStep ==
  ASSUME ~ForkDuringScan, TypeOK, LockInv, ActiveInv, ScanInv, [Next]_vars
  PROVE  ScanInv'
<1> USE ConstantsAssumption, OwnersAssumption DEF TypeOK, Points, At, Goto, Mishap,
      LeaveBody, BeginStop, Exceptions, Stopped, ReapLeader, LeaderZombie,
      LockInv, ActiveInv, ScanInv, HoldPoints, ReadyPoints, RunPoints, Graceful, Live, Group, LiveGroup, Tag, Tags, Runs
<1>1. ASSUME NEW t \in Suites, Acquire(t) PROVE ScanInv'
  BY <1>1 DEF Acquire
<1>2. ASSUME NEW t \in Suites, LockBusy(t) PROVE ScanInv'
  BY <1>2 DEF LockBusy
<1>3. ASSUME NEW t \in Suites, MoveOne(t) PROVE ScanInv'
  BY <1>3 DEF MoveOne
<1>4. ASSUME NEW t \in Suites, MoveDone(t) PROVE ScanInv'
  BY <1>4 DEF MoveDone
<1>5. ASSUME NEW t \in Suites, Launch(t) PROVE ScanInv'
  BY <1>5 DEF Launch
<1>6. ASSUME NEW t \in Suites, LeaderExited(t) PROVE ScanInv'
  BY <1>6 DEF LeaderExited
<1>7. ASSUME NEW t \in Suites, TimeoutExpires(t) PROVE ScanInv'
  BY <1>7 DEF TimeoutExpires
<1>8. ASSUME NEW t \in Suites, GroupGone(t) PROVE ScanInv'
  <2>1. LiveGroup(t) = {}
    BY <1>8 DEF GroupGone
  <2>2. \A s \in Suites : LiveGroup(s)' = LiveGroup(s)
    BY <1>8 DEF GroupGone
  <2>3. /\ \A s \in Suites : s # t => pc'[s] = pc[s] /\ todo'[s] = todo[s]
        /\ pc'[t] \in {"glob", "cleanup"} /\ UNCHANGED <<sig, doomed>>
    BY <1>8 DEF GroupGone
  <2> HIDE DEF LiveGroup
  <2> QED BY <2>1, <2>2, <2>3
<1>9. ASSUME NEW t \in Suites, SignalGroup(t) PROVE ScanInv'
  <2>1. \A s \in Suites : LiveGroup(s)' = LiveGroup(s)
    BY <1>9 DEF SignalGroup
  <2>2. doomed \subseteq doomed' /\ (sig[t] = "KILL" => LiveGroup(t) \subseteq doomed')
    BY <1>9 DEF SignalGroup
  <2>3. /\ pc[t]' = "list" /\ sig' = sig /\ todo' = todo
        /\ \A s \in Suites : s # t => pc[s]' = pc[s]
    BY <1>9 DEF SignalGroup
  <2> HIDE DEF LiveGroup
  <2> QED BY <2>1, <2>2, <2>3
<1>10. ASSUME NEW t \in Suites, ListProcesses(t) PROVE ScanInv'
  <2>1. \A s \in Suites : LiveGroup(s)' = LiveGroup(s)
    <3>1. CASE LeaderZombie(t)
      BY <1>10, <3>1 DEF ListProcesses
    <3>2. CASE ~LeaderZombie(t)
      BY <1>10, <3>2 DEF ListProcesses
    <3> QED BY <3>1, <3>2
  <2>2. LiveGroup(t) \subseteq todo'[t]
    BY <1>10 DEF ListProcesses
  <2>3. /\ pc[t] = "list" /\ pc[t]' = "scan" /\ sig' = sig /\ doomed' = doomed
        /\ \A s \in Suites : s # t => pc[s]' = pc[s] /\ todo[s]' = todo[s]
    BY <1>10 DEF ListProcesses
  <2> HIDE DEF LiveGroup
  <2> QED BY <2>1, <2>2, <2>3
<1>11. ASSUME NEW t \in Suites, ScanPasses(t) PROVE ScanInv'
  BY <1>11 DEF ScanPasses
<1>12. ASSUME NEW t \in Suites, ScanFinds(t) PROVE ScanInv'
  BY <1>12 DEF ScanFinds
<1>13. ASSUME NEW t \in Suites, ScanClean(t) PROVE ScanInv'
  <2>1. LiveGroup(t) = {}
    BY <1>13 DEF ScanClean
  <2>2. \A s \in Suites : LiveGroup(s)' = LiveGroup(s)
    <3>1. CASE LeaderZombie(t)
      BY <1>13, <3>1 DEF ScanClean
    <3>2. CASE ~LeaderZombie(t)
      BY <1>13, <3>2 DEF ScanClean
    <3> QED BY <3>1, <3>2
  <2>3. /\ pc[t]' \in {"glob", "cleanup"} /\ sig' = sig /\ doomed' = doomed
        /\ \A s \in Suites : s # t => pc[s]' = pc[s] /\ todo[s]' = todo[s]
    BY <1>13 DEF ScanClean
  <2> HIDE DEF LiveGroup
  <2> QED BY <2>1, <2>2, <2>3
<1>14. ASSUME NEW t \in Suites, Rescan(t) PROVE ScanInv'
  BY <1>14 DEF Rescan
<1>15. ASSUME NEW t \in Suites, GraceExpires(t) PROVE ScanInv'
  BY <1>15, SMTT(30) DEF GraceExpires
<1>16. ASSUME NEW t \in Suites, Glob(t) PROVE ScanInv'
  BY <1>16 DEF Glob
<1>17. ASSUME NEW t \in Suites, CollectOne(t) PROVE ScanInv'
  BY <1>17 DEF CollectOne
<1>18. ASSUME NEW t \in Suites, CollectDone(t) PROVE ScanInv'
  BY <1>18 DEF CollectDone
<1>19. ASSUME NEW t \in Suites, CleanupOne(t) PROVE ScanInv'
  BY <1>19 DEF CleanupOne
<1>20. ASSUME NEW t \in Suites, CleanupDone(t) PROVE ScanInv'
  BY <1>20 DEF CleanupDone
<1>21. ASSUME NEW t \in Suites, RestoreOne(t) PROVE ScanInv'
  BY <1>21 DEF RestoreOne
<1>22. ASSUME NEW t \in Suites, RestoreDone(t) PROVE ScanInv'
  BY <1>22 DEF RestoreDone
<1>23. ASSUME NEW t \in Suites, Release(t) PROVE ScanInv'
  BY <1>23 DEF Release
<1>24. ASSUME NEW t \in Suites, SetupFails(t) PROVE ScanInv'
  BY <1>24 DEF SetupFails
<1>25. ASSUME NEW t \in Suites, MoveFails(t) PROVE ScanInv'
  BY <1>25 DEF MoveFails
<1>26. ASSUME NEW t \in Suites, LaunchFails(t) PROVE ScanInv'
  BY <1>26 DEF LaunchFails
<1>26a. ASSUME NEW t \in Suites, LaunchInterrupted(t) PROVE ScanInv'
  BY <1>26a DEF LaunchInterrupted
<1>27. ASSUME NEW t \in Suites, CollectFails(t) PROVE ScanInv'
  BY <1>27 DEF CollectFails
<1>28. ASSUME NEW t \in Suites, CleanupFails(t) PROVE ScanInv'
  BY <1>28 DEF CleanupFails, FinallyFails
<1>29. ASSUME NEW t \in Suites, RestoreFails(t) PROVE ScanInv'
  BY <1>29 DEF RestoreFails, FinallyFails
<1>30. ASSUME NEW t \in Suites, InterruptWait(t) PROVE ScanInv'
  BY <1>30 DEF InterruptWait
<1>31. ASSUME NEW t \in Suites, StopBroken(t) PROVE ScanInv'
  BY <1>31 DEF StopBroken
<1>32. ASSUME NEW t \in Suites, Crash(t) PROVE ScanInv'
  BY <1>32 DEF Crash
<1>33. ASSUME NEW q \in Pids, OpenTrace(q) PROVE ScanInv'
  BY <1>33 DEF OpenTrace
<1>34. ASSUME NEW q \in Pids, Fork(q) PROVE ScanInv'
  <2>1. PICK c \in Pids : /\ state[c] = "none"
                          /\ state' = [state EXCEPT ![c] = "starting"]
                          /\ group' = [group EXCEPT ![c] = group[q]]
    BY <1>34 DEF Fork
  <2>2. \A s \in Suites : LiveGroup(s)' # LiveGroup(s) => q \in LiveGroup(s)
    BY <1>34, <2>1 DEF Fork
  <2>3. \A s \in Suites : q \in LiveGroup(s) => ~At(s, "scan") /\ q \notin doomed
    BY <1>34 DEF Fork
  <2>4. UNCHANGED <<doomed, suiteVars>>
    BY <1>34 DEF Fork
  <2> HIDE DEF LiveGroup
  <2> QED BY <2>2, <2>3, <2>4
<1>35. ASSUME NEW q \in Pids, Exit(q) PROVE ScanInv'
  BY <1>35 DEF Exit
<1>36. ASSUME NEW q \in Pids, Die(q) PROVE ScanInv'
  BY <1>36 DEF Die
<1>37. ASSUME NEW q \in Pids, Reap(q) PROVE ScanInv'
  <2>1. \A s \in Suites : LiveGroup(s)' \subseteq LiveGroup(s)
    BY <1>37 DEF Reap
  <2>2. UNCHANGED <<doomed, suiteVars>>
    BY <1>37 DEF Reap
  <2> HIDE DEF LiveGroup
  <2> QED BY <2>1, <2>2
<1>38. CASE UNCHANGED vars
  BY <1>38
<1> QED
  BY <1>1, <1>2, <1>3, <1>4, <1>5, <1>6, <1>7, <1>8, <1>9, <1>10, <1>11,
     <1>12, <1>13, <1>14, <1>15, <1>16, <1>17, <1>18, <1>19, <1>20, <1>21,
     <1>22, <1>23, <1>24, <1>25, <1>26, <1>26a, <1>27, <1>28, <1>29, <1>30, <1>31,
     <1>32, <1>33, <1>34, <1>35, <1>36, <1>37, <1>38,
     Zenon
  DEF Next, Step, Stop, Mishappen, Process

(* Every suite knows where the user's traces are.                          *)
LEMMA UserPlaceStep ==
  ASSUME TypeOK, LockInv, ActiveInv, UserPlaceInv, [Next]_vars
  PROVE  UserPlaceInv'
<1> USE ConstantsAssumption, OwnersAssumption DEF TypeOK, Points, At, Goto, Mishap,
      LeaveBody, BeginStop, Exceptions, Stopped, ReapLeader, LeaderZombie,
      LockInv, HoldPoints, ReadyPoints, RunPoints, Graceful, UserFile, Runs, Present, Moved, Contents, NoFile, Tags, UserPlaceInv, ActiveInv, Live, Tag
<1>1. ASSUME NEW t \in Suites, Acquire(t) PROVE UserPlaceInv'
  BY <1>1 DEF Acquire
<1>2. ASSUME NEW t \in Suites, LockBusy(t) PROVE UserPlaceInv'
  BY <1>2 DEF LockBusy
<1>3. ASSUME NEW t \in Suites, MoveOne(t) PROVE UserPlaceInv'
  BY <1>3 DEF MoveOne
<1>4. ASSUME NEW t \in Suites, MoveDone(t) PROVE UserPlaceInv'
  BY <1>4 DEF MoveDone
<1>5. ASSUME NEW t \in Suites, Launch(t) PROVE UserPlaceInv'
  BY <1>5 DEF Launch
<1>6. ASSUME NEW t \in Suites, LeaderExited(t) PROVE UserPlaceInv'
  BY <1>6 DEF LeaderExited
<1>7. ASSUME NEW t \in Suites, TimeoutExpires(t) PROVE UserPlaceInv'
  BY <1>7 DEF TimeoutExpires
<1>8. ASSUME NEW t \in Suites, GroupGone(t) PROVE UserPlaceInv'
  BY <1>8 DEF GroupGone
<1>9. ASSUME NEW t \in Suites, SignalGroup(t) PROVE UserPlaceInv'
  BY <1>9 DEF SignalGroup
<1>10. ASSUME NEW t \in Suites, ListProcesses(t) PROVE UserPlaceInv'
  BY <1>10 DEF ListProcesses
<1>11. ASSUME NEW t \in Suites, ScanPasses(t) PROVE UserPlaceInv'
  BY <1>11 DEF ScanPasses
<1>12. ASSUME NEW t \in Suites, ScanFinds(t) PROVE UserPlaceInv'
  BY <1>12 DEF ScanFinds
<1>13. ASSUME NEW t \in Suites, ScanClean(t) PROVE UserPlaceInv'
  BY <1>13 DEF ScanClean
<1>14. ASSUME NEW t \in Suites, Rescan(t) PROVE UserPlaceInv'
  BY <1>14 DEF Rescan
<1>15. ASSUME NEW t \in Suites, GraceExpires(t) PROVE UserPlaceInv'
  BY <1>15 DEF GraceExpires
<1>16. ASSUME NEW t \in Suites, Glob(t) PROVE UserPlaceInv'
  BY <1>16 DEF Glob
<1>17. ASSUME NEW t \in Suites, CollectOne(t) PROVE UserPlaceInv'
  BY <1>17 DEF CollectOne
<1>18. ASSUME NEW t \in Suites, CollectDone(t) PROVE UserPlaceInv'
  BY <1>18 DEF CollectDone
<1>19. ASSUME NEW t \in Suites, CleanupOne(t) PROVE UserPlaceInv'
  BY <1>19 DEF CleanupOne
<1>20. ASSUME NEW t \in Suites, CleanupDone(t) PROVE UserPlaceInv'
  BY <1>20 DEF CleanupDone
<1>21. ASSUME NEW t \in Suites, RestoreOne(t) PROVE UserPlaceInv'
  BY <1>21 DEF RestoreOne
<1>22. ASSUME NEW t \in Suites, RestoreDone(t) PROVE UserPlaceInv'
  BY <1>22 DEF RestoreDone
<1>23. ASSUME NEW t \in Suites, Release(t) PROVE UserPlaceInv'
  BY <1>23 DEF Release
<1>24. ASSUME NEW t \in Suites, SetupFails(t) PROVE UserPlaceInv'
  BY <1>24 DEF SetupFails
<1>25. ASSUME NEW t \in Suites, MoveFails(t) PROVE UserPlaceInv'
  BY <1>25 DEF MoveFails
<1>26. ASSUME NEW t \in Suites, LaunchFails(t) PROVE UserPlaceInv'
  BY <1>26 DEF LaunchFails
<1>26a. ASSUME NEW t \in Suites, LaunchInterrupted(t) PROVE UserPlaceInv'
  BY <1>26a DEF LaunchInterrupted
<1>27. ASSUME NEW t \in Suites, CollectFails(t) PROVE UserPlaceInv'
  BY <1>27 DEF CollectFails
<1>28. ASSUME NEW t \in Suites, CleanupFails(t) PROVE UserPlaceInv'
  BY <1>28 DEF CleanupFails, FinallyFails
<1>29. ASSUME NEW t \in Suites, RestoreFails(t) PROVE UserPlaceInv'
  BY <1>29 DEF RestoreFails, FinallyFails
<1>30. ASSUME NEW t \in Suites, InterruptWait(t) PROVE UserPlaceInv'
  BY <1>30 DEF InterruptWait
<1>31. ASSUME NEW t \in Suites, StopBroken(t) PROVE UserPlaceInv'
  BY <1>31 DEF StopBroken
<1>32. ASSUME NEW t \in Suites, Crash(t) PROVE UserPlaceInv'
  BY <1>32 DEF Crash
<1>33. ASSUME NEW q \in Pids, OpenTrace(q) PROVE UserPlaceInv'
  BY <1>33 DEF OpenTrace
<1>34. ASSUME NEW q \in Pids, Fork(q) PROVE UserPlaceInv'
  BY <1>34 DEF Fork
<1>35. ASSUME NEW q \in Pids, Exit(q) PROVE UserPlaceInv'
  BY <1>35 DEF Exit
<1>36. ASSUME NEW q \in Pids, Die(q) PROVE UserPlaceInv'
  BY <1>36 DEF Die
<1>37. ASSUME NEW q \in Pids, Reap(q) PROVE UserPlaceInv'
  BY <1>37 DEF Reap
<1>38. CASE UNCHANGED vars
  BY <1>38
<1> QED
  BY <1>1, <1>2, <1>3, <1>4, <1>5, <1>6, <1>7, <1>8, <1>9, <1>10, <1>11,
     <1>12, <1>13, <1>14, <1>15, <1>16, <1>17, <1>18, <1>19, <1>20, <1>21,
     <1>22, <1>23, <1>24, <1>25, <1>26, <1>26a, <1>27, <1>28, <1>29, <1>30, <1>31,
     <1>32, <1>33, <1>34, <1>35, <1>36, <1>37, <1>38,
     Zenon
  DEF Next, Step, Stop, Mishappen, Process

(* No process runs while a user's trace is in its way.                     *)
LEMMA UserApartStep ==
  ASSUME TypeOK, LockInv, ActiveInv, UserPlaceInv, UserApartInv, [Next]_vars
  PROVE  UserApartInv'
<1> USE ConstantsAssumption, OwnersAssumption DEF TypeOK, Points, At, Goto, Mishap,
      LeaveBody, BeginStop, Exceptions, Stopped, ReapLeader, LeaderZombie,
      LockInv, HoldPoints, ReadyPoints, RunPoints, Graceful, UserFile, Runs, Present, Moved, Contents, NoFile, Tags,
      ActiveInv, UserPlaceInv, UserApartInv, Active, Live, Tag, OwnTag
<1>a. NobodyAbandons' => NobodyAbandons
  BY AbandonedGrows
<1>b. NobodyAbandons => \A o : AbandonedTag(o) => pc[o[1]] = "crashed"
  BY DEF AbandonedTag, Abandoned, NobodyAbandons
<1> USE <1>a
<1>1. ASSUME NEW t \in Suites, Acquire(t) PROVE UserApartInv'
  BY <1>1 DEF Acquire
<1>2. ASSUME NEW t \in Suites, LockBusy(t) PROVE UserApartInv'
  BY <1>2 DEF LockBusy
<1>3. ASSUME NEW t \in Suites, MoveOne(t) PROVE UserApartInv'
  BY <1>3 DEF MoveOne
<1>4. ASSUME NEW t \in Suites, MoveDone(t) PROVE UserApartInv'
  BY <1>4 DEF MoveDone
<1>5. ASSUME NEW t \in Suites, Launch(t) PROVE UserApartInv'
  BY <1>5 DEF Launch
<1>6. ASSUME NEW t \in Suites, LeaderExited(t) PROVE UserApartInv'
  BY <1>6 DEF LeaderExited
<1>7. ASSUME NEW t \in Suites, TimeoutExpires(t) PROVE UserApartInv'
  BY <1>7 DEF TimeoutExpires
<1>8. ASSUME NEW t \in Suites, GroupGone(t) PROVE UserApartInv'
  BY <1>8 DEF GroupGone
<1>9. ASSUME NEW t \in Suites, SignalGroup(t) PROVE UserApartInv'
  BY <1>9 DEF SignalGroup
<1>10. ASSUME NEW t \in Suites, ListProcesses(t) PROVE UserApartInv'
  BY <1>10 DEF ListProcesses
<1>11. ASSUME NEW t \in Suites, ScanPasses(t) PROVE UserApartInv'
  BY <1>11 DEF ScanPasses
<1>12. ASSUME NEW t \in Suites, ScanFinds(t) PROVE UserApartInv'
  BY <1>12 DEF ScanFinds
<1>13. ASSUME NEW t \in Suites, ScanClean(t) PROVE UserApartInv'
  BY <1>13 DEF ScanClean
<1>14. ASSUME NEW t \in Suites, Rescan(t) PROVE UserApartInv'
  BY <1>14 DEF Rescan
<1>15. ASSUME NEW t \in Suites, GraceExpires(t) PROVE UserApartInv'
  BY <1>15 DEF GraceExpires
<1>16. ASSUME NEW t \in Suites, Glob(t) PROVE UserApartInv'
  BY <1>16 DEF Glob
<1>17. ASSUME NEW t \in Suites, CollectOne(t) PROVE UserApartInv'
  BY <1>17 DEF CollectOne
<1>18. ASSUME NEW t \in Suites, CollectDone(t) PROVE UserApartInv'
  BY <1>18 DEF CollectDone
<1>19. ASSUME NEW t \in Suites, CleanupOne(t) PROVE UserApartInv'
  BY <1>19 DEF CleanupOne
<1>20. ASSUME NEW t \in Suites, CleanupDone(t) PROVE UserApartInv'
  BY <1>20 DEF CleanupDone
<1>21. ASSUME NEW t \in Suites, RestoreOne(t) PROVE UserApartInv'
  <2>1. lock = t /\ pc[t] = "restore"
    BY <1>21 DEF RestoreOne
  <2>2. \A p \in Pids : Active(p) /\ NobodyAbandons => group[p] # Tag(t)
    BY <1>b, <2>1 DEF AbandonedTag, Abandoned
  <2>3. \A p \in Pids : Active(p) /\ NobodyAbandons =>
          \A x \in Pids : ~UserFile(file[x]) /\ ~UserFile(backup[t][x])
    <3> HIDE DEF UserFile, Tag, Active, TypeOK
    <3> QED BY <2>1, <2>2
  <2>4. PICK r \in Pids : /\ file' = [file EXCEPT ![r] = backup[t][r]]
                          /\ backup' = [backup EXCEPT ![t][r] = NoFile]
    BY <1>21 DEF RestoreOne
  <2>5. UNCHANGED <<lock, procVars, suiteVars>>
    BY <1>21 DEF RestoreOne
  <2>6. \A p \in Pids : Active(p) /\ NobodyAbandons =>
          \A x \in Pids : ~UserFile(file'[x]) /\ ~UserFile(backup'[t][x])
    BY <2>3, <2>4
  <2> QED BY <1>a, <2>1, <2>5, <2>6
<1>22. ASSUME NEW t \in Suites, RestoreDone(t) PROVE UserApartInv'
  BY <1>22 DEF RestoreDone
<1>23. ASSUME NEW t \in Suites, Release(t) PROVE UserApartInv'
  BY <1>23 DEF Release
<1>24. ASSUME NEW t \in Suites, SetupFails(t) PROVE UserApartInv'
  BY <1>24 DEF SetupFails
<1>25. ASSUME NEW t \in Suites, MoveFails(t) PROVE UserApartInv'
  BY <1>25 DEF MoveFails
<1>26. ASSUME NEW t \in Suites, LaunchFails(t) PROVE UserApartInv'
  BY <1>26 DEF LaunchFails
<1>26a. ASSUME NEW t \in Suites, LaunchInterrupted(t) PROVE UserApartInv'
  BY <1>26a DEF LaunchInterrupted
<1>27. ASSUME NEW t \in Suites, CollectFails(t) PROVE UserApartInv'
  BY <1>27 DEF CollectFails
<1>28. ASSUME NEW t \in Suites, CleanupFails(t) PROVE UserApartInv'
  BY <1>28 DEF CleanupFails, FinallyFails
<1>29. ASSUME NEW t \in Suites, RestoreFails(t) PROVE UserApartInv'
  BY <1>29 DEF RestoreFails, FinallyFails
<1>30. ASSUME NEW t \in Suites, InterruptWait(t) PROVE UserApartInv'
  BY <1>30 DEF InterruptWait
<1>31. ASSUME NEW t \in Suites, StopBroken(t) PROVE UserApartInv'
  BY <1>31 DEF StopBroken
<1>32. ASSUME NEW t \in Suites, Crash(t) PROVE UserApartInv'
  BY <1>32 DEF Crash
<1>33. ASSUME NEW q \in Pids, OpenTrace(q) PROVE UserApartInv'
  BY <1>33 DEF OpenTrace
<1>34. ASSUME NEW q \in Pids, Fork(q) PROVE UserApartInv'
  BY <1>34 DEF Fork
<1>35. ASSUME NEW q \in Pids, Exit(q) PROVE UserApartInv'
  BY <1>35 DEF Exit
<1>36. ASSUME NEW q \in Pids, Die(q) PROVE UserApartInv'
  BY <1>36 DEF Die
<1>37. ASSUME NEW q \in Pids, Reap(q) PROVE UserApartInv'
  BY <1>37 DEF Reap
<1>38. CASE UNCHANGED vars
  BY <1>38 DEF NobodyAbandons
<1> QED
  BY <1>1, <1>2, <1>3, <1>4, <1>5, <1>6, <1>7, <1>8, <1>9, <1>10, <1>11,
     <1>12, <1>13, <1>14, <1>15, <1>16, <1>17, <1>18, <1>19, <1>20, <1>21,
     <1>22, <1>23, <1>24, <1>25, <1>26, <1>26a, <1>27, <1>28, <1>29, <1>30, <1>31,
     <1>32, <1>33, <1>34, <1>35, <1>36, <1>37, <1>38,
     Zenon
  DEF Next, Step, Stop, Mishappen, Process

(* No step destroys a user's trace.                                        *)
LEMMA UserTracesSafeStep ==
  ASSUME TypeOK, LockInv, ActiveInv, UserPlaceInv, UserApartInv, UserTracesSafe, [Next]_vars
  PROVE  UserTracesSafe'
<1> USE ConstantsAssumption, OwnersAssumption DEF TypeOK, Points, At, Goto, Mishap,
      LeaveBody, BeginStop, Exceptions, Stopped, ReapLeader, LeaderZombie,
      LockInv, HoldPoints, ReadyPoints, RunPoints, Graceful, UserFile, Runs, Present, Moved, Contents, NoFile, Tags,
      UserPlaceInv, UserApartInv, UserTracesSafe, Active, Live, NobodyAbandons
<1>a. NobodyAbandons' => NobodyAbandons
  BY AbandonedGrows
<1> USE <1>a
<1>1. ASSUME NEW t \in Suites, Acquire(t) PROVE UserTracesSafe'
  BY <1>1 DEF Acquire
<1>2. ASSUME NEW t \in Suites, LockBusy(t) PROVE UserTracesSafe'
  BY <1>2 DEF LockBusy
<1>3. ASSUME NEW t \in Suites, MoveOne(t) PROVE UserTracesSafe'
  BY <1>3 DEF MoveOne
<1>4. ASSUME NEW t \in Suites, MoveDone(t) PROVE UserTracesSafe'
  BY <1>4 DEF MoveDone
<1>5. ASSUME NEW t \in Suites, Launch(t) PROVE UserTracesSafe'
  BY <1>5 DEF Launch
<1>6. ASSUME NEW t \in Suites, LeaderExited(t) PROVE UserTracesSafe'
  BY <1>6 DEF LeaderExited
<1>7. ASSUME NEW t \in Suites, TimeoutExpires(t) PROVE UserTracesSafe'
  BY <1>7 DEF TimeoutExpires
<1>8. ASSUME NEW t \in Suites, GroupGone(t) PROVE UserTracesSafe'
  BY <1>8 DEF GroupGone
<1>9. ASSUME NEW t \in Suites, SignalGroup(t) PROVE UserTracesSafe'
  BY <1>9 DEF SignalGroup
<1>10. ASSUME NEW t \in Suites, ListProcesses(t) PROVE UserTracesSafe'
  BY <1>10 DEF ListProcesses
<1>11. ASSUME NEW t \in Suites, ScanPasses(t) PROVE UserTracesSafe'
  BY <1>11 DEF ScanPasses
<1>12. ASSUME NEW t \in Suites, ScanFinds(t) PROVE UserTracesSafe'
  BY <1>12 DEF ScanFinds
<1>13. ASSUME NEW t \in Suites, ScanClean(t) PROVE UserTracesSafe'
  BY <1>13 DEF ScanClean
<1>14. ASSUME NEW t \in Suites, Rescan(t) PROVE UserTracesSafe'
  BY <1>14 DEF Rescan
<1>15. ASSUME NEW t \in Suites, GraceExpires(t) PROVE UserTracesSafe'
  BY <1>15 DEF GraceExpires
<1>16. ASSUME NEW t \in Suites, Glob(t) PROVE UserTracesSafe'
  BY <1>16 DEF Glob
<1>17. ASSUME NEW t \in Suites, CollectOne(t) PROVE UserTracesSafe'
  BY <1>17 DEF CollectOne
<1>18. ASSUME NEW t \in Suites, CollectDone(t) PROVE UserTracesSafe'
  BY <1>18 DEF CollectDone
<1>19. ASSUME NEW t \in Suites, CleanupOne(t) PROVE UserTracesSafe'
  BY <1>19 DEF CleanupOne
<1>20. ASSUME NEW t \in Suites, CleanupDone(t) PROVE UserTracesSafe'
  BY <1>20 DEF CleanupDone
<1>21. ASSUME NEW t \in Suites, RestoreOne(t) PROVE UserTracesSafe'
  BY <1>21 DEF RestoreOne
<1>22. ASSUME NEW t \in Suites, RestoreDone(t) PROVE UserTracesSafe'
  BY <1>22 DEF RestoreDone
<1>23. ASSUME NEW t \in Suites, Release(t) PROVE UserTracesSafe'
  BY <1>23 DEF Release
<1>24. ASSUME NEW t \in Suites, SetupFails(t) PROVE UserTracesSafe'
  BY <1>24 DEF SetupFails
<1>25. ASSUME NEW t \in Suites, MoveFails(t) PROVE UserTracesSafe'
  BY <1>25 DEF MoveFails
<1>26. ASSUME NEW t \in Suites, LaunchFails(t) PROVE UserTracesSafe'
  BY <1>26 DEF LaunchFails
<1>26a. ASSUME NEW t \in Suites, LaunchInterrupted(t) PROVE UserTracesSafe'
  BY <1>26a DEF LaunchInterrupted
<1>27. ASSUME NEW t \in Suites, CollectFails(t) PROVE UserTracesSafe'
  BY <1>27 DEF CollectFails
<1>28. ASSUME NEW t \in Suites, CleanupFails(t) PROVE UserTracesSafe'
  BY <1>28 DEF CleanupFails, FinallyFails
<1>29. ASSUME NEW t \in Suites, RestoreFails(t) PROVE UserTracesSafe'
  BY <1>29 DEF RestoreFails, FinallyFails
<1>30. ASSUME NEW t \in Suites, InterruptWait(t) PROVE UserTracesSafe'
  BY <1>30 DEF InterruptWait
<1>31. ASSUME NEW t \in Suites, StopBroken(t) PROVE UserTracesSafe'
  BY <1>31 DEF StopBroken
<1>32. ASSUME NEW t \in Suites, Crash(t) PROVE UserTracesSafe'
  BY <1>32 DEF Crash
<1>33. ASSUME NEW q \in Pids, OpenTrace(q) PROVE UserTracesSafe'
  BY <1>33 DEF OpenTrace
<1>34. ASSUME NEW q \in Pids, Fork(q) PROVE UserTracesSafe'
  BY <1>34 DEF Fork
<1>35. ASSUME NEW q \in Pids, Exit(q) PROVE UserTracesSafe'
  BY <1>35 DEF Exit
<1>36. ASSUME NEW q \in Pids, Die(q) PROVE UserTracesSafe'
  BY <1>36 DEF Die
<1>37. ASSUME NEW q \in Pids, Reap(q) PROVE UserTracesSafe'
  BY <1>37 DEF Reap
<1>38. CASE UNCHANGED vars
  BY <1>38
<1> QED
  BY <1>1, <1>2, <1>3, <1>4, <1>5, <1>6, <1>7, <1>8, <1>9, <1>10, <1>11,
     <1>12, <1>13, <1>14, <1>15, <1>16, <1>17, <1>18, <1>19, <1>20, <1>21,
     <1>22, <1>23, <1>24, <1>25, <1>26, <1>26a, <1>27, <1>28, <1>29, <1>30, <1>31,
     <1>32, <1>33, <1>34, <1>35, <1>36, <1>37, <1>38,
     Zenon
  DEF Next, Step, Stop, Mishappen, Process

(* What a suite can see while it collects.                                 *)
LEMMA OwnerStep ==
  ASSUME TypeOK, LockInv, ActiveInv, UserPlaceInv, OwnerInv, [Next]_vars
  PROVE  OwnerInv'
<1> USE ConstantsAssumption, OwnersAssumption DEF TypeOK, Points, At, Goto, Mishap,
      LeaveBody, BeginStop, Exceptions, Stopped, ReapLeader, LeaderZombie,
      LockInv, HoldPoints, ReadyPoints, RunPoints, Graceful, NoFile, Contents, UserFile, Runs, OwnerInv, ActiveInv, Active, Live, Tag, OwnTag, AbandonedTag
<1>a. Abandoned \subseteq Abandoned'
  BY AbandonedGrows
<1> USE <1>a
<1>1. ASSUME NEW t \in Suites, Acquire(t) PROVE OwnerInv'
  BY <1>1 DEF Acquire, Present
<1>2. ASSUME NEW t \in Suites, LockBusy(t) PROVE OwnerInv'
  BY <1>2 DEF LockBusy
<1>3. ASSUME NEW t \in Suites, MoveOne(t) PROVE OwnerInv'
  BY <1>3 DEF MoveOne, Present
<1>4. ASSUME NEW t \in Suites, MoveDone(t) PROVE OwnerInv'
  BY <1>4 DEF MoveDone, UserPlaceInv, Tags
<1>5. ASSUME NEW t \in Suites, Launch(t) PROVE OwnerInv'
  BY <1>5 DEF Launch, UserPlaceInv
<1>6. ASSUME NEW t \in Suites, LeaderExited(t) PROVE OwnerInv'
  BY <1>6 DEF LeaderExited
<1>7. ASSUME NEW t \in Suites, TimeoutExpires(t) PROVE OwnerInv'
  BY <1>7 DEF TimeoutExpires
<1>8. ASSUME NEW t \in Suites, GroupGone(t) PROVE OwnerInv'
  <2>1. \A s \in Suites : pc'[s] = pc[s] \/ (s = t /\ pc'[s] \in {"glob", "cleanup"})
    BY <1>8 DEF GroupGone
  <2>2. UNCHANGED <<file, test>> /\ pc[t] \in RunPoints
    BY <1>8 DEF GroupGone
  <2>3. \A s \in Suites : At(s, "move")' => todo'[s] = todo[s]
    BY <1>8 DEF GroupGone
  <2> QED BY <2>1, <2>2, <2>3, ZenonT(30)
<1>9. ASSUME NEW t \in Suites, SignalGroup(t) PROVE OwnerInv'
  BY <1>9 DEF SignalGroup
<1>10. ASSUME NEW t \in Suites, ListProcesses(t) PROVE OwnerInv'
  BY <1>10 DEF ListProcesses
<1>11. ASSUME NEW t \in Suites, ScanPasses(t) PROVE OwnerInv'
  BY <1>11 DEF ScanPasses
<1>12. ASSUME NEW t \in Suites, ScanFinds(t) PROVE OwnerInv'
  BY <1>12 DEF ScanFinds
<1>13. ASSUME NEW t \in Suites, ScanClean(t) PROVE OwnerInv'
  <2>1. \A s \in Suites : pc'[s] = pc[s] \/ (s = t /\ pc'[s] \in {"glob", "cleanup"})
    BY <1>13 DEF ScanClean
  <2>2. UNCHANGED <<file, test>> /\ pc[t] \in RunPoints
    BY <1>13 DEF ScanClean
  <2>3. \A s \in Suites : At(s, "move")' => todo'[s] = todo[s]
    BY <1>13 DEF ScanClean
  <2> QED BY <2>1, <2>2, <2>3, ZenonT(30)
<1>14. ASSUME NEW t \in Suites, Rescan(t) PROVE OwnerInv'
  BY <1>14 DEF Rescan
<1>15. ASSUME NEW t \in Suites, GraceExpires(t) PROVE OwnerInv'
  <2>1. CASE sig[t] = "TERM"
    BY <1>15, <2>1 DEF GraceExpires
  <2>2. CASE sig[t] = "KILL"
    BY <1>15, <2>2 DEF GraceExpires
  <2> QED BY <2>1, <2>2
<1>16. ASSUME NEW t \in Suites, Glob(t) PROVE OwnerInv'
  BY <1>16 DEF Glob
<1>17. ASSUME NEW t \in Suites, CollectOne(t) PROVE OwnerInv'
  BY <1>17 DEF CollectOne
<1>18. ASSUME NEW t \in Suites, CollectDone(t) PROVE OwnerInv'
  BY <1>18 DEF CollectDone
<1>19. ASSUME NEW t \in Suites, CleanupOne(t) PROVE OwnerInv'
  BY <1>19 DEF CleanupOne
<1>20. ASSUME NEW t \in Suites, CleanupDone(t) PROVE OwnerInv'
  BY <1>20 DEF CleanupDone
<1>21. ASSUME NEW t \in Suites, RestoreOne(t) PROVE OwnerInv'
  BY <1>21 DEF RestoreOne
<1>22. ASSUME NEW t \in Suites, RestoreDone(t) PROVE OwnerInv'
  BY <1>22 DEF RestoreDone
<1>23. ASSUME NEW t \in Suites, Release(t) PROVE OwnerInv'
  BY <1>23 DEF Release
<1>24. ASSUME NEW t \in Suites, SetupFails(t) PROVE OwnerInv'
  BY <1>24 DEF SetupFails
<1>25. ASSUME NEW t \in Suites, MoveFails(t) PROVE OwnerInv'
  BY <1>25 DEF MoveFails
<1>26. ASSUME NEW t \in Suites, LaunchFails(t) PROVE OwnerInv'
  BY <1>26 DEF LaunchFails
<1>26a. ASSUME NEW t \in Suites, LaunchInterrupted(t) PROVE OwnerInv'
  BY <1>26a DEF LaunchInterrupted
<1>27. ASSUME NEW t \in Suites, CollectFails(t) PROVE OwnerInv'
  BY <1>27 DEF CollectFails
<1>28. ASSUME NEW t \in Suites, CleanupFails(t) PROVE OwnerInv'
  BY <1>28 DEF CleanupFails, FinallyFails
<1>29. ASSUME NEW t \in Suites, RestoreFails(t) PROVE OwnerInv'
  BY <1>29 DEF RestoreFails, FinallyFails
<1>30. ASSUME NEW t \in Suites, InterruptWait(t) PROVE OwnerInv'
  BY <1>30 DEF InterruptWait
<1>31. ASSUME NEW t \in Suites, StopBroken(t) PROVE OwnerInv'
  BY <1>31 DEF StopBroken
<1>32. ASSUME NEW t \in Suites, Crash(t) PROVE OwnerInv'
  BY <1>32 DEF Crash
<1>33. ASSUME NEW q \in Pids, OpenTrace(q) PROVE OwnerInv'
  <2>1. /\ Active(q)
        /\ UNCHANGED <<lock, test, pc, todo>>
        /\ \E w \in BOOLEAN : file' = [file EXCEPT ![q] = [by |-> group[q], whole |-> w]]
    BY <1>33 DEF OpenTrace
  <2>2. file'[q].by = group[q] /\ \A p \in Pids \ {q} : file'[p] = file[p]
    BY <2>1
  <2>3. \A s \in Suites : lock = s =>
          \/ group[q] = Tag(s) /\ pc[s] \in RunPoints
          \/ AbandonedTag(group[q])
    BY <2>1
  <2>4. \A s \in Suites : Tag(s)' = Tag(s) /\ (pc[s] \in HoldPoints => lock = s)
    BY <2>1
  <2>5. \A p \in Pids : AbandonedTag(file[p].by) => AbandonedTag(file[p].by)'  \/ p = q
    BY <2>2
  <2>6. AbandonedTag(group[q]) => AbandonedTag(group[q])'
    BY <1>33 DEF OpenTrace
  <2>7. AbandonedTag(group[q])' => AbandonedTag(file[q].by)'
    BY <1>33, <2>2 DEF OpenTrace
  <2> HIDE DEF AbandonedTag, Tag
  <2> QED BY <2>1, <2>2, <2>3, <2>4, <2>5, <2>6, <2>7
<1>34. ASSUME NEW q \in Pids, Fork(q) PROVE OwnerInv'
  BY <1>34 DEF Fork
<1>35. ASSUME NEW q \in Pids, Exit(q) PROVE OwnerInv'
  BY <1>35 DEF Exit
<1>36. ASSUME NEW q \in Pids, Die(q) PROVE OwnerInv'
  BY <1>36 DEF Die
<1>37. ASSUME NEW q \in Pids, Reap(q) PROVE OwnerInv'
  BY <1>37 DEF Reap
<1>38. CASE UNCHANGED vars
  BY <1>38 DEF Abandoned
<1> QED
  BY <1>1, <1>2, <1>3, <1>4, <1>5, <1>6, <1>7, <1>8, <1>9, <1>10, <1>11,
     <1>12, <1>13, <1>14, <1>15, <1>16, <1>17, <1>18, <1>19, <1>20, <1>21,
     <1>22, <1>23, <1>24, <1>25, <1>26, <1>26a, <1>27, <1>28, <1>29, <1>30, <1>31,
     <1>32, <1>33, <1>34, <1>35, <1>36, <1>37, <1>38,
     Zenon
  DEF Next, Step, Stop, Mishappen, Process

(* Rows come from the test's own traces.                                   *)
LEMMA CollectsOwnRowsStep ==
  ASSUME TypeOK, LockInv, UserPlaceInv, OwnerInv, CollectsOwnRows, [Next]_vars
  PROVE  CollectsOwnRows'
<1> USE ConstantsAssumption, OwnersAssumption DEF TypeOK, Points, At, Goto, Mishap,
      LeaveBody, BeginStop, Exceptions, Stopped, ReapLeader, LeaderZombie,
      LockInv, HoldPoints, ReadyPoints, RunPoints, Graceful, UserFile, Runs, Present, Moved, Contents, NoFile, Tags,
      UserPlaceInv, OwnerInv, CollectsOwnRows, Tag, AbandonedTag
<1>a. Abandoned \subseteq Abandoned'
  BY AbandonedGrows
<1> USE <1>a
<1>1. ASSUME NEW t \in Suites, Acquire(t) PROVE CollectsOwnRows'
  BY <1>1 DEF Acquire
<1>2. ASSUME NEW t \in Suites, LockBusy(t) PROVE CollectsOwnRows'
  BY <1>2 DEF LockBusy
<1>3. ASSUME NEW t \in Suites, MoveOne(t) PROVE CollectsOwnRows'
  BY <1>3 DEF MoveOne
<1>4. ASSUME NEW t \in Suites, MoveDone(t) PROVE CollectsOwnRows'
  BY <1>4 DEF MoveDone
<1>5. ASSUME NEW t \in Suites, Launch(t) PROVE CollectsOwnRows'
  BY <1>5 DEF Launch
<1>6. ASSUME NEW t \in Suites, LeaderExited(t) PROVE CollectsOwnRows'
  BY <1>6 DEF LeaderExited
<1>7. ASSUME NEW t \in Suites, TimeoutExpires(t) PROVE CollectsOwnRows'
  BY <1>7 DEF TimeoutExpires
<1>8. ASSUME NEW t \in Suites, GroupGone(t) PROVE CollectsOwnRows'
  BY <1>8 DEF GroupGone
<1>9. ASSUME NEW t \in Suites, SignalGroup(t) PROVE CollectsOwnRows'
  BY <1>9 DEF SignalGroup
<1>10. ASSUME NEW t \in Suites, ListProcesses(t) PROVE CollectsOwnRows'
  BY <1>10 DEF ListProcesses
<1>11. ASSUME NEW t \in Suites, ScanPasses(t) PROVE CollectsOwnRows'
  BY <1>11 DEF ScanPasses
<1>12. ASSUME NEW t \in Suites, ScanFinds(t) PROVE CollectsOwnRows'
  BY <1>12 DEF ScanFinds
<1>13. ASSUME NEW t \in Suites, ScanClean(t) PROVE CollectsOwnRows'
  BY <1>13 DEF ScanClean
<1>14. ASSUME NEW t \in Suites, Rescan(t) PROVE CollectsOwnRows'
  BY <1>14 DEF Rescan
<1>15. ASSUME NEW t \in Suites, GraceExpires(t) PROVE CollectsOwnRows'
  BY <1>15 DEF GraceExpires
<1>16. ASSUME NEW t \in Suites, Glob(t) PROVE CollectsOwnRows'
  BY <1>16 DEF Glob
<1>17. ASSUME NEW t \in Suites, CollectOne(t) PROVE CollectsOwnRows'
  <2>1. PICK p \in Pids : \/ read' = [read EXCEPT ![t] = @ \cup {file[p].by}] /\ file[p].by # Nobody
                          \/ read' = read
    BY <1>17, ZenonT(30) DEF CollectOne
  <2>2. At(t, "collect") /\ test' = test
    BY <1>17 DEF CollectOne
  <2>3. file[p].by \in {Nobody, Tag(t)} \/ AbandonedTag(file[p].by)
    BY <2>2
  <2> HIDE DEF Tag
  <2>4. Tag(t)' = Tag(t) /\ \A s \in Suites : Tag(s)' = Tag(s)
    BY <2>2 DEF Tag
  <2>5. \A s \in Suites : \A o \in read'[s] :
          o \in read[s] \/ (s = t /\ o = file[p].by /\ o # Nobody)
    BY <2>1
  <2>6. \A o : AbandonedTag(o) => o \in Tags /\ o[1] \in Abandoned'
    BY <1>a
  <2> HIDE DEF TypeOK, AbandonedTag
  <2> QED BY <1>a, <2>3, <2>4, <2>5, <2>6
<1>18. ASSUME NEW t \in Suites, CollectDone(t) PROVE CollectsOwnRows'
  BY <1>18 DEF CollectDone
<1>19. ASSUME NEW t \in Suites, CleanupOne(t) PROVE CollectsOwnRows'
  BY <1>19 DEF CleanupOne
<1>20. ASSUME NEW t \in Suites, CleanupDone(t) PROVE CollectsOwnRows'
  BY <1>20 DEF CleanupDone
<1>21. ASSUME NEW t \in Suites, RestoreOne(t) PROVE CollectsOwnRows'
  BY <1>21 DEF RestoreOne
<1>22. ASSUME NEW t \in Suites, RestoreDone(t) PROVE CollectsOwnRows'
  BY <1>22 DEF RestoreDone
<1>23. ASSUME NEW t \in Suites, Release(t) PROVE CollectsOwnRows'
  <2>1. \A s \in Suites : read'[s] \subseteq read[s] /\ test'[s] = test[s]
    <3>1. test' = test /\ (read' = read \/ read' = [read EXCEPT ![t] = {}])
      BY <1>23 DEF Release
    <3>2. test' = test
      BY <3>1
    <3>3. ASSUME NEW s \in Suites PROVE read'[s] \subseteq read[s]
      <4>1. read \in [Suites -> SUBSET (Tags \cup {User})]
        OBVIOUS
      <4> HIDE DEF TypeOK, Tags, CollectsOwnRows
      <4> QED BY <3>1, <4>1
    <3> QED BY <3>2, <3>3
  <2> QED BY <2>1
<1>24. ASSUME NEW t \in Suites, SetupFails(t) PROVE CollectsOwnRows'
  BY <1>24 DEF SetupFails
<1>25. ASSUME NEW t \in Suites, MoveFails(t) PROVE CollectsOwnRows'
  BY <1>25 DEF MoveFails
<1>26. ASSUME NEW t \in Suites, LaunchFails(t) PROVE CollectsOwnRows'
  BY <1>26 DEF LaunchFails
<1>26a. ASSUME NEW t \in Suites, LaunchInterrupted(t) PROVE CollectsOwnRows'
  BY <1>26a DEF LaunchInterrupted
<1>27. ASSUME NEW t \in Suites, CollectFails(t) PROVE CollectsOwnRows'
  BY <1>27 DEF CollectFails
<1>28. ASSUME NEW t \in Suites, CleanupFails(t) PROVE CollectsOwnRows'
  BY <1>28 DEF CleanupFails, FinallyFails
<1>29. ASSUME NEW t \in Suites, RestoreFails(t) PROVE CollectsOwnRows'
  BY <1>29 DEF RestoreFails, FinallyFails
<1>30. ASSUME NEW t \in Suites, InterruptWait(t) PROVE CollectsOwnRows'
  BY <1>30 DEF InterruptWait
<1>31. ASSUME NEW t \in Suites, StopBroken(t) PROVE CollectsOwnRows'
  BY <1>31 DEF StopBroken
<1>32. ASSUME NEW t \in Suites, Crash(t) PROVE CollectsOwnRows'
  BY <1>32 DEF Crash
<1>33. ASSUME NEW q \in Pids, OpenTrace(q) PROVE CollectsOwnRows'
  BY <1>33 DEF OpenTrace
<1>34. ASSUME NEW q \in Pids, Fork(q) PROVE CollectsOwnRows'
  BY <1>34 DEF Fork
<1>35. ASSUME NEW q \in Pids, Exit(q) PROVE CollectsOwnRows'
  BY <1>35 DEF Exit
<1>36. ASSUME NEW q \in Pids, Die(q) PROVE CollectsOwnRows'
  BY <1>36 DEF Die
<1>37. ASSUME NEW q \in Pids, Reap(q) PROVE CollectsOwnRows'
  BY <1>37 DEF Reap
<1>38. CASE UNCHANGED vars
  BY <1>38 DEF Abandoned
<1> QED
  BY <1>1, <1>2, <1>3, <1>4, <1>5, <1>6, <1>7, <1>8, <1>9, <1>10, <1>11,
     <1>12, <1>13, <1>14, <1>15, <1>16, <1>17, <1>18, <1>19, <1>20, <1>21,
     <1>22, <1>23, <1>24, <1>25, <1>26, <1>26a, <1>27, <1>28, <1>29, <1>30, <1>31,
     <1>32, <1>33, <1>34, <1>35, <1>36, <1>37, <1>38,
     Zenon
  DEF Next, Step, Stop, Mishappen, Process

(* A passed test keeps its rows.                                           *)
LEMMA VerdictStep ==
  ASSUME TypeOK, LockInv, VerdictInv, [Next]_vars
  PROVE  VerdictInv'
<1> USE ConstantsAssumption, OwnersAssumption DEF TypeOK, Points, At, Goto, Mishap,
      LeaveBody, BeginStop, Exceptions, Stopped, ReapLeader, LeaderZombie,
      LockInv, HoldPoints, ReadyPoints, RunPoints, Graceful, VerdictInv, Present
<1>1. ASSUME NEW t \in Suites, Acquire(t) PROVE VerdictInv'
  BY <1>1 DEF Acquire
<1>2. ASSUME NEW t \in Suites, LockBusy(t) PROVE VerdictInv'
  BY <1>2 DEF LockBusy
<1>3. ASSUME NEW t \in Suites, MoveOne(t) PROVE VerdictInv'
  BY <1>3 DEF MoveOne
<1>4. ASSUME NEW t \in Suites, MoveDone(t) PROVE VerdictInv'
  BY <1>4 DEF MoveDone
<1>5. ASSUME NEW t \in Suites, Launch(t) PROVE VerdictInv'
  BY <1>5 DEF Launch
<1>6. ASSUME NEW t \in Suites, LeaderExited(t) PROVE VerdictInv'
  BY <1>6 DEF LeaderExited
<1>7. ASSUME NEW t \in Suites, TimeoutExpires(t) PROVE VerdictInv'
  BY <1>7 DEF TimeoutExpires
<1>8. ASSUME NEW t \in Suites, GroupGone(t) PROVE VerdictInv'
  BY <1>8 DEF GroupGone
<1>9. ASSUME NEW t \in Suites, SignalGroup(t) PROVE VerdictInv'
  BY <1>9 DEF SignalGroup
<1>10. ASSUME NEW t \in Suites, ListProcesses(t) PROVE VerdictInv'
  BY <1>10 DEF ListProcesses
<1>11. ASSUME NEW t \in Suites, ScanPasses(t) PROVE VerdictInv'
  BY <1>11 DEF ScanPasses
<1>12. ASSUME NEW t \in Suites, ScanFinds(t) PROVE VerdictInv'
  BY <1>12 DEF ScanFinds
<1>13. ASSUME NEW t \in Suites, ScanClean(t) PROVE VerdictInv'
  BY <1>13 DEF ScanClean
<1>14. ASSUME NEW t \in Suites, Rescan(t) PROVE VerdictInv'
  BY <1>14 DEF Rescan
<1>15. ASSUME NEW t \in Suites, GraceExpires(t) PROVE VerdictInv'
  BY <1>15 DEF GraceExpires
<1>16. ASSUME NEW t \in Suites, Glob(t) PROVE VerdictInv'
  BY <1>16 DEF Glob
<1>17. ASSUME NEW t \in Suites, CollectOne(t) PROVE VerdictInv'
  <2>1. PICK p \in Pids :
          \/ read' = [read EXCEPT ![t] = @ \cup {file[p].by}] /\ UNCHANGED status
          \/ status' = [status EXCEPT ![t] =
                          IF @ = "passed" THEN "runner-error" ELSE @] /\ UNCHANGED read
    BY <1>17 DEF CollectOne
  <2>2. \A s \in Suites : s # t => todo'[s] = todo[s]
    BY <1>17 DEF CollectOne
  <2>3. pc' = pc /\ err' = err /\ pc[t] = "collect"
    BY <1>17 DEF CollectOne
  <2>4. status'[t] = "passed" => read'[t] # {}
    <3>1. ASSUME read' = [read EXCEPT ![t] = @ \cup {file[p].by}] PROVE read'[t] # {}
      <4>1. file[p].by \in read'[t]
        BY <3>1
      <4> QED BY <4>1
    <3>2. ASSUME status' = [status EXCEPT ![t] =
                            IF @ = "passed" THEN "runner-error" ELSE @]
          PROVE  status'[t] # "passed"
      BY <3>2
    <3> QED BY <2>1, <3>1, <3>2
  <2>5. \A s \in Suites : s # t => status'[s] = status[s] /\ read'[s] = read[s]
    BY <2>1
  <2> QED BY <2>2, <2>3, <2>4, <2>5
<1>18. ASSUME NEW t \in Suites, CollectDone(t) PROVE VerdictInv'
  BY <1>18, ZenonT(30) DEF CollectDone
<1>19. ASSUME NEW t \in Suites, CleanupOne(t) PROVE VerdictInv'
  BY <1>19 DEF CleanupOne
<1>20. ASSUME NEW t \in Suites, CleanupDone(t) PROVE VerdictInv'
  BY <1>20 DEF CleanupDone
<1>21. ASSUME NEW t \in Suites, RestoreOne(t) PROVE VerdictInv'
  BY <1>21 DEF RestoreOne
<1>22. ASSUME NEW t \in Suites, RestoreDone(t) PROVE VerdictInv'
  BY <1>22 DEF RestoreDone
<1>23. ASSUME NEW t \in Suites, Release(t) PROVE VerdictInv'
  BY <1>23 DEF Release
<1>24. ASSUME NEW t \in Suites, SetupFails(t) PROVE VerdictInv'
  BY <1>24, SMTT(30) DEF SetupFails
<1>25. ASSUME NEW t \in Suites, MoveFails(t) PROVE VerdictInv'
  BY <1>25 DEF MoveFails
<1>26. ASSUME NEW t \in Suites, LaunchFails(t) PROVE VerdictInv'
  BY <1>26 DEF LaunchFails
<1>26a. ASSUME NEW t \in Suites, LaunchInterrupted(t) PROVE VerdictInv'
  BY <1>26a DEF LaunchInterrupted
<1>27. ASSUME NEW t \in Suites, CollectFails(t) PROVE VerdictInv'
  BY <1>27 DEF CollectFails
<1>28. ASSUME NEW t \in Suites, CleanupFails(t) PROVE VerdictInv'
  BY <1>28 DEF CleanupFails, FinallyFails
<1>29. ASSUME NEW t \in Suites, RestoreFails(t) PROVE VerdictInv'
  BY <1>29 DEF RestoreFails, FinallyFails
<1>30. ASSUME NEW t \in Suites, InterruptWait(t) PROVE VerdictInv'
  BY <1>30 DEF InterruptWait
<1>31. ASSUME NEW t \in Suites, StopBroken(t) PROVE VerdictInv'
  BY <1>31 DEF StopBroken
<1>32. ASSUME NEW t \in Suites, Crash(t) PROVE VerdictInv'
  BY <1>32 DEF Crash
<1>33. ASSUME NEW q \in Pids, OpenTrace(q) PROVE VerdictInv'
  BY <1>33 DEF OpenTrace
<1>34. ASSUME NEW q \in Pids, Fork(q) PROVE VerdictInv'
  BY <1>34 DEF Fork
<1>35. ASSUME NEW q \in Pids, Exit(q) PROVE VerdictInv'
  BY <1>35 DEF Exit
<1>36. ASSUME NEW q \in Pids, Die(q) PROVE VerdictInv'
  BY <1>36 DEF Die
<1>37. ASSUME NEW q \in Pids, Reap(q) PROVE VerdictInv'
  BY <1>37 DEF Reap
<1>38. CASE UNCHANGED vars
  BY <1>38
<1> QED
  BY <1>1, <1>2, <1>3, <1>4, <1>5, <1>6, <1>7, <1>8, <1>9, <1>10, <1>11,
     <1>12, <1>13, <1>14, <1>15, <1>16, <1>17, <1>18, <1>19, <1>20, <1>21,
     <1>22, <1>23, <1>24, <1>25, <1>26, <1>26a, <1>27, <1>28, <1>29, <1>30, <1>31,
     <1>32, <1>33, <1>34, <1>35, <1>36, <1>37, <1>38,
     Zenon
  DEF Next, Step, Stop, Mishappen, Process

(* A test still called passed has read whole traces only.                  *)
LEMMA WholeStep ==
  ASSUME TypeOK, LockInv, ActiveInv, WholeInv, [Next]_vars
  PROVE  WholeInv'
<1> USE ConstantsAssumption, OwnersAssumption DEF TypeOK, Points, At, Goto, Mishap,
      LeaveBody, BeginStop, Exceptions, Stopped, ReapLeader, LeaderZombie,
      LockInv, HoldPoints, ReadyPoints, RunPoints, Graceful, WholeInv, Runs, Tag
<1>a. Present \subseteq Pids
  BY DEF Present
<1>b. \A s \in Suites : lock = s =>
        Tag(s) # Nobody /\ \A p \in Pids : file[p].by = Tag(s) => p \in Present
  <2>1. \A s \in Suites : lock = s => Tag(s) \in Tags
    BY DEF Tags
  <2> HIDE DEF Tag
  <2> QED BY <2>1 DEF Present
<1>c. test' = test => \A s : Tag(s)' = Tag(s)
  OBVIOUS
<1> USE <1>c
<1> HIDE DEF Tag
<1>1. ASSUME NEW t \in Suites, Acquire(t) PROVE WholeInv'
  BY <1>1 DEF Acquire
<1>2. ASSUME NEW t \in Suites, LockBusy(t) PROVE WholeInv'
  BY <1>2 DEF LockBusy
<1>3. ASSUME NEW t \in Suites, MoveOne(t) PROVE WholeInv'
  BY <1>3 DEF MoveOne
<1>4. ASSUME NEW t \in Suites, MoveDone(t) PROVE WholeInv'
  BY <1>4 DEF MoveDone
<1>5. ASSUME NEW t \in Suites, Launch(t) PROVE WholeInv'
  BY <1>5 DEF Launch
<1>6. ASSUME NEW t \in Suites, LeaderExited(t) PROVE WholeInv'
  BY <1>6 DEF LeaderExited
<1>7. ASSUME NEW t \in Suites, TimeoutExpires(t) PROVE WholeInv'
  BY <1>7 DEF TimeoutExpires
<1>8. ASSUME NEW t \in Suites, GroupGone(t) PROVE WholeInv'
  <2>1. CASE err[t] = "interrupt"
    BY <1>8, <2>1 DEF GroupGone
  <2>2. CASE err[t] # "interrupt"
    BY <1>8, <2>2 DEF GroupGone
  <2> QED BY <2>1, <2>2
<1>9. ASSUME NEW t \in Suites, SignalGroup(t) PROVE WholeInv'
  BY <1>9 DEF SignalGroup
<1>10. ASSUME NEW t \in Suites, ListProcesses(t) PROVE WholeInv'
  BY <1>10 DEF ListProcesses
<1>11. ASSUME NEW t \in Suites, ScanPasses(t) PROVE WholeInv'
  BY <1>11 DEF ScanPasses
<1>12. ASSUME NEW t \in Suites, ScanFinds(t) PROVE WholeInv'
  BY <1>12 DEF ScanFinds
<1>13. ASSUME NEW t \in Suites, ScanClean(t) PROVE WholeInv'
  <2>1. UNCHANGED <<file, test, status>> /\ pc[t] = "scan"
        /\ \A s \in Suites : s # t => pc'[s] = pc[s] /\ err'[s] = err[s] /\ todo'[s] = todo[s]
    BY <1>13 DEF ScanClean
  <2>2. pc'[t] = "glob" \/ (pc'[t] = "cleanup" /\ err'[t] # "none")
    BY <1>13 DEF ScanClean
  <2> HIDE DEF TypeOK
  <2> QED BY <2>1, <2>2
<1>14. ASSUME NEW t \in Suites, Rescan(t) PROVE WholeInv'
  BY <1>14 DEF Rescan
<1>15. ASSUME NEW t \in Suites, GraceExpires(t) PROVE WholeInv'
  BY <1>15 DEF GraceExpires
<1>16. ASSUME NEW t \in Suites, Glob(t) PROVE WholeInv'
  <2>1. /\ UNCHANGED <<file, test, err>> /\ lock = t
        /\ todo' = [todo EXCEPT ![t] = Present] /\ pc' = [pc EXCEPT ![t] = "collect"]
        /\ \A s \in Suites : s # t => status'[s] = status[s]
    BY <1>16 DEF Glob
  <2> QED BY <1>a, <1>b, <2>1
<1>17. ASSUME NEW t \in Suites, CollectOne(t) PROVE WholeInv'
  BY <1>17 DEF CollectOne
<1>18. ASSUME NEW t \in Suites, CollectDone(t) PROVE WholeInv'
  BY <1>18 DEF CollectDone
<1>19. ASSUME NEW t \in Suites, CleanupOne(t) PROVE WholeInv'
  <2>1. PICK r \in Pids : file' = [file EXCEPT ![r] = NoFile]
    BY <1>19 DEF CleanupOne
  <2>2. UNCHANGED <<pc, test, err, status, lock>> /\ lock = t
    BY <1>19 DEF CleanupOne
  <2>3. \A s \in Suites : pc[s] \in HoldPoints => s = t
    BY <2>2
  <2>4. \A p \in Pids : file'[p].by = Tag(t) => file'[p] = file[p]
    BY <1>b, <2>1, <2>2 DEF NoFile
  <2>5. pc[t] = "cleanup"
    BY <1>19 DEF CleanupOne
  <2> QED BY <2>2, <2>3, <2>4, <2>5
<1>20. ASSUME NEW t \in Suites, CleanupDone(t) PROVE WholeInv'
  BY <1>20 DEF CleanupDone
<1>21. ASSUME NEW t \in Suites, RestoreOne(t) PROVE WholeInv'
  BY <1>21 DEF RestoreOne
<1>22. ASSUME NEW t \in Suites, RestoreDone(t) PROVE WholeInv'
  BY <1>22 DEF RestoreDone
<1>23. ASSUME NEW t \in Suites, Release(t) PROVE WholeInv'
  BY <1>23 DEF Release
<1>24. ASSUME NEW t \in Suites, SetupFails(t) PROVE WholeInv'
  <2>1. /\ UNCHANGED <<file, pc, err, todo>> /\ pc[t] = "idle"
        /\ \A s \in Suites : s # t => test'[s] = test[s] /\ status'[s] = status[s]
    BY <1>24 DEF SetupFails
  <2>2. \A s \in Suites : s # t => Tag(s)' = Tag(s)
    BY <2>1 DEF Tag
  <2> QED BY <2>1, <2>2
<1>25. ASSUME NEW t \in Suites, MoveFails(t) PROVE WholeInv'
  BY <1>25 DEF MoveFails
<1>26. ASSUME NEW t \in Suites, LaunchFails(t) PROVE WholeInv'
  BY <1>26 DEF LaunchFails
<1>26a. ASSUME NEW t \in Suites, LaunchInterrupted(t) PROVE WholeInv'
  BY <1>26a DEF LaunchInterrupted
<1>27. ASSUME NEW t \in Suites, CollectFails(t) PROVE WholeInv'
  BY <1>27 DEF CollectFails
<1>28. ASSUME NEW t \in Suites, CleanupFails(t) PROVE WholeInv'
  BY <1>28 DEF CleanupFails, FinallyFails
<1>29. ASSUME NEW t \in Suites, RestoreFails(t) PROVE WholeInv'
  BY <1>29 DEF RestoreFails, FinallyFails
<1>30. ASSUME NEW t \in Suites, InterruptWait(t) PROVE WholeInv'
  BY <1>30 DEF InterruptWait
<1>31. ASSUME NEW t \in Suites, StopBroken(t) PROVE WholeInv'
  BY <1>31 DEF StopBroken
<1>32. ASSUME NEW t \in Suites, Crash(t) PROVE WholeInv'
  BY <1>32 DEF Crash
<1>33. ASSUME NEW q \in Pids, OpenTrace(q) PROVE WholeInv'
  <2>1. /\ UNCHANGED <<suiteVars, lock>>
        /\ \A p \in Pids : file'[p] = file[p] \/ file'[p].by = group[q]
    BY <1>33 DEF OpenTrace
  <2>2. Active(q)
    BY <1>33 DEF OpenTrace, Active, Live
  <2>3. ASSUME NEW s \in Suites, At(s, "collect") \/ (At(s, "cleanup") /\ err[s] = "none")
        PROVE  group[q] # Tag(s)
    <3>1. lock = s /\ pc[s] \notin RunPoints /\ err[s] # "abandon" /\ pc[s] # "crashed"
      BY <2>3
    <3>2. s \notin Abandoned
      BY <3>1 DEF Abandoned
    <3>3. (OwnTag(group[q]) /\ pc[lock] \in RunPoints) \/ AbandonedTag(group[q])
      BY <2>2 DEF ActiveInv
    <3> QED BY <3>1, <3>2, <3>3 DEF AbandonedTag, Tag
  <2> HIDE DEF TypeOK
  <2> QED BY <2>1, <2>3
<1>34. ASSUME NEW q \in Pids, Fork(q) PROVE WholeInv'
  BY <1>34 DEF Fork
<1>35. ASSUME NEW q \in Pids, Exit(q) PROVE WholeInv'
  BY <1>35 DEF Exit
<1>36. ASSUME NEW q \in Pids, Die(q) PROVE WholeInv'
  BY <1>36 DEF Die
<1>37. ASSUME NEW q \in Pids, Reap(q) PROVE WholeInv'
  BY <1>37 DEF Reap
<1>38. CASE UNCHANGED vars
  BY <1>38 DEF Tag
<1> QED
  BY <1>1, <1>2, <1>3, <1>4, <1>5, <1>6, <1>7, <1>8, <1>9, <1>10, <1>11,
     <1>12, <1>13, <1>14, <1>15, <1>16, <1>17, <1>18, <1>19, <1>20, <1>21,
     <1>22, <1>23, <1>24, <1>25, <1>26, <1>26a, <1>27, <1>28, <1>29, <1>30, <1>31,
     <1>32, <1>33, <1>34, <1>35, <1>36, <1>37, <1>38,
     Zenon
  DEF Next, Step, Stop, Mishappen, Process

(* A test that has not started has left nothing.                           *)
LEMMA FreshStep ==
  ASSUME TypeOK, LockInv, ActiveInv, FreshInv, [Next]_vars
  PROVE  FreshInv'
<1> USE ConstantsAssumption, OwnersAssumption DEF TypeOK, Points, At, Goto, Mishap,
      LeaveBody, BeginStop, Exceptions, Stopped, ReapLeader, LeaderZombie, Runs, FreshInv
<1>a. \A s \in Suites : UpTo(Nobody, s, test[s]) /\ (lock = s => Tag(s) \in Tags /\ Nobody # Tag(s))
  BY DEF UpTo, Tag, Tags, LockInv, HoldPoints
<1>b. test' = test => \A s : Tag(s)' = Tag(s)
  BY DEF Tag
<1>c. NoFile.by = Nobody
  BY DEF NoFile
<1>d. ASSUME NEW t \in Suites, test' = [test EXCEPT ![t] = @ + 1]
      PROVE  \A o, s : s \in Suites /\ UpTo(o, s, test[s]) => UpTo(o, s, test'[s])
  <2>1. \A s \in Suites : test[s] \in Nat /\ test'[s] \in Nat /\ test'[s] >= test[s]
    BY <1>d
  <2>2. \A o \in Tags : o[2] \in Nat
    BY DEF Tags
  <2> QED BY <2>1, <2>2 DEF UpTo
<1> USE <1>b, <1>c
<1> USE <1>a
<1>1. ASSUME NEW t \in Suites, Acquire(t) PROVE FreshInv'
  <2>1. lock' = t /\ test' = [test EXCEPT ![t] = @ + 1] /\ UNCHANGED <<file, backup, group>>
    BY <1>1 DEF Acquire
  <2>2. ASSUME NEW o, UpTo(o, t, test[t]), o = Tag(t)' PROVE FALSE
    <3>1. test[t] \in Nat /\ test[t] < MaxTests
      BY <1>1 DEF Acquire
    <3>2. o \in Tags /\ o[1] = t /\ o[2] = test[t] + 1
      BY <2>1, <2>2, <3>1 DEF Tag, Tags
    <3> QED BY <2>2, <3>1, <3>2 DEF UpTo
  <2>3. \A o, s : s \in Suites /\ UpTo(o, s, test[s]) => UpTo(o, s, test'[s])
    BY <1>d, <2>1
  <2>4. \A s \in Suites : s # t => pc'[s] = pc[s] /\ pc[s] # "move"
    BY <1>1 DEF Acquire, LockInv, HoldPoints
  <2>5. \A p \in Pids : file[p].by # Tag(t)' /\ backup[t][p].by # Tag(t)'
    BY <2>2
  <2> HIDE DEF TypeOK
  <2> QED BY <2>1, <2>3, <2>4, <2>5
<1>2. ASSUME NEW t \in Suites, LockBusy(t) PROVE FreshInv'
  BY <1>2 DEF LockBusy
<1>3. ASSUME NEW t \in Suites, MoveOne(t) PROVE FreshInv'
  <2>1. PICK r \in Pids : /\ backup' = [backup EXCEPT ![t][r] = file[r]]
                          /\ file' = [file EXCEPT ![r] = NoFile]
    BY <1>3 DEF MoveOne, Present
  <2>2. /\ UNCHANGED <<group, test, lock, pc>> /\ lock = t /\ pc[t] = "move"
        /\ \A s \in Suites : pc[s] = "move" => lock = s
    BY <1>3 DEF MoveOne, LockInv, HoldPoints
  <2>3. file[r].by # Tag(t)
    BY <2>2
  <2>4. \A s \in Suites, p \in Pids :
          /\ file'[p] \in {file[p], NoFile}
          /\ backup'[s][p] = IF s = t /\ p = r THEN file[r] ELSE backup[s][p]
    BY <2>1
  <2> HIDE DEF TypeOK
  <2> QED BY <1>a, <2>2, <2>3, <2>4
<1>4. ASSUME NEW t \in Suites, MoveDone(t) PROVE FreshInv'
  BY <1>4 DEF MoveDone
<1>5. ASSUME NEW t \in Suites, Launch(t) PROVE FreshInv'
  <2>1. PICK r \in Pids : group' = [group EXCEPT ![r] = Tag(t)]
    BY <1>5 DEF Launch
  <2>2. UNCHANGED <<file, backup, test, lock>> /\ \A s \in Suites : pc'[s] = "move" => pc[s] = "move"
    BY <1>5 DEF Launch
  <2>3. \A s \in Suites : UpTo(Tag(t), s, test[s])
    <3>1. \A s \in Suites : test[s] \in Nat
      OBVIOUS
    <3> QED BY <3>1 DEF UpTo, Tag
  <2>4. \A p \in Pids : group'[p] \in {group[p], Tag(t)}
    BY <2>1
  <2> HIDE DEF TypeOK
  <2> QED BY <2>2, <2>3, <2>4
<1>6. ASSUME NEW t \in Suites, LeaderExited(t) PROVE FreshInv'
  <2>1. \A p \in Pids : group'[p] \in {group[p], Nobody}
    BY <1>6 DEF LeaderExited
  <2>2. UNCHANGED <<backup, file, test, lock>>
    BY <1>6 DEF LeaderExited
  <2>3. \A s \in Suites : pc'[s] = "move" => pc[s] = "move"
    BY <1>6 DEF LeaderExited
  <2> HIDE DEF TypeOK
  <2> QED BY <1>a, <2>1, <2>2, <2>3
<1>7. ASSUME NEW t \in Suites, TimeoutExpires(t) PROVE FreshInv'
  BY <1>7 DEF TimeoutExpires
<1>8. ASSUME NEW t \in Suites, GroupGone(t) PROVE FreshInv'
  BY <1>8 DEF GroupGone
<1>9. ASSUME NEW t \in Suites, SignalGroup(t) PROVE FreshInv'
  BY <1>9 DEF SignalGroup
<1>10. ASSUME NEW t \in Suites, ListProcesses(t) PROVE FreshInv'
  <2>1. test' = test /\ lock' = lock /\ file' = file /\ backup' = backup
    BY <1>10 DEF ListProcesses
  <2>2. \A p \in Pids : group'[p] \in {group[p], Nobody}
    BY <1>10 DEF ListProcesses
  <2>3. \A s \in Suites : pc'[s] = "move" => pc[s] = "move"
    BY <1>10 DEF ListProcesses
  <2> HIDE DEF TypeOK
  <2> QED BY <1>a, <2>1, <2>2, <2>3
<1>11. ASSUME NEW t \in Suites, ScanPasses(t) PROVE FreshInv'
  BY <1>11 DEF ScanPasses
<1>12. ASSUME NEW t \in Suites, ScanFinds(t) PROVE FreshInv'
  BY <1>12 DEF ScanFinds
<1>13. ASSUME NEW t \in Suites, ScanClean(t) PROVE FreshInv'
  <2>1. test' = test /\ lock' = lock /\ file' = file /\ backup' = backup
    BY <1>13 DEF ScanClean
  <2>2. \A p \in Pids : group'[p] \in {group[p], Nobody}
    BY <1>13 DEF ScanClean
  <2>3. \A s \in Suites : pc'[s] = "move" => pc[s] = "move"
    BY <1>13 DEF ScanClean
  <2> HIDE DEF TypeOK
  <2> QED BY <1>a, <2>1, <2>2, <2>3
<1>14. ASSUME NEW t \in Suites, Rescan(t) PROVE FreshInv'
  BY <1>14 DEF Rescan
<1>15. ASSUME NEW t \in Suites, GraceExpires(t) PROVE FreshInv'
  BY <1>15 DEF GraceExpires
<1>16. ASSUME NEW t \in Suites, Glob(t) PROVE FreshInv'
  BY <1>16 DEF Glob
<1>17. ASSUME NEW t \in Suites, CollectOne(t) PROVE FreshInv'
  BY <1>17 DEF CollectOne
<1>18. ASSUME NEW t \in Suites, CollectDone(t) PROVE FreshInv'
  BY <1>18 DEF CollectDone
<1>19. ASSUME NEW t \in Suites, CleanupOne(t) PROVE FreshInv'
  <2>1. \A p \in Pids : file'[p] \in {file[p], NoFile}
    BY <1>19 DEF CleanupOne
  <2>2. UNCHANGED <<backup, group, test, lock, pc>> /\ \A s \in Suites : pc[s] = "move" => lock = s
    BY <1>19 DEF CleanupOne, LockInv, HoldPoints
  <2> HIDE DEF TypeOK
  <2> QED BY <1>a, <2>1, <2>2
<1>20. ASSUME NEW t \in Suites, CleanupDone(t) PROVE FreshInv'
  BY <1>20 DEF CleanupDone
<1>21. ASSUME NEW t \in Suites, RestoreOne(t) PROVE FreshInv'
  <2>1. PICK r \in Pids : /\ file' = [file EXCEPT ![r] = backup[t][r]]
                          /\ backup' = [backup EXCEPT ![t][r] = NoFile]
    BY <1>21 DEF RestoreOne, Moved
  <2>2. UNCHANGED <<group, test, lock, pc>> /\ \A s \in Suites : pc[s] # "move"
    BY <1>21 DEF RestoreOne, LockInv, HoldPoints
  <2>3. \A s \in Suites, p \in Pids :
          /\ file'[p] \in {file[p], backup[t][p]}
          /\ backup'[s][p] \in {backup[s][p], NoFile}
    BY <2>1
  <2> HIDE DEF TypeOK
  <2> QED BY <1>a, <2>2, <2>3
<1>22. ASSUME NEW t \in Suites, RestoreDone(t) PROVE FreshInv'
  BY <1>22 DEF RestoreDone
<1>23. ASSUME NEW t \in Suites, Release(t) PROVE FreshInv'
  BY <1>23 DEF Release
<1>24. ASSUME NEW t \in Suites, SetupFails(t) PROVE FreshInv'
  <2>1. UNCHANGED <<file, backup, group, lock>> /\ test' = [test EXCEPT ![t] = @ + 1]
    BY <1>24 DEF SetupFails
  <2>2. lock # t
    BY <1>24 DEF SetupFails, LockInv, HoldPoints, ReadyPoints, RunPoints
  <2>3. \A s \in Suites : s # t => Tag(s)' = Tag(s)
    BY <2>1 DEF Tag
  <2>4. pc' = pc /\ pc[t] = "idle"
    BY <1>24 DEF SetupFails
  <2>5. \A o, s : s \in Suites /\ UpTo(o, s, test[s]) => UpTo(o, s, test'[s])
    BY <1>d, <2>1
  <2> HIDE DEF TypeOK
  <2> QED BY <2>1, <2>2, <2>3, <2>4, <2>5
<1>25. ASSUME NEW t \in Suites, MoveFails(t) PROVE FreshInv'
  BY <1>25 DEF MoveFails
<1>26. ASSUME NEW t \in Suites, LaunchFails(t) PROVE FreshInv'
  BY <1>26 DEF LaunchFails
<1>26a. ASSUME NEW t \in Suites, LaunchInterrupted(t) PROVE FreshInv'
  <2>1. PICK r \in Pids : group' = [group EXCEPT ![r] = Tag(t)]
    BY <1>26a DEF LaunchInterrupted
  <2>2. UNCHANGED <<file, backup, test, lock>> /\ \A s \in Suites : pc'[s] = "move" => pc[s] = "move"
    BY <1>26a DEF LaunchInterrupted
  <2>3. \A s \in Suites : UpTo(Tag(t), s, test[s])
    <3>1. \A s \in Suites : test[s] \in Nat
      OBVIOUS
    <3> QED BY <3>1 DEF UpTo, Tag
  <2>4. \A p \in Pids : group'[p] \in {group[p], Tag(t)}
    BY <2>1
  <2> HIDE DEF TypeOK
  <2> QED BY <2>2, <2>3, <2>4
<1>27. ASSUME NEW t \in Suites, CollectFails(t) PROVE FreshInv'
  BY <1>27 DEF CollectFails
<1>28. ASSUME NEW t \in Suites, CleanupFails(t) PROVE FreshInv'
  BY <1>28 DEF CleanupFails, FinallyFails
<1>29. ASSUME NEW t \in Suites, RestoreFails(t) PROVE FreshInv'
  BY <1>29 DEF RestoreFails, FinallyFails
<1>30. ASSUME NEW t \in Suites, InterruptWait(t) PROVE FreshInv'
  BY <1>30 DEF InterruptWait
<1>31. ASSUME NEW t \in Suites, StopBroken(t) PROVE FreshInv'
  BY <1>31 DEF StopBroken
<1>32. ASSUME NEW t \in Suites, Crash(t) PROVE FreshInv'
  BY <1>32 DEF Crash
<1>33. ASSUME NEW q \in Pids, OpenTrace(q) PROVE FreshInv'
  <2>1. \A p \in Pids : file'[p].by = file[p].by \/ (p = q /\ file'[p].by = group[q])
    BY <1>33 DEF OpenTrace
  <2>2. UNCHANGED <<backup, group, test, lock, pc>>
    BY <1>33 DEF OpenTrace
  <2>3. \A s \in Suites : pc[s] = "move" => group[q] # Tag(s)
    <3> SUFFICES ASSUME NEW s \in Suites, pc[s] = "move", group[q] = Tag(s) PROVE FALSE
      OBVIOUS
    <3>1. s \notin Abandoned /\ lock = s
      BY DEF LockInv, HoldPoints, Abandoned
    <3>2. (OwnTag(group[q]) /\ pc[lock] \in RunPoints) \/ AbandonedTag(group[q])
      BY <1>33 DEF OpenTrace, ActiveInv, Active, Live
    <3>3. ~AbandonedTag(group[q])
      BY <3>1 DEF AbandonedTag, Tag
    <3> QED BY <3>1, <3>2, <3>3 DEF RunPoints
  <2> HIDE DEF TypeOK
  <2> QED BY <2>1, <2>2, <2>3
<1>34. ASSUME NEW q \in Pids, Fork(q) PROVE FreshInv'
  <2>1. ASSUME NEW p \in Pids PROVE \E r \in Pids : group'[p] = group[r]
    BY <1>34 DEF Fork
  <2>2. UNCHANGED <<backup, file, test, lock, pc>>
    BY <1>34 DEF Fork
  <2>3. ASSUME NEW p \in Pids, NEW s \in Suites PROVE UpTo(group'[p], s, test[s])
    BY <2>1
  <2> HIDE DEF TypeOK
  <2> QED BY <2>2, <2>3
<1>35. ASSUME NEW q \in Pids, Exit(q) PROVE FreshInv'
  <2>1. \A p \in Pids : file'[p].by = file[p].by
    BY <1>35 DEF Exit, Contents
  <2>2. UNCHANGED <<backup, group, test, lock, pc>>
    BY <1>35 DEF Exit
  <2> HIDE DEF TypeOK
  <2> QED BY <2>1, <2>2
<1>36. ASSUME NEW q \in Pids, Die(q) PROVE FreshInv'
  BY <1>36 DEF Die
<1>37. ASSUME NEW q \in Pids, Reap(q) PROVE FreshInv'
  <2>1. \A p \in Pids : group'[p] \in {group[p], Nobody}
    BY <1>37 DEF Reap
  <2>2. UNCHANGED <<backup, file, test, lock>>
    BY <1>37 DEF Reap
  <2>3. pc' = pc
    BY <1>37 DEF Reap
  <2> HIDE DEF TypeOK
  <2> QED BY <1>a, <2>1, <2>2, <2>3
<1>38. CASE UNCHANGED vars
  BY <1>38
<1> QED
  BY <1>1, <1>2, <1>3, <1>4, <1>5, <1>6, <1>7, <1>8, <1>9, <1>10, <1>11,
     <1>12, <1>13, <1>14, <1>15, <1>16, <1>17, <1>18, <1>19, <1>20, <1>21,
     <1>22, <1>23, <1>24, <1>25, <1>26, <1>26a, <1>27, <1>28, <1>29, <1>30, <1>31,
     <1>32, <1>33, <1>34, <1>35, <1>36, <1>37, <1>38,
     Zenon
  DEF Next, Step, Stop, Mishappen, Process

(* Cleanup removes what the test left.                                     *)
LEMMA HandBackStep ==
  ASSUME TypeOK, LockInv, ActiveInv, FreshInv, HandBackInv, [Next]_vars
  PROVE  HandBackInv'
<1> USE ConstantsAssumption, OwnersAssumption DEF TypeOK, Points, At, Goto, Mishap,
      LeaveBody, BeginStop, Exceptions, Stopped, ReapLeader, LeaderZombie,
      LockInv, HoldPoints, ReadyPoints, RunPoints, Graceful, NoFile, Runs, HandBackInv, Tag
<1>a. Abandoned \subseteq Abandoned'
  BY AbandonedGrows
<1>b. /\ Present \subseteq Pids
      /\ \A p \in Pids, s \in Suites : lock = s =>
           Tag(s) # Nobody /\ (file[p].by = Tag(s) => p \in Present)
  <2>1. \A s \in Suites : lock = s => Tag(s) \in Tags
    BY DEF Tags
  <2> HIDE DEF Tag
  <2> QED BY <2>1 DEF Present
<1>c. test' = test => \A s : Tag(s)' = Tag(s)
  OBVIOUS
<1>d. HandBackInv
  OBVIOUS
<1> USE <1>b, <1>c
<1> HIDE DEF Tag
<1> USE <1>a
<1>1. ASSUME NEW t \in Suites, Acquire(t) PROVE HandBackInv'
  <2>1. file' = file /\ lock' = t /\ (\A s \in Suites : s # t => Tag(s)' = Tag(s) /\ pc'[s] = pc[s])
    BY <1>1 DEF Acquire, Tag
  <2>2. \A p \in Pids : file[p].by # Tag(t)'
    <3>1. test[t] \in Nat /\ test[t] < MaxTests /\ test'[t] = test[t] + 1
      BY <1>1 DEF Acquire
    <3>2. ASSUME NEW p \in Pids, file[p].by = Tag(t)' PROVE FALSE
      <4>1. UpTo(file[p].by, t, test[t])
        BY DEF FreshInv
      <4> QED BY <3>1, <3>2, <4>1 DEF UpTo, Tag, Tags
    <3> QED BY <3>2
  <2> QED BY <1>1, <2>1, <2>2 DEF Acquire
<1>2. ASSUME NEW t \in Suites, LockBusy(t) PROVE HandBackInv'
  BY <1>2 DEF LockBusy
<1>3. ASSUME NEW t \in Suites, MoveOne(t) PROVE HandBackInv'
  <2>1. \A p \in Pids : file'[p] = file[p] \/ file'[p] = NoFile
    BY <1>3 DEF MoveOne
  <2>2. lock = t /\ UNCHANGED <<pc, test, err, lock>> /\ \A s \in Suites : s # t => todo'[s] = todo[s]
    BY <1>3 DEF MoveOne
  <2> QED BY <1>3, <2>1, <2>2 DEF MoveOne
<1>4. ASSUME NEW t \in Suites, MoveDone(t) PROVE HandBackInv'
  BY <1>4 DEF MoveDone
<1>5. ASSUME NEW t \in Suites, Launch(t) PROVE HandBackInv'
  BY <1>5 DEF Launch
<1>6. ASSUME NEW t \in Suites, LeaderExited(t) PROVE HandBackInv'
  BY <1>6 DEF LeaderExited
<1>7. ASSUME NEW t \in Suites, TimeoutExpires(t) PROVE HandBackInv'
  BY <1>7 DEF TimeoutExpires
<1>8. ASSUME NEW t \in Suites, GroupGone(t) PROVE HandBackInv'
  <2>1. CASE err[t] = "interrupt"
    BY <1>8, <2>1 DEF GroupGone
  <2>2. CASE err[t] # "interrupt"
    BY <1>8, <2>2 DEF GroupGone
  <2> QED BY <2>1, <2>2
<1>9. ASSUME NEW t \in Suites, SignalGroup(t) PROVE HandBackInv'
  BY <1>9 DEF SignalGroup
<1>10. ASSUME NEW t \in Suites, ListProcesses(t) PROVE HandBackInv'
  BY <1>10 DEF ListProcesses
<1>11. ASSUME NEW t \in Suites, ScanPasses(t) PROVE HandBackInv'
  BY <1>11 DEF ScanPasses
<1>12. ASSUME NEW t \in Suites, ScanFinds(t) PROVE HandBackInv'
  BY <1>12 DEF ScanFinds
<1>13. ASSUME NEW t \in Suites, ScanClean(t) PROVE HandBackInv'
  <2>1. CASE err[t] = "interrupt"
    BY <1>13, <2>1 DEF ScanClean
  <2>2. CASE err[t] # "interrupt"
    BY <1>13, <2>2 DEF ScanClean
  <2> QED BY <2>1, <2>2
<1>14. ASSUME NEW t \in Suites, Rescan(t) PROVE HandBackInv'
  BY <1>14 DEF Rescan
<1>15. ASSUME NEW t \in Suites, GraceExpires(t) PROVE HandBackInv'
  <2>1. CASE sig[t] = "TERM"
    BY <1>15, <2>1 DEF GraceExpires
  <2>2. CASE sig[t] = "KILL"
    <3>1. pc' = [pc EXCEPT ![t] = "cleanup"] /\ todo' = [todo EXCEPT ![t] = Present] /\ UNCHANGED <<file, test>>
      BY <1>15, <2>2 DEF GraceExpires
    <3>2. lock = t /\ \A s \in Suites : s # t => err'[s] = err[s]
      BY <1>15, <2>2 DEF GraceExpires
    <3> QED BY <1>a, <1>b, <3>1, <3>2
  <2> QED BY <2>1, <2>2
<1>16. ASSUME NEW t \in Suites, Glob(t) PROVE HandBackInv'
  BY <1>16 DEF Glob
<1>17. ASSUME NEW t \in Suites, CollectOne(t) PROVE HandBackInv'
  BY <1>17 DEF CollectOne
<1>18. ASSUME NEW t \in Suites, CollectDone(t) PROVE HandBackInv'
  BY <1>18 DEF CollectDone, Present
<1>19. ASSUME NEW t \in Suites, CleanupOne(t) PROVE HandBackInv'
  <2>1. PICK r \in Pids : file' = [file EXCEPT ![r] = NoFile] /\ todo' = [todo EXCEPT ![t] = @ \ {r}]
    BY <1>19 DEF CleanupOne
  <2>2. lock = t /\ UNCHANGED <<pc, test, err, lock>>
    BY <1>19 DEF CleanupOne
  <2>3. \A s \in Suites : pc[s] \in HoldPoints => s = t
    BY <2>2
  <2>4. \A p \in Pids : file'[p].by = Tag(t) => p # r /\ file'[p] = file[p]
    BY <1>b, <2>1, <2>2
  <2> QED BY <1>a, <2>1, <2>2, <2>3, <2>4
<1>20. ASSUME NEW t \in Suites, CleanupDone(t) PROVE HandBackInv'
  BY <1>20 DEF CleanupDone
<1>21. ASSUME NEW t \in Suites, RestoreOne(t) PROVE HandBackInv'
  <2>1. \A p \in Pids : file'[p] = file[p] \/ file'[p] = backup[t][p]
    BY <1>21 DEF RestoreOne
  <2>2. lock = t /\ UNCHANGED <<pc, test, err, lock, todo>>
    BY <1>21 DEF RestoreOne
  <2>3. \A p \in Pids : backup[t][p].by # Tag(t)
    BY <2>2 DEF FreshInv
  <2>4. \A s \in Suites : pc[s] \in HoldPoints => s = t
    BY <2>2
  <2> QED BY <1>a, <2>1, <2>2, <2>3, <2>4, SMTT(30)
<1>22. ASSUME NEW t \in Suites, RestoreDone(t) PROVE HandBackInv'
  BY <1>22 DEF RestoreDone
<1>23. ASSUME NEW t \in Suites, Release(t) PROVE HandBackInv'
  BY <1>23 DEF Release
<1>24. ASSUME NEW t \in Suites, SetupFails(t) PROVE HandBackInv'
  <2>1. UNCHANGED <<file, pc, err, todo>> /\ pc[t] = "idle" /\ \A s \in Suites : s # t => test'[s] = test[s]
    BY <1>24 DEF SetupFails
  <2>2. \A s \in Suites : s # t => Tag(s)' = Tag(s)
    BY <2>1 DEF Tag
  <2> QED BY <1>a, <2>1, <2>2
<1>25. ASSUME NEW t \in Suites, MoveFails(t) PROVE HandBackInv'
  BY <1>25 DEF MoveFails, FreshInv
<1>26. ASSUME NEW t \in Suites, LaunchFails(t) PROVE HandBackInv'
  BY <1>26 DEF LaunchFails, Present
<1>26a. ASSUME NEW t \in Suites, LaunchInterrupted(t) PROVE HandBackInv'
  BY <1>26a DEF LaunchInterrupted
<1>27. ASSUME NEW t \in Suites, CollectFails(t) PROVE HandBackInv'
  BY <1>27 DEF CollectFails, Present
<1>28. ASSUME NEW t \in Suites, CleanupFails(t) PROVE HandBackInv'
  BY <1>28 DEF CleanupFails, FinallyFails, Abandoned
<1>29. ASSUME NEW t \in Suites, RestoreFails(t) PROVE HandBackInv'
  BY <1>29 DEF RestoreFails, FinallyFails
<1>30. ASSUME NEW t \in Suites, InterruptWait(t) PROVE HandBackInv'
  BY <1>30 DEF InterruptWait
<1>31. ASSUME NEW t \in Suites, StopBroken(t) PROVE HandBackInv'
  BY <1>31 DEF StopBroken
<1>32. ASSUME NEW t \in Suites, Crash(t) PROVE HandBackInv'
  BY <1>32 DEF Crash
<1>33. ASSUME NEW q \in Pids, OpenTrace(q) PROVE HandBackInv'
  <2>1. \A p \in Pids : file'[p].by = IF p = q THEN group[q] ELSE file[p].by
    BY <1>33 DEF OpenTrace
  <2>2. UNCHANGED <<suiteVars, lock>>
    BY <1>33 DEF OpenTrace
  <2>3. ASSUME Abandoned = {} PROVE lock # Nobody /\ group[q] = Tag(lock) /\ pc[lock] \in RunPoints
    BY <1>33, <2>3 DEF OpenTrace, ActiveInv, Active, Live, OwnTag, AbandonedTag
  <2>4. \A s \in Suites : pc[s] \in HoldPoints => lock = s
    OBVIOUS
  <2> QED BY <1>a, <2>1, <2>2, <2>3, <2>4
<1>34. ASSUME NEW q \in Pids, Fork(q) PROVE HandBackInv'
  BY <1>34 DEF Fork
<1>35. ASSUME NEW q \in Pids, Exit(q) PROVE HandBackInv'
  <2>1. \A p \in Pids : file'[p].by = file[p].by
    BY <1>35 DEF Exit, Contents
  <2>2. UNCHANGED <<suiteVars, lock>>
    BY <1>35 DEF Exit
  <2> QED BY <1>a, <2>1, <2>2, SMTT(30)
<1>36. ASSUME NEW q \in Pids, Die(q) PROVE HandBackInv'
  BY <1>36 DEF Die
<1>37. ASSUME NEW q \in Pids, Reap(q) PROVE HandBackInv'
  BY <1>37 DEF Reap
<1>38. CASE UNCHANGED vars
  BY <1>38 DEF Abandoned
<1> QED
  BY <1>1, <1>2, <1>3, <1>4, <1>5, <1>6, <1>7, <1>8, <1>9, <1>10, <1>11,
     <1>12, <1>13, <1>14, <1>15, <1>16, <1>17, <1>18, <1>19, <1>20, <1>21,
     <1>22, <1>23, <1>24, <1>25, <1>26, <1>26a, <1>27, <1>28, <1>29, <1>30, <1>31,
     <1>32, <1>33, <1>34, <1>35, <1>36, <1>37, <1>38,
     Zenon
  DEF Next, Step, Stop, Mishappen, Process

(* The tests that are over leave nothing, but for those cut short.         *)
LEMMA LeftStep ==
  ASSUME TypeOK, LockInv, ActiveInv, FreshInv, HandBackInv, LeftInv, [Next]_vars
  PROVE  LeftInv'
<1> USE ConstantsAssumption, OwnersAssumption DEF TypeOK, Points, At, Goto, Mishap,
      LeaveBody, BeginStop, Exceptions, Stopped, ReapLeader, LeaderZombie,
      LockInv, HoldPoints, ReadyPoints, RunPoints, Graceful, Runs
<1>a. Abandoned \subseteq Abandoned'
  BY AbandonedGrows
<1>b. LeftInv
  OBVIOUS
<1> USE <1>a, <1>b
<1>c. ASSUME UNCHANGED <<file, backup, lock, test>>,
             \A s \in Suites : err[s] \in {"isolation", "cut"} =>
                               err'[s] \in {"isolation", "cut"}
      PROVE  LeftInv'
  BY <1>c DEF LeftInv, OwnTag, LeftTag, Tag, Tags
<1>d. Nobody \notin Tags /\ NoFile.by = Nobody
  BY DEF NoFile
<1> USE <1>c
<1>1. ASSUME NEW t \in Suites, Acquire(t) PROVE LeftInv'
  <2>1. /\ UNCHANGED <<file, backup>> /\ lock = Nobody
        /\ \A s \in Suites : err[s] \in {"isolation", "cut"} => err'[s] = err[s]
    BY <1>1 DEF Acquire
  <2>2. \A o : LeftTag(o) => LeftTag(o)'
    BY <2>1 DEF LeftTag, Tags
  <2> QED BY <2>1, <2>2 DEF LeftInv, OwnTag
<1>2. ASSUME NEW t \in Suites, LockBusy(t) PROVE LeftInv'
  BY <1>2 DEF LockBusy
<1>3. ASSUME NEW t \in Suites, MoveOne(t) PROVE LeftInv'
  <2>1. PICK r \in Pids : /\ file' = [file EXCEPT ![r] = NoFile]
                          /\ backup' = [backup EXCEPT ![t][r] = file[r]]
    BY <1>3 DEF MoveOne
  <2>2. lock = t /\ pc[t] = "move" /\ UNCHANGED <<lock, test, err>>
    BY <1>3 DEF MoveOne
  <2>3. \A o : (OwnTag(o) <=> OwnTag(o)') /\ (LeftTag(o) <=> LeftTag(o)')
    BY <2>2 DEF OwnTag, LeftTag, Tag
  <2>4. ~OwnTag(file[r].by)
    BY <2>2 DEF FreshInv, OwnTag
  <2>5. \A p \in Pids : file'[p] \in {file[p], NoFile}
    BY <2>1
  <2>6. \A s \in Suites, p \in Pids :
          backup'[s][p] = backup[s][p] \/ backup'[s][p] = file[r]
    BY <2>1
  <2> HIDE DEF TypeOK
  <2> QED BY <1>d, <2>3, <2>4, <2>5, <2>6 DEF LeftInv
<1>4. ASSUME NEW t \in Suites, MoveDone(t) PROVE LeftInv'
  BY <1>4 DEF MoveDone
<1>5. ASSUME NEW t \in Suites, Launch(t) PROVE LeftInv'
  BY <1>5 DEF Launch
<1>6. ASSUME NEW t \in Suites, LeaderExited(t) PROVE LeftInv'
  BY <1>6 DEF LeaderExited
<1>7. ASSUME NEW t \in Suites, TimeoutExpires(t) PROVE LeftInv'
  BY <1>7 DEF TimeoutExpires
<1>8. ASSUME NEW t \in Suites, GroupGone(t) PROVE LeftInv'
  <2>1. CASE err[t] = "interrupt"
    BY <1>8, <2>1 DEF GroupGone
  <2>2. CASE err[t] # "interrupt"
    BY <1>8, <2>2 DEF GroupGone
  <2> QED BY <2>1, <2>2
<1>9. ASSUME NEW t \in Suites, SignalGroup(t) PROVE LeftInv'
  BY <1>9 DEF SignalGroup
<1>10. ASSUME NEW t \in Suites, ListProcesses(t) PROVE LeftInv'
  BY <1>10 DEF ListProcesses
<1>11. ASSUME NEW t \in Suites, ScanPasses(t) PROVE LeftInv'
  BY <1>11 DEF ScanPasses
<1>12. ASSUME NEW t \in Suites, ScanFinds(t) PROVE LeftInv'
  BY <1>12 DEF ScanFinds
<1>13. ASSUME NEW t \in Suites, ScanClean(t) PROVE LeftInv'
  <2>1. CASE err[t] = "interrupt"
    BY <1>13, <2>1 DEF ScanClean
  <2>2. CASE err[t] # "interrupt"
    BY <1>13, <2>2 DEF ScanClean
  <2> QED BY <2>1, <2>2
<1>14. ASSUME NEW t \in Suites, Rescan(t) PROVE LeftInv'
  BY <1>14 DEF Rescan
<1>15. ASSUME NEW t \in Suites, GraceExpires(t) PROVE LeftInv'
  BY <1>15 DEF GraceExpires
<1>16. ASSUME NEW t \in Suites, Glob(t) PROVE LeftInv'
  BY <1>16 DEF Glob
<1>17. ASSUME NEW t \in Suites, CollectOne(t) PROVE LeftInv'
  BY <1>17 DEF CollectOne
<1>18. ASSUME NEW t \in Suites, CollectDone(t) PROVE LeftInv'
  <2>1. UNCHANGED <<file, backup, lock, test>>
    BY <1>18 DEF CollectDone
  <2>2. err[t] \notin {"isolation", "cut"} /\ \A s \in Suites : s # t => err'[s] = err[s]
    BY <1>18 DEF CollectDone
  <2> HIDE DEF TypeOK
  <2> QED BY <2>1, <2>2
<1>19. ASSUME NEW t \in Suites, CleanupOne(t) PROVE LeftInv'
  <2>1. PICK r \in Pids : file' = [file EXCEPT ![r] = NoFile]
    BY <1>19 DEF CleanupOne
  <2>2. UNCHANGED <<lock, test, err, backup>>
    BY <1>19 DEF CleanupOne
  <2>3. \A o : (OwnTag(o) <=> OwnTag(o)') /\ (LeftTag(o) <=> LeftTag(o)')
    BY <2>2 DEF OwnTag, LeftTag, Tag
  <2>4. \A p \in Pids : file'[p] \in {file[p], NoFile}
    BY <2>1
  <2> HIDE DEF TypeOK
  <2> QED BY <1>d, <2>2, <2>3, <2>4 DEF LeftInv
<1>20. ASSUME NEW t \in Suites, CleanupDone(t) PROVE LeftInv'
  BY <1>20 DEF CleanupDone
<1>21. ASSUME NEW t \in Suites, RestoreOne(t) PROVE LeftInv'
  <2>1. PICK r \in Pids : /\ file' = [file EXCEPT ![r] = backup[t][r]]
                          /\ backup' = [backup EXCEPT ![t][r] = NoFile]
    BY <1>21 DEF RestoreOne, Moved
  <2>2. UNCHANGED <<lock, test, err>>
    BY <1>21 DEF RestoreOne
  <2>3. \A o : (OwnTag(o) <=> OwnTag(o)') /\ (LeftTag(o) <=> LeftTag(o)')
    BY <2>2 DEF OwnTag, LeftTag, Tag
  <2>4. \A p \in Pids : file'[p] \in {file[p], backup[t][p]}
    BY <2>1
  <2>5. \A s \in Suites, p \in Pids : backup'[s][p] \in {backup[s][p], NoFile}
    BY <2>1
  <2> HIDE DEF TypeOK
  <2> QED BY <1>d, <2>3, <2>4, <2>5 DEF LeftInv
<1>22. ASSUME NEW t \in Suites, RestoreDone(t) PROVE LeftInv'
  BY <1>22 DEF RestoreDone
<1>23. ASSUME NEW t \in Suites, Release(t) PROVE LeftInv'
  <2>1. /\ UNCHANGED <<file, backup, test, err>> /\ lock = t /\ pc[t] = "release"
    BY <1>23 DEF Release
  <2>2. \A o : LeftTag(o) <=> LeftTag(o)'
    BY <2>1 DEF LeftTag
  <2>3. Tag(t) \in Tags /\ Tag(t)[1] = t
    BY <2>1 DEF Tag, Tags
  <2>4. Abandoned = {} => \A p \in Pids : OwnTag(file[p].by) => LeftTag(file[p].by)
    BY <2>1, <2>3 DEF HandBackInv, OwnTag, LeftTag
  <2> HIDE DEF TypeOK
  <2> QED BY <2>1, <2>2, <2>4 DEF LeftInv
<1>24. ASSUME NEW t \in Suites, SetupFails(t) PROVE LeftInv'
  <2>1. UNCHANGED <<file, backup, err, lock>> /\ \A s \in Suites : s # t => test'[s] = test[s]
    BY <1>24 DEF SetupFails
  <2>2. lock # t
    BY <1>24 DEF SetupFails
  <2>3. \A o : (OwnTag(o) <=> OwnTag(o)') /\ (LeftTag(o) <=> LeftTag(o)')
    BY <2>1, <2>2 DEF OwnTag, LeftTag, Tag
  <2> HIDE DEF TypeOK
  <2> QED BY <2>1, <2>3 DEF LeftInv
<1>25. ASSUME NEW t \in Suites, MoveFails(t) PROVE LeftInv'
  <2>1. UNCHANGED <<file, backup, lock, test>>
    BY <1>25 DEF MoveFails
  <2>2. err[t] \notin {"isolation", "cut"} /\ \A s \in Suites : s # t => err'[s] = err[s]
    BY <1>25 DEF MoveFails
  <2> HIDE DEF TypeOK
  <2> QED BY <2>1, <2>2
<1>26. ASSUME NEW t \in Suites, LaunchFails(t) PROVE LeftInv'
  <2>1. UNCHANGED <<file, backup, lock, test>>
    BY <1>26 DEF LaunchFails
  <2>2. err[t] \notin {"isolation", "cut"} /\ \A s \in Suites : s # t => err'[s] = err[s]
    BY <1>26 DEF LaunchFails
  <2> HIDE DEF TypeOK
  <2> QED BY <2>1, <2>2
<1>26a. ASSUME NEW t \in Suites, LaunchInterrupted(t) PROVE LeftInv'
  <2>1. err'[t] = "abandon"
    BY <1>26a DEF LaunchInterrupted
  <2> QED BY <2>1 DEF LeftInv, Abandoned
<1>27. ASSUME NEW t \in Suites, CollectFails(t) PROVE LeftInv'
  <2>1. UNCHANGED <<file, backup, lock, test>>
    BY <1>27 DEF CollectFails
  <2>2. err[t] \notin {"isolation", "cut"} /\ \A s \in Suites : s # t => err'[s] = err[s]
    BY <1>27, SMTT(30) DEF CollectFails
  <2> HIDE DEF TypeOK
  <2> QED BY <2>1, <2>2
<1>28. ASSUME NEW t \in Suites, CleanupFails(t) PROVE LeftInv'
  BY <1>28 DEF CleanupFails, FinallyFails
<1>29. ASSUME NEW t \in Suites, RestoreFails(t) PROVE LeftInv'
  BY <1>29 DEF RestoreFails, FinallyFails
<1>30. ASSUME NEW t \in Suites, InterruptWait(t) PROVE LeftInv'
  BY <1>30 DEF InterruptWait
<1>31. ASSUME NEW t \in Suites, StopBroken(t) PROVE LeftInv'
  <2>1. UNCHANGED <<file, backup, lock, test>>
    BY <1>31 DEF StopBroken
  <2>2. err[t] \notin {"isolation", "cut"} /\ \A s \in Suites : s # t => err'[s] = err[s]
    BY <1>31 DEF StopBroken
  <2> HIDE DEF TypeOK
  <2> QED BY <2>1, <2>2
<1>32. ASSUME NEW t \in Suites, Crash(t) PROVE LeftInv'
  <2>1. pc'[t] = "crashed"
    BY <1>32 DEF Crash
  <2> QED BY <2>1 DEF LeftInv, Abandoned
<1>33. ASSUME NEW q \in Pids, OpenTrace(q) PROVE LeftInv'
  <2>1. /\ UNCHANGED <<suiteVars, lock, backup>>
        /\ \A p \in Pids : file'[p] = file[p] \/ file'[p].by = group[q]
    BY <1>33 DEF OpenTrace
  <2>2. \A o : (OwnTag(o) <=> OwnTag(o)') /\ (LeftTag(o) <=> LeftTag(o)')
    BY <2>1 DEF OwnTag, LeftTag, Tag
  <2>3. Active(q)
    BY <1>33 DEF OpenTrace, Active, Live
  <2>4. Abandoned = {} => OwnTag(group[q])
    BY <2>3 DEF ActiveInv, AbandonedTag
  <2> HIDE DEF TypeOK
  <2> QED BY <2>1, <2>2, <2>4 DEF LeftInv
<1>34. ASSUME NEW q \in Pids, Fork(q) PROVE LeftInv'
  BY <1>34 DEF Fork
<1>35. ASSUME NEW q \in Pids, Exit(q) PROVE LeftInv'
  <2>1. /\ UNCHANGED <<suiteVars, lock, backup>>
        /\ \A p \in Pids : file'[p].by = file[p].by
    BY <1>35 DEF Exit, Contents
  <2>2. \A o : (OwnTag(o) <=> OwnTag(o)') /\ (LeftTag(o) <=> LeftTag(o)')
    BY <2>1 DEF OwnTag, LeftTag, Tag
  <2> HIDE DEF TypeOK
  <2> QED BY <2>1, <2>2 DEF LeftInv
<1>36. ASSUME NEW q \in Pids, Die(q) PROVE LeftInv'
  BY <1>36 DEF Die
<1>37. ASSUME NEW q \in Pids, Reap(q) PROVE LeftInv'
  BY <1>37 DEF Reap
<1>38. CASE UNCHANGED vars
  BY <1>38 DEF Abandoned, OwnTag, LeftTag
<1> QED
  BY <1>1, <1>2, <1>3, <1>4, <1>5, <1>6, <1>7, <1>8, <1>9, <1>10, <1>11,
     <1>12, <1>13, <1>14, <1>15, <1>16, <1>17, <1>18, <1>19, <1>20, <1>21,
     <1>22, <1>23, <1>24, <1>25, <1>26, <1>26a, <1>27, <1>28, <1>29, <1>30, <1>31,
     <1>32, <1>33, <1>34, <1>35, <1>36, <1>37, <1>38,
     Zenon
  DEF Next, Step, Stop, Mishappen, Process

-----------------------------------------------------------------------------
(* The invariant holds initially and every step preserves it.              *)
LEMMA InitInd == Init => IndInv
<1> SUFFICES ASSUME Init PROVE IndInv
  OBVIOUS
<1> USE ConstantsAssumption, OwnersAssumption DEF Init
<1>1. TypeOK
  BY DEF TypeOK, Contents, NoFile, Points
<1>2. LockInv
  BY DEF LockInv, At, HoldPoints, ReadyPoints, RunPoints
<1>3. ActiveInv
  BY DEF ActiveInv, Active, Live
<1>4. ScanInv
  BY DEF ScanInv, At
<1>5. UserPlaceInv
  BY DEF UserPlaceInv, At, ReadyPoints, RunPoints, Moved, NoFile
<1>6. UserApartInv
  BY DEF UserApartInv, Active, Live
<1>7. UserTracesSafe
  BY DEF UserTracesSafe
<1>8. OwnerInv
  BY DEF OwnerInv, At, RunPoints
<1>9. CollectsOwnRows
  BY DEF CollectsOwnRows
<1>10. VerdictInv
  BY DEF VerdictInv
<1>11. FreshInv
  BY DEF FreshInv, At, UpTo, NoFile
<1>12. HandBackInv
  <2>1. \A s \in Suites : pc[s] = "idle"
    OBVIOUS
  <2> QED BY <2>1 DEF HandBackInv, At
<1>13. WholeInv
  BY DEF WholeInv
<1>14. LeftInv
  BY DEF LeftInv, NoFile
<1> QED BY <1>1, <1>2, <1>3, <1>4, <1>5, <1>6, <1>7, <1>8, <1>9, <1>10,
           <1>11, <1>12, <1>13, <1>14 DEF IndInv

LEMMA StepInd ==
  ASSUME ~ForkDuringScan, IndInv, [Next]_vars
  PROVE  IndInv'
<1> USE DEF IndInv
<1>1. TypeOK' /\ LockInv'
  BY TypeStep, LockStep
<1>2. ActiveInv' /\ ScanInv'
  BY ActiveStep, ScanStep
<1>3. UserPlaceInv' /\ UserApartInv' /\ UserTracesSafe'
  BY UserPlaceStep, UserApartStep, UserTracesSafeStep
<1>4. OwnerInv' /\ CollectsOwnRows' /\ VerdictInv' /\ WholeInv'
  BY OwnerStep, CollectsOwnRowsStep, VerdictStep, WholeStep
<1>5. FreshInv' /\ HandBackInv' /\ LeftInv'
  BY FreshStep, HandBackStep, LeftStep
<1> QED BY <1>1, <1>2, <1>3, <1>4, <1>5

-----------------------------------------------------------------------------
(* Type correctness of the workspace, with or without forks during a scan. *)
THEOREM TypeCorrect == Spec => []TypeOK
<1>1. Init => TypeOK /\ LockInv
  BY InitInd DEF IndInv
<1>2. TypeOK /\ LockInv /\ [Next]_vars => (TypeOK /\ LockInv)'
  BY TypeStep, LockStep
<1> QED BY <1>1, <1>2, PTL DEF Spec

(* The inductive invariant is an invariant.                                *)
THEOREM Inductive ==
  ASSUME ~ForkDuringScan
  PROVE  Spec => []IndInv
<1>1. IndInv /\ [Next]_vars => IndInv'
  BY StepInd
<1> QED BY InitInd, <1>1, PTL DEF Spec

(* The user's traces survive every suite, its failures and its death       *)
(* (trace_workspace), for any number of suites, tests and processes.       *)
THEOREM UserTracesSurvive ==
  ASSUME ~ForkDuringScan
  PROVE  Spec => []UserTracesSafe
<1>1. IndInv => UserTracesSafe
  BY DEF IndInv
<1> QED BY Inductive, <1>1, PTL

(* Traces are read only after the whole process group has stopped          *)
(* (stop_process_group before the glob of run_test).                       *)
THEOREM CollectionIsQuiet ==
  ASSUME ~ForkDuringScan
  PROVE  Spec => []QuietCollection
<1>1. IndInv => QuietCollection
  BY DEF IndInv, ScanInv, QuietCollection
<1> QED BY Inductive, <1>1, PTL

(* No process of a test leaks into the next one (TraceIsolationError).     *)
THEOREM NoLeakIntoNextTest ==
  ASSUME ~ForkDuringScan
  PROVE  Spec => []OneTracedRun
<1>1. IndInv => OneTracedRun
  <2> SUFFICES ASSUME IndInv, NEW p \in Pids, Active(p)
               PROVE  \/ lock # Nobody /\ group[p] = Tag(lock)
                      \/ group[p][1] \in Abandoned
    BY DEF OneTracedRun, Active
  <2> QED BY DEF IndInv, ActiveInv, OwnTag, AbandonedTag
<1> QED BY Inductive, <1>1, PTL

(* A result holds rows of its own test only (collect_pid_traces).          *)
THEOREM ResultsAreOwn ==
  ASSUME ~ForkDuringScan
  PROVE  Spec => []CollectsOwnRows
<1>1. IndInv => CollectsOwnRows
  BY DEF IndInv
<1> QED BY Inductive, <1>1, PTL

(* A passed test left whole traces only, and at least one (run_test's      *)
(* runner-error verdicts).                                                 *)
THEOREM PassedTestsHaveTraces ==
  ASSUME ~ForkDuringScan
  PROVE  Spec => []PassedHasOwnTraces
<1>1. ASSUME IndInv PROVE PassedHasOwnTraces
  <2> SUFFICES ASSUME NEW s \in Suites, status[s] = "passed"
               PROVE  /\ At(s, "idle") => Tag(s) \in read[s] \/ Abandoned # {}
                      /\ At(s, "cleanup") /\ err[s] = "none" =>
                           \A p \in Pids : file[p].by = Tag(s) => file[p].whole
    BY DEF PassedHasOwnTraces
  <2>1. ASSUME At(s, "idle"), Abandoned = {} PROVE Tag(s) \in read[s]
    <3>1. PICK o \in read[s] : TRUE
      BY <1>1, <2>1 DEF IndInv, VerdictInv
    <3>2. o = Tag(s)
      BY <1>1, <2>1 DEF IndInv, CollectsOwnRows
    <3> QED BY <3>1, <3>2
  <2>2. ASSUME At(s, "cleanup"), err[s] = "none", NEW p \in Pids, file[p].by = Tag(s)
        PROVE  file[p].whole
    BY <1>1, <2>2 DEF IndInv, WholeInv
  <2> QED BY <2>1, <2>2
<1> QED BY Inductive, <1>1, PTL

(* The directory is handed back without traces of the test and with        *)
(* nothing set aside, and the next test starts without those of any test   *)
(* of the suite (the finally clause of trace_workspace).                   *)
THEOREM DirectoryIsHandedBack ==
  ASSUME ~ForkDuringScan
  PROVE  Spec => []HandsBackDirectory
<1>1. ASSUME IndInv PROVE HandsBackDirectory
  <2>1. ASSUME NEW s \in Suites, At(s, "release"),
               err[s] \in {"none", "oserror", "interrupt"}
        PROVE  /\ Moved(s) = {}
               /\ Abandoned = {} => \A p \in Pids : file[p].by # Tag(s)
    <3>1. Moved(s) = {}
      BY <1>1, <2>1 DEF IndInv, UserPlaceInv, Graceful
    <3>2. Abandoned = {} => \A p \in Pids : file[p].by # Tag(s)
      BY <1>1, <2>1 DEF IndInv, HandBackInv, At
    <3> QED BY <3>1, <3>2
  <2>2. ASSUME NEW s \in Suites, At(s, "idle")
        PROVE  /\ Moved(s) = {}
               /\ Abandoned = {} => \A p \in Pids : OwnerOf(p) # s
    <3>1. Moved(s) = {}
      BY <1>1, <2>2 DEF IndInv, UserPlaceInv
    <3>2. lock # s /\ err[s] \notin {"isolation", "cut"}
      BY <1>1, <2>2 DEF IndInv, LockInv, HoldPoints, ReadyPoints, RunPoints, At
    <3>3. ASSUME Abandoned = {}, NEW p \in Pids, file[p].by \in Tags PROVE file[p].by[1] # s
      <4>1. CASE OwnTag(file[p].by)
        BY <3>2, <4>1 DEF OwnTag, Tag
      <4>2. CASE LeftTag(file[p].by)
        BY <3>2, <4>2 DEF LeftTag
      <4> QED BY <1>1, <3>3, <4>1, <4>2 DEF IndInv, LeftInv
    <3> QED BY <3>1, <3>3, ConstantsAssumption DEF OwnerOf
  <2> QED BY <2>1, <2>2 DEF HandsBackDirectory
<1> QED BY Inductive, <1>1, PTL
=============================================================================
