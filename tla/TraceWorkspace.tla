--------------------------- MODULE TraceWorkspace ---------------------------
(***************************************************************************)
(* One working directory in which icallcov suites trace their tests:       *)
(* trace_workspace, stop_process_group, group_is_running and run_test of   *)
(* run_suite.py, with the processes of the traced tests and the kernel     *)
(* beside them.                                                            *)
(*                                                                         *)
(* A traced process p writes dynamic.<p>.csv in the working directory.     *)
(* The module follows who wrote each such file, not what is in it: the     *)
(* user (a file that was there before any suite), or the n-th test of a    *)
(* suite.  A suite holds the directory's advisory lock from Acquire to     *)
(* Release and is at one program point pc[s] in between:                   *)
(*                                                                         *)
(*   idle -> move -> launch -> wait -> signal -> list -> scan -> grace     *)
(*        -> glob -> collect -> cleanup -> restore -> release -> idle      *)
(***************************************************************************)
EXTENDS Naturals, FiniteSets

CONSTANTS
  Suites,           \* suite processes (run_suite.py) sharing the directory
  Pids,             \* process identifiers; the kernel reuses them
  UserPids,         \* pids whose dynamic.<pid>.csv is there before any suite
  Nobody, User,     \* two owners of a file that are no test: none and the user
  MaxTests,         \* tests each suite runs
  MaxMishaps,       \* bound on the mishaps of one behaviour
  Mishaps,          \* the kinds of mishap that may happen
  ForkDuringScan    \* may a process fork while group_is_running reads /proc?

MishapKinds == {"oserror", "crash", "interrupt"}

ASSUME ConstantsAssumption ==
  /\ UserPids \subseteq Pids
  /\ Nobody \notin Suites \cup Pids
  /\ MaxTests \in Nat
  /\ MaxMishaps \in Nat
  /\ Mishaps \subseteq MishapKinds
  /\ ForkDuringScan \in BOOLEAN

(* The n-th test of suite s.  Its processes form one process group.        *)
Tags == Suites \X (1 .. MaxTests)

ASSUME OwnersAssumption == Nobody # User /\ Nobody \notin Tags /\ User \notin Tags

(* A trace file: who wrote it, and whether its last row is whole.          *)
Contents == [by : Tags \cup {User, Nobody}, whole : BOOLEAN]
NoFile   == [by |-> Nobody, whole |-> TRUE]

VARIABLES
  lock,      \* holder of .icallcov-trace.lock, or Nobody
  file,      \* file[p]: dynamic.<p>.csv in the working directory
  backup,    \* backup[s][p]: dynamic.<p>.csv in s's .icallcov-preserved- dir
  state,     \* state[p]: life of the process p
  group,     \* group[p]: the test whose process group p is in
  doomed,    \* processes a fatal signal has been sent to
  pc,        \* pc[s]: where suite s is
  test,      \* test[s]: number of the test s is at, 0 before the first
  todo,      \* todo[s]: what is left of the directory listing s iterates over
  leader,    \* leader[s]: the child s has not reaped yet, or Nobody
  sig,       \* sig[s]: the signal stop_process_group is at
  err,       \* err[s]: the exception that is propagating
  status,    \* status[s]: verdict on the test
  read,      \* read[s]: the owners of the whole traces the result was read from
  mishaps    \* mishaps so far

suiteVars == <<pc, test, todo, leader, sig, err, status, read>>
procVars  == <<state, group, doomed>>
dirVars   == <<lock, file, backup>>
vars      == <<dirVars, procVars, suiteVars, mishaps>>

Points == {"idle", "move", "launch", "wait", "signal", "list", "scan", "grace",
           "glob", "collect", "cleanup", "restore", "release",
           "aborted", "crashed"}

Init ==
  /\ lock = Nobody
  /\ file = [p \in Pids |->
               IF p \in UserPids THEN [by |-> User, whole |-> TRUE] ELSE NoFile]
  /\ backup = [s \in Suites |-> [p \in Pids |-> NoFile]]
  /\ state = [p \in Pids |-> "none"]
  /\ group = [p \in Pids |-> Nobody]
  /\ doomed = {}
  /\ pc = [s \in Suites |-> "idle"]
  /\ test = [s \in Suites |-> 0]
  /\ todo = [s \in Suites |-> {}]
  /\ leader = [s \in Suites |-> Nobody]
  /\ sig = [s \in Suites |-> "TERM"]
  /\ err = [s \in Suites |-> "none"]
  /\ status = [s \in Suites |-> "none"]
  /\ read = [s \in Suites |-> {}]
  /\ mishaps = 0

-----------------------------------------------------------------------------
Tag(s) == <<s, test[s]>>
Live(p) == state[p] \in {"starting", "tracing"}
Group(s) == {p \in Pids : state[p] # "none" /\ group[p] = Tag(s)}
LiveGroup(s) == {p \in Group(s) : Live(p)}

(* cwd.glob("dynamic.*.csv") and the names trace_workspace has moved.      *)
Present == {p \in Pids : file[p].by # Nobody}
Moved(s) == {p \in Pids : backup[s][p].by # Nobody}

At(s, point) == pc[s] = point
Goto(s, point) == pc' = [pc EXCEPT ![s] = point]

Mishap(kind) ==
  /\ kind \in Mishaps
  /\ mishaps < MaxMishaps
  /\ mishaps' = mishaps + 1

(* What makes a call of the suite fail: an OSError or a KeyboardInterrupt.  *)
Exceptions == {"oserror", "interrupt"}

(* An exception e (or none) leaves the body of the with statement: its     *)
(* finally clause lists the traces to delete.                              *)
LeaveBody(s, e) ==
  /\ Goto(s, "cleanup")
  /\ todo' = [todo EXCEPT ![s] = Present]
  /\ err' = [err EXCEPT ![s] = e]

-----------------------------------------------------------------------------
(* trace_workspace: take the lock without waiting, list the trace files    *)
(* that are there and move them one by one into a fresh directory.         *)

(* Mutant of Acquire: the directory is taken without looking at the lock.   *)
AcquireUnlocked(s) ==
  /\ At(s, "idle") /\ test[s] < MaxTests
  /\ lock' = s
  /\ Goto(s, "move")
  /\ test' = [test EXCEPT ![s] = @ + 1]
  /\ todo' = [todo EXCEPT ![s] = Present]
  /\ err' = [err EXCEPT ![s] = "none"]
  /\ status' = [status EXCEPT ![s] = "none"]
  /\ read' = [read EXCEPT ![s] = {}]
  /\ UNCHANGED <<file, backup, procVars, leader, sig, mishaps>>

Acquire(s) ==
  /\ At(s, "idle") /\ test[s] < MaxTests
  /\ lock = Nobody
  /\ lock' = s
  /\ Goto(s, "move")
  /\ test' = [test EXCEPT ![s] = @ + 1]
  /\ todo' = [todo EXCEPT ![s] = Present]
  /\ err' = [err EXCEPT ![s] = "none"]
  /\ status' = [status EXCEPT ![s] = "none"]
  /\ read' = [read EXCEPT ![s] = {}]
  /\ UNCHANGED <<file, backup, procVars, leader, sig, mishaps>>

LockBusy(s) ==
  /\ At(s, "idle") /\ test[s] < MaxTests
  /\ lock # Nobody
  /\ Goto(s, "aborted")
  /\ err' = [err EXCEPT ![s] = "isolation"]
  /\ read' = [read EXCEPT ![s] = {}]
  /\ UNCHANGED <<dirVars, procVars, test, todo, leader, sig, status, mishaps>>

(* Opening the lock file or making the directory fails before the try.     *)
SetupFails(s) ==
  /\ At(s, "idle") /\ test[s] < MaxTests
  /\ Mishap("oserror")
  /\ test' = [test EXCEPT ![s] = @ + 1]
  /\ status' = [status EXCEPT ![s] = "runner-error"]
  /\ read' = [read EXCEPT ![s] = {}]
  /\ UNCHANGED <<dirVars, procVars, pc, todo, leader, sig, err>>

MoveOne(s) ==
  /\ At(s, "move")
  /\ \E p \in todo[s] \cap Present :
       /\ backup' = [backup EXCEPT ![s][p] = file[p]]
       /\ file' = [file EXCEPT ![p] = NoFile]
       /\ todo' = [todo EXCEPT ![s] = @ \ {p}]
  /\ UNCHANGED <<lock, procVars, pc, test, leader, sig, err, status, read, mishaps>>

(* Mutant of MoveFails: the clean-up runs although ready is still False.    *)
MoveFailsCleansUp(s) ==
  /\ At(s, "move") /\ todo[s] # {}
  /\ \E kind \in Exceptions : Mishap(kind) /\ LeaveBody(s, kind)
  /\ UNCHANGED <<dirVars, procVars, test, leader, sig, status, read>>

(* ready is still False: nothing is deleted, only what was moved goes back. *)
MoveFails(s) ==
  /\ At(s, "move")
  /\ \E kind \in Exceptions : Mishap(kind) /\ err' = [err EXCEPT ![s] = kind]
  /\ Goto(s, "restore")
  /\ UNCHANGED <<dirVars, procVars, test, todo, leader, sig, status, read>>

MoveDone(s) ==
  /\ At(s, "move") /\ todo[s] = {}
  /\ Goto(s, "launch")
  /\ UNCHANGED <<dirVars, procVars, test, todo, leader, sig, err, status, read, mishaps>>

-----------------------------------------------------------------------------
(* run_test: start the test in a session of its own and wait for it.       *)

Launch(s) ==
  /\ At(s, "launch")
  /\ \E p \in Pids :
       /\ state[p] = "none"
       /\ state' = [state EXCEPT ![p] = "starting"]
       /\ group' = [group EXCEPT ![p] = Tag(s)]
       /\ leader' = [leader EXCEPT ![s] = p]
  /\ Goto(s, "wait")
  /\ UNCHANGED <<dirVars, doomed, test, todo, sig, err, status, read, mishaps>>

LaunchFails(s) ==
  /\ At(s, "launch")
  /\ \E kind \in Exceptions : Mishap(kind) /\ LeaveBody(s, kind)
  /\ UNCHANGED <<dirVars, procVars, test, leader, sig, status, read>>

(* A KeyboardInterrupt in Popen after the fork, or before the try that     *)
(* follows it: the test runs and stop_process_group never hears of it.     *)
LaunchInterrupted(s) ==
  /\ At(s, "launch")
  /\ Mishap("interrupt")
  /\ \E p \in Pids :
       /\ state[p] = "none"
       /\ state' = [state EXCEPT ![p] = "starting"]
       /\ group' = [group EXCEPT ![p] = Tag(s)]
       /\ leader' = [leader EXCEPT ![s] = p]
  /\ LeaveBody(s, "abandon")
  /\ UNCHANGED <<dirVars, doomed, test, sig, status, read>>

(* The entry into stop_process_group, which every way out of wait takes.   *)
BeginStop(s) ==
  /\ Goto(s, "signal")
  /\ sig' = [sig EXCEPT ![s] = "TERM"]

ReapLeader(s) ==
  LET p == leader[s] IN
  /\ leader' = [leader EXCEPT ![s] = Nobody]
  /\ state' = [state EXCEPT ![p] = "none"]
  /\ group' = [group EXCEPT ![p] = Nobody]

LeaderZombie(s) == leader[s] # Nobody /\ state[leader[s]] = "zombie"

(* Mutant of LeaderExited: once the leader has exited the rest of its group *)
(* is taken to be gone.                                                    *)
LeaderExitedUnstopped(s) ==
  /\ At(s, "wait") /\ LeaderZombie(s)
  /\ ReapLeader(s)
  /\ \E verdict \in {"passed", "failed"} :
       status' = [status EXCEPT ![s] = verdict]
  /\ Goto(s, "glob")
  /\ UNCHANGED <<dirVars, doomed, test, todo, sig, err, read, mishaps>>

LeaderExited(s) ==
  /\ At(s, "wait") /\ LeaderZombie(s)
  /\ ReapLeader(s)
  /\ \E verdict \in {"passed", "failed"} :
       status' = [status EXCEPT ![s] = verdict]
  /\ BeginStop(s)
  /\ UNCHANGED <<dirVars, doomed, test, todo, err, read, mishaps>>

TimeoutExpires(s) ==
  /\ At(s, "wait")
  /\ status' = [status EXCEPT ![s] = "timeout"]
  /\ BeginStop(s)
  /\ UNCHANGED <<dirVars, procVars, test, todo, leader, err, read, mishaps>>

InterruptWait(s) ==
  /\ At(s, "wait")
  /\ Mishap("interrupt")
  /\ err' = [err EXCEPT ![s] = "interrupt"]
  /\ BeginStop(s)
  /\ UNCHANGED <<dirVars, procVars, test, todo, leader, status, read>>

-----------------------------------------------------------------------------
(* stop_process_group and group_is_running: SIGTERM, then SIGKILL, each    *)
(* followed by scans of /proc until no member of the group is left or the  *)
(* grace period is over.                                                   *)

(* An interrupt that was waiting for the stop leaves the body after it.    *)
Stopped(s) ==
  IF err[s] = "interrupt"
  THEN LeaveBody(s, "interrupt")
  ELSE Goto(s, "glob") /\ UNCHANGED <<todo, err>>

GroupGone(s) ==
  /\ At(s, "signal") /\ Group(s) = {}
  /\ Stopped(s)
  /\ UNCHANGED <<dirVars, procVars, test, leader, sig, status, read, mishaps>>

(* Mutant of SignalGroup: the second round sends no SIGKILL either.         *)
SignalGroupGently(s) ==
  /\ At(s, "signal") /\ Group(s) # {}
  /\ \E victims \in SUBSET LiveGroup(s) : doomed' = doomed \cup victims
  /\ Goto(s, "list")
  /\ UNCHANGED <<dirVars, state, group, test, todo, leader, sig, err, status, read, mishaps>>

(* SIGTERM kills the members that do not handle it, SIGKILL all of them.   *)
SignalGroup(s) ==
  /\ At(s, "signal") /\ Group(s) # {}
  /\ \E victims \in SUBSET LiveGroup(s) :
       /\ sig[s] = "KILL" => victims = LiveGroup(s)
       /\ doomed' = doomed \cup victims
  /\ Goto(s, "list")
  /\ UNCHANGED <<dirVars, state, group, test, todo, leader, sig, err, status, read, mishaps>>

(* proc.poll() reaps the leader, then Path("/proc").iterdir() lists /proc. *)
ListProcesses(s) ==
  /\ At(s, "list")
  /\ IF LeaderZombie(s)
     THEN ReapLeader(s)
     ELSE UNCHANGED <<leader, state, group>>
  /\ todo' = [todo EXCEPT ![s] = {p \in Pids : state[p] # "none"}]
  /\ Goto(s, "scan")
  /\ UNCHANGED <<dirVars, doomed, test, sig, err, status, read, mishaps>>

(* One entry of the listing: a zombie or a stranger is passed over, a      *)
(* member that still runs ends the scan.                                   *)
ScanPasses(s) ==
  /\ At(s, "scan")
  /\ \E p \in todo[s] \ LiveGroup(s) :
       todo' = [todo EXCEPT ![s] = @ \ {p}]
  /\ UNCHANGED <<dirVars, procVars, pc, test, leader, sig, err, status, read, mishaps>>

ScanFinds(s) ==
  /\ At(s, "scan")
  /\ todo[s] \cap LiveGroup(s) # {}
  /\ todo' = [todo EXCEPT ![s] = {}]
  /\ Goto(s, "grace")
  /\ UNCHANGED <<dirVars, procVars, test, leader, sig, err, status, read, mishaps>>

ScanClean(s) ==
  /\ At(s, "scan") /\ todo[s] = {}
  /\ IF LeaderZombie(s)
     THEN ReapLeader(s)
     ELSE UNCHANGED <<leader, state, group>>
  /\ Stopped(s)
  /\ UNCHANGED <<dirVars, doomed, test, sig, status, read, mishaps>>

Rescan(s) ==
  /\ At(s, "grace")
  /\ Goto(s, "list")
  /\ UNCHANGED <<dirVars, procVars, test, todo, leader, sig, err, status, read, mishaps>>

(* Mutant of GraceExpires: no deadline after SIGKILL.                       *)
GraceExpiresOnce(s) ==
  /\ At(s, "grace") /\ sig[s] = "TERM"
  /\ sig' = [sig EXCEPT ![s] = "KILL"]
  /\ Goto(s, "signal")
  /\ UNCHANGED <<dirVars, procVars, test, todo, leader, err, status, read, mishaps>>

(* Mutant of GraceExpires: SIGTERM is taken to be enough.                   *)
GraceExpiresUnkilled(s) ==
  /\ At(s, "grace")
  /\ Goto(s, "glob")
  /\ UNCHANGED <<dirVars, procVars, test, todo, leader, sig, err, status, read, mishaps>>

(* The grace period is over: on to SIGKILL, or give the group up.          *)
GraceExpires(s) ==
  /\ At(s, "grace")
  /\ \/ /\ sig[s] = "TERM"
        /\ sig' = [sig EXCEPT ![s] = "KILL"]
        /\ Goto(s, "signal")
        /\ UNCHANGED <<todo, err>>
     \/ /\ sig[s] = "KILL"
        /\ LeaveBody(s, "isolation")
        /\ UNCHANGED sig
  /\ UNCHANGED <<dirVars, procVars, test, leader, status, read, mishaps>>

(* A KeyboardInterrupt, or an OSError from killpg or /proc, leaves         *)
(* stop_process_group before the group is dead.                            *)
StopBroken(s) ==
  /\ pc[s] \in {"signal", "list", "scan", "grace"}
  /\ \E kind \in Exceptions : Mishap(kind)
  /\ LeaveBody(s, "abandon")
  /\ UNCHANGED <<dirVars, procVars, test, leader, sig, status, read>>

-----------------------------------------------------------------------------
(* run_test: list the traces, log, read them one by one.                   *)

(* Mutant of Glob: a passed test needs no trace file.                       *)
GlobUnchecked(s) ==
  /\ At(s, "glob")
  /\ todo' = [todo EXCEPT ![s] = Present]
  /\ Goto(s, "collect")
  /\ UNCHANGED <<dirVars, procVars, test, leader, sig, err, status, read, mishaps>>

Glob(s) ==
  /\ At(s, "glob")
  /\ todo' = [todo EXCEPT ![s] = Present]
  /\ status' = [status EXCEPT ![s] =
                  IF @ = "passed" /\ Present = {} THEN "runner-error" ELSE @]
  /\ Goto(s, "collect")
  /\ UNCHANGED <<dirVars, procVars, test, leader, sig, err, read, mishaps>>

(* A damaged trace, or one that is gone, adds nothing and costs the test   *)
(* its passed; a whole one is read, though it may be a header without rows. *)
CollectOne(s) ==
  /\ At(s, "collect")
  /\ \E p \in todo[s] :
       /\ todo' = [todo EXCEPT ![s] = @ \ {p}]
       /\ \/ /\ file[p].by # Nobody /\ file[p].whole
             /\ read' = [read EXCEPT ![s] = @ \cup {file[p].by}]
             /\ UNCHANGED status
          \/ /\ file[p].by = Nobody \/ ~file[p].whole
             /\ status' = [status EXCEPT ![s] =
                             IF @ = "passed" THEN "runner-error" ELSE @]
             /\ UNCHANGED read
  /\ UNCHANGED <<dirVars, procVars, pc, test, leader, sig, err, mishaps>>

CollectDone(s) ==
  /\ At(s, "collect") /\ todo[s] = {}
  /\ LeaveBody(s, "none")
  /\ UNCHANGED <<dirVars, procVars, test, leader, sig, status, read, mishaps>>

(* Writing or extending the log fails, or the user interrupts.             *)
CollectFails(s) ==
  /\ pc[s] \in {"glob", "collect"}
  /\ \E kind \in Exceptions : Mishap(kind) /\ LeaveBody(s, kind)
  /\ UNCHANGED <<dirVars, procVars, test, leader, sig, status, read>>

-----------------------------------------------------------------------------
(* trace_workspace, the finally clause: delete this run's traces (a file   *)
(* that is gone already is no error), then put the moved ones back.        *)

CleanupOne(s) ==
  /\ At(s, "cleanup")
  /\ \E p \in todo[s] :
       /\ file' = [file EXCEPT ![p] = NoFile]
       /\ todo' = [todo EXCEPT ![s] = @ \ {p}]
  /\ UNCHANGED <<lock, backup, procVars, pc, test, leader, sig, err, status, read, mishaps>>

CleanupDone(s) ==
  /\ At(s, "cleanup") /\ todo[s] = {}
  /\ Goto(s, "restore")
  /\ UNCHANGED <<dirVars, procVars, test, todo, leader, sig, err, status, read, mishaps>>

(* Mutant of FinallyFails: the OSError is swallowed, the next test starts.  *)
FinallyFailsQuietly(s) ==
  \E kind \in Exceptions :
    /\ Mishap(kind)
    /\ err' = [err EXCEPT ![s] =
                 IF @ = "abandon" THEN @
                 ELSE IF kind = "oserror" THEN "oserror" ELSE "cut"]

(* An OSError in the finally clause becomes a TraceIsolationError; a       *)
(* KeyboardInterrupt is not caught there and cuts the clause short as it is. *)
FinallyFails(s) ==
  \E kind \in Exceptions :
    /\ Mishap(kind)
    /\ err' = [err EXCEPT ![s] =
                 IF @ = "abandon" THEN @
                 ELSE IF kind = "oserror" THEN "isolation" ELSE "cut"]

CleanupFails(s) ==
  /\ At(s, "cleanup")
  /\ FinallyFails(s)
  /\ Goto(s, "restore")
  /\ UNCHANGED <<dirVars, procVars, test, todo, leader, sig, status, read>>

RestoreOne(s) ==
  /\ At(s, "restore")
  /\ \E p \in Moved(s) :
       /\ file' = [file EXCEPT ![p] = backup[s][p]]
       /\ backup' = [backup EXCEPT ![s][p] = NoFile]
  /\ UNCHANGED <<lock, procVars, suiteVars, mishaps>>

RestoreDone(s) ==
  /\ At(s, "restore") /\ Moved(s) = {}
  /\ Goto(s, "release")
  /\ UNCHANGED <<dirVars, procVars, test, todo, leader, sig, err, status, read, mishaps>>

RestoreFails(s) ==
  /\ At(s, "restore")
  /\ FinallyFails(s)
  /\ Goto(s, "release")
  /\ UNCHANGED <<dirVars, procVars, test, todo, leader, sig, status, read>>

(* Closing the lock file releases the lock.  main goes on after a result   *)
(* or an ordinary exception, and stops the suite after any other.          *)
Release(s) ==
  /\ At(s, "release")
  /\ lock' = Nobody
  /\ todo' = [todo EXCEPT ![s] = {}]
  /\ leader' = [leader EXCEPT ![s] = Nobody]
  /\ \/ /\ err[s] = "none"
        /\ Goto(s, "idle")
        /\ UNCHANGED <<status, read>>
     \/ /\ err[s] = "oserror"
        /\ Goto(s, "idle")
        /\ status' = [status EXCEPT ![s] = "runner-error"]
        /\ read' = [read EXCEPT ![s] = {}]
     \/ /\ err[s] \in {"interrupt", "cut", "isolation", "abandon"}
        /\ Goto(s, "aborted")
        /\ status' = [status EXCEPT ![s] = "none"]
        /\ read' = [read EXCEPT ![s] = {}]
  /\ UNCHANGED <<file, backup, procVars, test, sig, err, mishaps>>

(* The suite is killed: the kernel drops its lock, its test lives on.      *)
Crash(s) ==
  /\ pc[s] \notin {"idle", "aborted", "crashed"}
  /\ Mishap("crash")
  /\ Goto(s, "crashed")
  /\ lock' = Nobody
  /\ todo' = [todo EXCEPT ![s] = {}]
  /\ leader' = [leader EXCEPT ![s] = Nobody]
  /\ read' = [read EXCEPT ![s] = {}]
  /\ UNCHANGED <<file, backup, procVars, test, sig, err, status>>

-----------------------------------------------------------------------------
(* The traced processes.  A process the kernel has sent a fatal signal     *)
(* runs no more of its program.                                            *)

Runs(p, at) == state[p] = at /\ p \notin doomed

(* The tracer opens dynamic.<p>.csv, over whatever has that name.  The     *)
(* file reads as whole or torn from then on, until the process exits.      *)
OpenTrace(p) ==
  /\ Runs(p, "starting")
  /\ state' = [state EXCEPT ![p] = "tracing"]
  /\ \E w \in BOOLEAN : file' = [file EXCEPT ![p] = [by |-> group[p], whole |-> w]]
  /\ UNCHANGED <<lock, backup, group, doomed, suiteVars, mishaps>>

Fork(p) ==
  /\ Runs(p, "tracing")
  /\ ForkDuringScan \/ \A s \in Suites : At(s, "scan") => group[p] # Tag(s)
  /\ \E c \in Pids :
       /\ state[c] = "none"
       /\ state' = [state EXCEPT ![c] = "starting"]
       /\ group' = [group EXCEPT ![c] = group[p]]
  /\ UNCHANGED <<dirVars, doomed, suiteVars, mishaps>>

(* An exit event completes the file; a kill leaves it as it is.            *)
Exit(p) ==
  /\ Runs(p, "starting") \/ Runs(p, "tracing")
  /\ state' = [state EXCEPT ![p] = "zombie"]
  /\ file' = IF state[p] = "tracing" /\ file[p].by = group[p]
             THEN [file EXCEPT ![p].whole = TRUE] ELSE file
  /\ UNCHANGED <<lock, backup, group, doomed, suiteVars, mishaps>>

Die(p) ==
  /\ Live(p) /\ p \in doomed
  /\ state' = [state EXCEPT ![p] = "zombie"]
  /\ doomed' = doomed \ {p}
  /\ UNCHANGED <<dirVars, group, suiteVars, mishaps>>

(* A parent inside the group, or init, reaps any zombie but the leader.    *)
Reap(p) ==
  /\ state[p] = "zombie"
  /\ \A s \in Suites : leader[s] # p
  /\ state' = [state EXCEPT ![p] = "none"]
  /\ group' = [group EXCEPT ![p] = Nobody]
  /\ UNCHANGED <<dirVars, doomed, suiteVars, mishaps>>

-----------------------------------------------------------------------------
Stop(s) ==
  \/ GroupGone(s) \/ SignalGroup(s) \/ ListProcesses(s) \/ ScanPasses(s)
  \/ ScanFinds(s) \/ ScanClean(s) \/ Rescan(s) \/ GraceExpires(s)

Step(s) ==
  \/ Acquire(s) \/ LockBusy(s) \/ MoveOne(s) \/ MoveDone(s)
  \/ Launch(s) \/ LeaderExited(s) \/ TimeoutExpires(s) \/ Stop(s)
  \/ Glob(s) \/ CollectOne(s) \/ CollectDone(s)
  \/ CleanupOne(s) \/ CleanupDone(s) \/ RestoreOne(s) \/ RestoreDone(s)
  \/ Release(s)

Mishappen(s) ==
  \/ SetupFails(s) \/ MoveFails(s) \/ LaunchFails(s) \/ LaunchInterrupted(s)
  \/ CollectFails(s) \/ CleanupFails(s) \/ RestoreFails(s)
  \/ InterruptWait(s) \/ StopBroken(s) \/ Crash(s)

Process(p) == OpenTrace(p) \/ Fork(p) \/ Exit(p) \/ Die(p) \/ Reap(p)

Next ==
  \/ \E s \in Suites : Step(s) \/ Mishappen(s)
  \/ \E p \in Pids : Process(p)

Spec == Init /\ [][Next]_vars

(* A suite that is not killed takes its next step, and its grace periods   *)
(* end: both are bounded by the monotonic clock, --timeout too.            *)
Fairness == \A s \in Suites : WF_vars(Step(s)) /\ SF_vars(GraceExpires(s))

FairSpec == Spec /\ Fairness

-----------------------------------------------------------------------------
TypeOK ==
  /\ lock \in Suites \cup {Nobody}
  /\ file \in [Pids -> Contents]
  /\ backup \in [Suites -> [Pids -> Contents]]
  /\ state \in [Pids -> {"none", "starting", "tracing", "zombie"}]
  /\ group \in [Pids -> Tags \cup {Nobody}]
  /\ doomed \subseteq Pids
  /\ pc \in [Suites -> Points]
  /\ test \in [Suites -> 0 .. MaxTests]
  /\ todo \in [Suites -> SUBSET Pids]
  /\ leader \in [Suites -> Pids \cup {Nobody}]
  /\ sig \in [Suites -> {"TERM", "KILL"}]
  /\ err \in [Suites -> {"none", "oserror", "interrupt", "cut", "isolation", "abandon"}]
  /\ status \in [Suites -> {"none", "passed", "failed", "timeout", "runner-error"}]
  /\ read \in [Suites -> SUBSET (Tags \cup {User})]
  /\ mishaps \in 0 .. MaxMishaps

(* Suites that left the directory while their test might still run: killed, *)
(* or with an exception out of stop_process_group or the start of the test. *)
Abandoned == {s \in Suites : pc[s] = "crashed" \/ err[s] = "abandon"}

(* The suite whose test wrote dynamic.<p>.csv, or Nobody.                  *)
OwnerOf(p) == IF file[p].by \in Tags THEN file[p].by[1] ELSE Nobody

(* The user's traces survive every suite: each is in the working directory *)
(* or in a preserved directory, whatever fails and even if a suite is      *)
(* killed - unless a group that could not be stopped was let loose on the  *)
(* restored directory (trace_workspace, README "Process and trace          *)
(* ownership").                                                            *)
UserTracesSafe ==
  \A u \in UserPids :
    \/ file[u].by = User
    \/ \E s \in Suites : backup[s][u].by = User
    \/ \E s \in Suites : err[s] = "abandon"

(* The traces a result is read from, and so its rows, were written by that *)
(* test: none come from the user, from an earlier test, or from another    *)
(* suite's test, abandoned ones excepted (run_test, collect_pid_traces).   *)
CollectsOwnRows ==
  \A s \in Suites : \A o \in read[s] :
    o = Tag(s) \/ (o \in Tags /\ o[1] \in Abandoned)

(* A test is recorded as passed only if every trace it left was whole, and *)
(* at least one was there (a header without rows is one: such a test called *)
(* nothing indirectly).  run_test turns passed into runner-error when no   *)
(* trace file is there or one of them is damaged.                          *)
PassedHasOwnTraces ==
  \A s \in Suites : status[s] = "passed" =>
    /\ At(s, "idle") => Tag(s) \in read[s] \/ Abandoned # {}
    /\ At(s, "cleanup") /\ err[s] = "none" =>
         \A p \in Pids : file[p].by = Tag(s) => file[p].whole

(* Traces are listed and read only when the whole group has stopped        *)
(* (run_test, comment before trace_files).                                 *)
QuietCollection ==
  \A s \in Suites : pc[s] \in {"glob", "collect"} => LiveGroup(s) = {}

(* A process that still runs its program belongs to the test of the suite  *)
(* that holds the lock: no process leaks into the next test                *)
(* (TraceIsolationError, README "runs one test at a time").                *)
OneTracedRun ==
  \A p \in Pids :
    Live(p) /\ p \notin doomed =>
      \/ lock # Nobody /\ group[p] = Tag(lock)
      \/ group[p][1] \in Abandoned

(* A suite whose finally clause ran to its end - after a result, after an  *)
(* OSError, after an interrupt of the test - keeps nothing in its preserved *)
(* directory and leaves no trace of the test behind; and one that goes on   *)
(* to another test leaves none of any of its tests (trace_workspace).  An   *)
(* OSError in the clause (TraceIsolationError) or a KeyboardInterrupt in it *)
(* does leave files, and the suite does not go on.                          *)
HandsBackDirectory ==
  \A s \in Suites :
    /\ At(s, "release") /\ err[s] \in {"none", "oserror", "interrupt"} =>
         /\ Moved(s) = {}
         /\ Abandoned = {} => \A p \in Pids : file[p].by # Tag(s)
    /\ At(s, "idle") =>
         /\ Moved(s) = {}
         /\ Abandoned = {} => \A p \in Pids : OwnerOf(p) # s

(* Whoever holds the directory lets go of it, however stubborn the test    *)
(* (run_test's timeout and the grace periods of stop_process_group).       *)
LockIsReleased ==
  \A s \in Suites : lock = s ~> lock # s
=============================================================================
