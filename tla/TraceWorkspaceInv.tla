-------------------------- MODULE TraceWorkspaceInv -------------------------
(***************************************************************************)
(* The inductive invariant behind the properties of TraceWorkspace, in     *)
(* named parts: TLC checks it on small instances, TraceWorkspace_proofs    *)
(* proves it.  It holds when no member of a process group forks while      *)
(* group_is_running reads /proc (ForkDuringScan = FALSE).                  *)
(***************************************************************************)
EXTENDS TraceWorkspace

(* Between these points the suite's test may run its program.              *)
RunPoints == {"wait", "signal", "list", "scan", "grace"}
(* Between these points the user's traces are out of the way.              *)
ReadyPoints == RunPoints \cup {"launch", "glob", "collect", "cleanup"}
HoldPoints == ReadyPoints \cup {"move", "restore", "release"}

(* Ways out after which the finally clause has finished.                   *)
Graceful == {"none", "oserror", "interrupt"}

Active(p) == Live(p) /\ p \notin doomed
AbandonedTag(o) == o \in Tags /\ o[1] \in Abandoned
OwnTag(o) == lock # Nobody /\ o = Tag(lock)

(* Mutual exclusion: the points inside the with statement are the lock's;  *)
(* and a suite that goes on has no fatal exception behind it.              *)
LockInv ==
  \A s \in Suites :
    /\ pc[s] \in HoldPoints <=> lock = s
    /\ pc[s] \in HoldPoints => test[s] > 0
    /\ At(s, "idle") => err[s] \in {"none", "oserror"}
    /\ pc[s] \in HoldPoints \ {"cleanup", "restore", "release"} =>
         err[s] \in {"none", "interrupt"}

(* Every process has a group, and one that runs its program belongs to the *)
(* test under way or to an abandoned one.                                  *)
ActiveInv ==
  \A p \in Pids :
    /\ state[p] # "none" => group[p] \in Tags
    /\ Active(p) => \/ OwnTag(group[p]) /\ pc[lock] \in RunPoints
                    \/ AbandonedTag(group[p])

(* The /proc scan misses no live member; SIGKILL spares none; nothing is   *)
(* listed or read before the group has stopped.                            *)
ScanInv ==
  \A s \in Suites :
    /\ At(s, "scan") => LiveGroup(s) \subseteq todo[s]
    /\ sig[s] = "KILL" /\ pc[s] \in {"list", "scan", "grace"} =>
         LiveGroup(s) \subseteq doomed
    /\ pc[s] \in {"glob", "collect"} => LiveGroup(s) = {}

UserFile(c) == c.by = User
NobodyAbandons == \A s \in Suites : err[s] # "abandon"

(* Where the suite at each point has the user's traces.                    *)
UserPlaceInv ==
  \A s \in Suites :
    /\ At(s, "move") =>
         /\ \A p \in Pids : UserFile(file[p]) => p \in todo[s]
         /\ todo[s] \cap Moved(s) = {}
    /\ pc[s] \in ReadyPoints => \A p \in Pids : ~UserFile(file[p])
    /\ At(s, "idle") => Moved(s) = {}
    /\ At(s, "release") /\ err[s] \in Graceful => Moved(s) = {}
    /\ lock = s => \A p \in Moved(s) : ~UserFile(file[p])

(* While any process runs its program no user's trace is in its way, and   *)
(* none is about to be put there.                                          *)
UserApartInv ==
  NobodyAbandons =>
    \A p \in Pids : Active(p) =>
      /\ \A q \in Pids : ~UserFile(file[q])
      /\ \A s \in Suites : lock = s /\ group[p] # Tag(s) =>
           \A q \in Pids : ~UserFile(backup[s][q])

(* Whose traces the suite at each point can see.                           *)
OwnerInv ==
  \A s \in Suites :
    /\ At(s, "move") =>
         \A p \in Pids \ todo[s] :
           file[p].by = Nobody \/ AbandonedTag(file[p].by)
    /\ pc[s] \in {"launch", "glob", "collect"} \cup RunPoints =>
         \A p \in Pids :
           \/ file[p].by \in {Nobody, Tag(s)}
           \/ AbandonedTag(file[p].by)

(* A test not started yet has no process and no trace, and what a suite    *)
(* has set aside was there before its test.                                *)
UpTo(o, s, n) == o \in Tags /\ o[1] = s => o[2] <= n

FreshInv ==
  /\ \A p \in Pids : \A s \in Suites :
       /\ UpTo(file[p].by, s, test[s])
       /\ UpTo(group[p], s, test[s])
       /\ \A r \in Suites : UpTo(backup[r][p].by, s, test[s])
  /\ \A s \in Suites : \A p \in Pids :
       /\ lock = s => backup[s][p].by # Tag(s)
       /\ At(s, "move") => file[p].by # Tag(s)

(* Each trace of the test under way that is there when cleanup begins is   *)
(* on its list, and none is left after it.                                 *)
HandBackInv ==
  Abandoned = {} =>
    \A s \in Suites : \A p \in Pids : file[p].by = Tag(s) =>
      /\ At(s, "cleanup") => p \in todo[s]
      /\ pc[s] \in {"restore", "release"} => err[s] \in {"isolation", "cut"}

(* A test whose suite reported an isolation error, or was interrupted in   *)
(* its finally clause: its traces may be left behind.                      *)
LeftTag(o) == o \in Tags /\ err[o[1]] \in {"isolation", "cut"}

(* The traces of all other tests but the one under way are gone, from the  *)
(* directory and from where the suites set traces aside.                   *)
LeftInv ==
  Abandoned = {} =>
    \A p \in Pids :
      /\ file[p].by \in Tags => OwnTag(file[p].by) \/ LeftTag(file[p].by)
      /\ \A s \in Suites : backup[s][p].by \in Tags => LeftTag(backup[s][p].by)

(* A test still called passed has been read from a trace or has traces to  *)
(* read,                                                                   *)
VerdictInv ==
  \A s \in Suites : status[s] = "passed" =>
    /\ At(s, "collect") => todo[s] # {} \/ read[s] # {}
    /\ At(s, "idle") => read[s] # {}
    /\ pc[s] \in {"cleanup", "restore", "release"} /\ err[s] = "none" =>
         read[s] # {}

(* and each of its traces that has been read was whole.                    *)
WholeInv ==
  \A s \in Suites : status[s] = "passed" =>
    \A p \in Pids : file[p].by = Tag(s) =>
      /\ At(s, "collect") => p \in todo[s] \/ file[p].whole
      /\ At(s, "cleanup") /\ err[s] = "none" => file[p].whole

IndInv ==
  /\ TypeOK
  /\ LockInv
  /\ ActiveInv
  /\ ScanInv
  /\ UserPlaceInv
  /\ UserApartInv
  /\ UserTracesSafe
  /\ OwnerInv
  /\ CollectsOwnRows
  /\ VerdictInv
  /\ WholeInv
  /\ FreshInv
  /\ HandBackInv
  /\ LeftInv
=============================================================================
