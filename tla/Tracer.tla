------------------------------- MODULE Tracer --------------------------------
(***************************************************************************)
(* The DynamoRIO client that traces the indirect calls of a process tree:  *)
(* icall_trace.c, trace_common.c, fast_trace.c and edge_trace.c.           *)
(*                                                                         *)
(* In edge mode a thread writes a row at each call, in two writes under a  *)
(* lock: the call site, then the target.  In fast mode a call only sets a  *)
(* flag, and the rows are written when the process exits.  A fork gives    *)
(* the child the parent's memory and its open trace; event_fork, a step of *)
(* its own, opens the child's.  A process may be killed at any point.      *)
(*                                                                         *)
(* DynamoRIO is external: it brings the other threads to a safe point,     *)
(* where they hold no client lock, before a fork, an exec or an exit.      *)
(***************************************************************************)
EXTENDS Naturals, Sequences

CONSTANTS
  Pids, Threads,   \* processes, and the threads each may have
  Sites, Targets,  \* call sites and call targets (canonical addresses)
  NotRecorded,     \* the target column of fast mode
  None,            \* no thread, no file, no call
  Copies,          \* instrumentation instances of one call site
  MaxCalls,        \* bound on the calls of a process
  MaxFailures      \* bound on trace files that cannot be created

ASSUME ConstantsAssumption ==
  /\ None \notin Pids \cup Threads \cup (Sites \X Targets)
  /\ NotRecorded \notin Targets
  /\ MaxCalls \in Nat /\ MaxFailures \in Nat

Calls  == Sites \X Targets
Pieces == Sites \cup Targets \cup {NotRecorded}

VARIABLES
  mode,      \* -mode fast or edge, for the process and all it forks
  life,      \* life[p]: none, forked, running, flushing, exited, killed, failed
  file,      \* file[p]: what is in dynamic.<p>.csv after its header
  log,       \* log[p]: log_file, the pid in the name of the file p writes to
  holder,    \* holder[p]: thread of p that holds log_lock
  busy,      \* busy[p][t]: call whose row thread t has begun to write
  sites,     \* sites[p]: site_list, as <<call site, copy>>
  covered,   \* covered[p]: members of site_list whose flag is set
  unwritten, \* unwritten[p]: what flush_covered_sites has not reached
  calls,     \* history: the calls p has made since it started or was forked
  failures   \* trace files that could not be created

vars == <<mode, life, file, log, holder, busy, sites, covered, unwritten, calls, failures>>

Lives == {"none", "forked", "running", "flushing", "exited", "killed", "failed"}

Init ==
  /\ mode \in {"fast", "edge"}
  /\ life = [p \in Pids |-> "none"]
  /\ file = [p \in Pids |-> << >>]
  /\ log = [p \in Pids |-> None]
  /\ holder = [p \in Pids |-> None]
  /\ busy = [p \in Pids |-> [t \in Threads |-> None]]
  /\ sites = [p \in Pids |-> {}]
  /\ covered = [p \in Pids |-> {}]
  /\ unwritten = [p \in Pids |-> {}]
  /\ calls = [p \in Pids |-> << >>]
  /\ failures = 0

-----------------------------------------------------------------------------
Running(p) == life[p] = "running"
AtSafePoint(p) == \A t \in Threads : busy[p][t] = None
Become(p, l) == life' = [life EXCEPT ![p] = l]
Write(p, piece) == file' = [file EXCEPT ![log[p]] = Append(@, piece)]

(* dr_client_main, at the start of the program: an empty trace, no sites.  *)
ClientMain(p) ==
  /\ Become(p, "running")
  /\ file' = [file EXCEPT ![p] = << >>]
  /\ log' = [log EXCEPT ![p] = p]
  /\ holder' = [holder EXCEPT ![p] = None]
  /\ sites' = [sites EXCEPT ![p] = {}]
  /\ covered' = [covered EXCEPT ![p] = {}]
  /\ calls' = [calls EXCEPT ![p] = << >>]
  /\ UNCHANGED <<mode, busy, unwritten, failures>>

Start(p) ==
  /\ \A q \in Pids : life[q] = "none"
  /\ ClientMain(p)

(* A new program in the same process: the client starts over, over the     *)
(* trace the process has written so far (README, Current Limitations).     *)
Exec(p) ==
  /\ Running(p) /\ AtSafePoint(p)
  /\ ClientMain(p)

(* trace_output_open fails: the client aborts the process.                 *)
OpenFails(p) ==
  /\ failures < MaxFailures
  /\ failures' = failures + 1
  /\ Become(p, "failed")
  /\ log' = [log EXCEPT ![p] = None]
  /\ UNCHANGED <<mode, file, holder, busy, sites, covered, unwritten, calls>>

StartFails(p) ==
  /\ \A q \in Pids : life[q] = "none"
  /\ OpenFails(p)

-----------------------------------------------------------------------------
(* Fast mode.  A block that is built or rebuilt gets site records of its   *)
(* own; running the call sets the flag of one of them.                     *)

Instrument(p) ==
  /\ mode = "fast" /\ Running(p)
  /\ \E site \in (Sites \X Copies) \ sites[p] :
       sites' = [sites EXCEPT ![p] = @ \cup {site}]
  /\ UNCHANGED <<mode, life, file, log, holder, busy, covered, unwritten, calls, failures>>

(* Mutant of MarkCovered: the clean call gets the call site, not its record. *)
MarkCoveredBySite(p) ==
  /\ mode = "fast" /\ Running(p)
  /\ Len(calls[p]) < MaxCalls
  /\ \E site \in sites[p] :
       /\ covered' = [covered EXCEPT ![p] = @ \cup {site[1]}]
       /\ calls' = [calls EXCEPT ![p] = Append(@, <<site[1], NotRecorded>>)]
  /\ UNCHANGED <<mode, life, file, log, holder, busy, sites, unwritten, failures>>

MarkCovered(p) ==
  /\ mode = "fast" /\ Running(p)
  /\ Len(calls[p]) < MaxCalls
  /\ \E site \in sites[p] :
       /\ covered' = [covered EXCEPT ![p] = @ \cup {site}]
       /\ calls' = [calls EXCEPT ![p] = Append(@, <<site[1], NotRecorded>>)]
  /\ UNCHANGED <<mode, life, file, log, holder, busy, sites, unwritten, failures>>

(* Mutant of RecordSite: rows are written without the lock.                 *)
RecordSiteUnlocked(p, t) ==
  /\ mode = "edge" /\ Running(p)
  /\ busy[p][t] = None
  /\ Len(calls[p]) < MaxCalls
  /\ \E call \in Calls :
       /\ Write(p, call[1])
       /\ busy' = [busy EXCEPT ![p][t] = call]
       /\ calls' = [calls EXCEPT ![p] = Append(@, call)]
  /\ UNCHANGED <<mode, life, log, holder, sites, covered, unwritten, failures>>

(* Edge mode: record_edge takes log_lock and writes the call site ...      *)
RecordSite(p, t) ==
  /\ mode = "edge" /\ Running(p)
  /\ busy[p][t] = None /\ holder[p] = None
  /\ Len(calls[p]) < MaxCalls
  /\ \E call \in Calls :
       /\ Write(p, call[1])
       /\ busy' = [busy EXCEPT ![p][t] = call]
       /\ calls' = [calls EXCEPT ![p] = Append(@, call)]
  /\ holder' = [holder EXCEPT ![p] = t]
  /\ UNCHANGED <<mode, life, log, sites, covered, unwritten, failures>>

(* ... then the target, and gives the lock back.                           *)
RecordTarget(p, t) ==
  /\ Running(p) /\ busy[p][t] # None
  /\ Write(p, busy[p][t][2])
  /\ busy' = [busy EXCEPT ![p][t] = None]
  /\ holder' = [holder EXCEPT ![p] = None]
  /\ UNCHANGED <<mode, life, log, sites, covered, unwritten, calls, failures>>

-----------------------------------------------------------------------------
(* The child has the parent's memory, and its log_file is the parent's.    *)
Fork(p, c) ==
  /\ Running(p) /\ AtSafePoint(p)
  /\ life[c] = "none"
  /\ Become(c, "forked")
  /\ log' = [log EXCEPT ![c] = log[p]]
  /\ sites' = [sites EXCEPT ![c] = sites[p]]
  /\ covered' = [covered EXCEPT ![c] = covered[p]]
  /\ calls' = [calls EXCEPT ![c] = << >>]
  /\ UNCHANGED <<mode, file, holder, busy, unwritten, failures>>

(* Mutant of EventFork: the child keeps the flags its parent set.           *)
EventForkKeepsFlags(c) ==
  /\ life[c] = "forked"
  /\ Become(c, "running")
  /\ log' = [log EXCEPT ![c] = c]
  /\ file' = [file EXCEPT ![c] = << >>]
  /\ UNCHANGED <<mode, holder, busy, sites, covered, unwritten, calls, failures>>

(* Mutant of BeginExit: a trace is complete without the flush.              *)
BeginExitUnflushed(p) ==
  /\ Running(p) /\ AtSafePoint(p)
  /\ Become(p, "exited")
  /\ UNCHANGED <<mode, file, log, holder, busy, sites, covered, unwritten, calls, failures>>

(* event_fork: a trace of its own; fast mode keeps the records, which the  *)
(* copied code points to, and clears the flags.                            *)
EventFork(c) ==
  /\ life[c] = "forked"
  /\ Become(c, "running")
  /\ log' = [log EXCEPT ![c] = c]
  /\ file' = [file EXCEPT ![c] = << >>]
  /\ covered' = [covered EXCEPT ![c] = {}]
  /\ UNCHANGED <<mode, holder, busy, sites, unwritten, calls, failures>>

EventForkFails(c) ==
  /\ life[c] = "forked"
  /\ OpenFails(c)

-----------------------------------------------------------------------------
(* event_exit: fast mode writes a row for each covered record and frees    *)
(* the list; edge mode has written everything.                             *)
BeginExit(p) ==
  /\ Running(p) /\ AtSafePoint(p)
  /\ Become(p, "flushing")
  /\ unwritten' = [unwritten EXCEPT ![p] = covered[p]]
  /\ UNCHANGED <<mode, file, log, holder, busy, sites, covered, calls, failures>>

Flushed(p) == Len(file[log[p]]) % 2 = 0

FlushSite(p) ==
  /\ life[p] = "flushing" /\ Flushed(p)
  /\ \E site \in unwritten[p] :
       /\ Write(p, site[1])
       /\ unwritten' = [unwritten EXCEPT ![p] = @ \ {site}]
  /\ UNCHANGED <<mode, life, log, holder, busy, sites, covered, calls, failures>>

FlushRest(p) ==
  /\ life[p] = "flushing" /\ ~Flushed(p)
  /\ Write(p, NotRecorded)
  /\ UNCHANGED <<mode, life, log, holder, busy, sites, covered, unwritten, calls, failures>>

EndExit(p) ==
  /\ life[p] = "flushing" /\ unwritten[p] = {} /\ Flushed(p)
  /\ Become(p, "exited")
  /\ log' = [log EXCEPT ![p] = None]
  /\ sites' = [sites EXCEPT ![p] = {}]
  /\ covered' = [covered EXCEPT ![p] = {}]
  /\ UNCHANGED <<mode, file, holder, busy, unwritten, calls, failures>>

Kill(p) ==
  /\ life[p] \in {"forked", "running", "flushing"}
  /\ Become(p, "killed")
  /\ UNCHANGED <<mode, file, log, holder, busy, sites, covered, unwritten, calls, failures>>

Program(p) ==
  \/ Start(p) \/ StartFails(p) \/ Exec(p)
  \/ Instrument(p) \/ MarkCovered(p)
  \/ \E t \in Threads : RecordSite(p, t) \/ RecordTarget(p, t)
  \/ \E c \in Pids : Fork(p, c)
  \/ EventFork(p) \/ EventForkFails(p)

Exit(p) == BeginExit(p) \/ FlushSite(p) \/ FlushRest(p) \/ EndExit(p) \/ Kill(p)

Next == \E p \in Pids : Program(p) \/ Exit(p)

Spec == Init /\ [][Next]_vars

-----------------------------------------------------------------------------
TypeOK ==
  /\ mode \in {"fast", "edge"}
  /\ life \in [Pids -> Lives]
  /\ file \in [Pids -> Seq(Pieces)]
  /\ log \in [Pids -> Pids \cup {None}]
  /\ holder \in [Pids -> Threads \cup {None}]
  /\ busy \in [Pids -> [Threads -> Calls \cup {None}]]
  /\ sites \in [Pids -> SUBSET (Sites \X Copies)]
  /\ covered \in [Pids -> SUBSET (Sites \X Copies)]
  /\ unwritten \in [Pids -> SUBSET (Sites \X Copies)]
  /\ calls \in [Pids -> Seq(Sites \X (Targets \cup {NotRecorded}))]
  /\ failures \in 0 .. MaxFailures

(* The rows a file holds when each two pieces make one.                    *)
Rows(f) == [i \in 1 .. Len(f) \div 2 |-> <<f[2 * i - 1], f[2 * i]>>]
Torn(f) == Len(f) % 2 = 1
SitesOf(rows) == {rows[i][1] : i \in 1 .. Len(rows)}

(* Edge mode: the trace of a process is, row by row, the calls it has made *)
(* since it started or was forked - none of another process, no row split  *)
(* by another thread - and at most the last call's target is still to be   *)
(* written (record_edge, event_fork).                                      *)
EdgeTraceIsHistory ==
  mode = "edge" =>
    \A p \in Pids : life[p] \in {"running", "flushing", "exited", "killed"} =>
      LET written == Rows(file[p])
          n == Len(calls[p])
      IN /\ written = SubSeq(calls[p], 1, IF Torn(file[p]) THEN n - 1 ELSE n)
         /\ Torn(file[p]) => file[p][Len(file[p])] = calls[p][n][1]

(* Fast mode: once a process has exited its trace names exactly the call   *)
(* sites it has run itself, however often a site was instrumented and      *)
(* whatever its parent had run (fast_trace_exit, fast_trace_fork).         *)
FastTraceIsCoverage ==
  mode = "fast" =>
    \A p \in Pids : life[p] = "exited" =>
      SitesOf(Rows(file[p])) = SitesOf(calls[p])

(* No trace ever names a site its process has not run, even if it was      *)
(* killed; only a process that was killed leaves a torn row behind.        *)
NoForeignSites ==
  \A p \in Pids :
    /\ life[p] \in {"running", "flushing", "exited", "killed"} =>
         SitesOf(Rows(file[p])) \subseteq SitesOf(calls[p])
    /\ Torn(file[p]) => life[p] \in {"running", "flushing", "killed"}
=============================================================================
