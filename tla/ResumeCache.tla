----------------------------- MODULE ResumeCache -----------------------------
(***************************************************************************)
(* The stored result of one test: traces/<stem>.csv and its JSON sidecar,  *)
(* as the loop of run_suite.py's main reads and replaces them (load_resume, *)
(* write_test_trace, save_metadata) over a sequence of suite runs that use *)
(* the same --output-dir and may be interrupted anywhere.                  *)
(*                                                                         *)
(* Run s is at one program point pc[s]:                                    *)
(*                                                                         *)
(*   idle -> load -> digest -> read -> idle                 (reused)       *)
(*        -> invalidate -> run -> write -> replace -> hash -> sidecar      *)
(*        -> install -> idle                                (executed)     *)
(*                                                                         *)
(* Every test has its own pair of files: main refuses two tests with the   *)
(* same stem.  Writing a temporary file is one step here; an interruption  *)
(* leaves it torn.                                                         *)
(***************************************************************************)
EXTENDS Naturals

CONSTANTS
  Suites,        \* suite processes that share the output directory
  Identities,    \* values of trace_identity: mode, command, executable, ...
  NoIdentity,    \* identity is None
  Marks,         \* tells traces with equally many rows apart
  MaxEvents,     \* bound on the rows of a trace
  Absent, Torn,  \* no such file, and bytes that are no CSV or no JSON
  Nothing,       \* no result, and the mark of an empty trace
  MaxStarts,     \* bound on the runs started
  MaxDamage      \* bound on the files damaged between runs

ASSUME ConstantsAssumption ==
  /\ NoIdentity \notin Identities
  /\ MaxEvents \in Nat /\ MaxStarts \in Nat /\ MaxDamage \in Nat

Statuses == {"passed", "failed", "timeout", "runner-error"}
EmptyTrace == [events |-> 0, mark |-> Nothing]
Traces   == [events : 1 .. MaxEvents, mark : Marks] \cup {EmptyTrace}
Files    == Traces \cup {Torn}

(* A digest stands for the bytes it was computed from.                     *)
Sidecars == [identity : Identities \cup {NoIdentity}, digest : Files,
             status : Statuses, events : 0 .. MaxEvents]

ASSUME FilesAssumption ==
  /\ Absent # Torn
  /\ {Absent, Torn} \cap (Traces \cup Sidecars) = {}
  /\ Nothing \notin [identity : Identities \cup {NoIdentity}, status : Statuses,
                     trace : Traces]
  /\ Nothing \notin [resumed : BOOLEAN, status : Statuses, trace : Traces]

VARIABLES
  csv, csvTmp,    \* traces/<stem>.csv and .csv.tmp
  json, jsonTmp,  \* traces/<stem>.json and .json.tmp
  pc,             \* pc[s]: where run s is
  identity,       \* identity[s]: trace_identity of the test in this run
  meta,           \* meta[s]: the sidecar load_resume or save_metadata holds
  answer,         \* answer[s]: the result run s goes on with, or Nothing
  starts, damage, \* bounded counters
  latest,         \* history: the latest execution, Nothing once one has begun
  passed          \* history: identity and trace of each execution that passed

fileVars    == <<csv, csvTmp, json, jsonTmp>>
countVars   == <<starts, damage>>
historyVars == <<latest, passed>>
vars == <<fileVars, pc, identity, meta, answer, countVars, historyVars>>

Points == {"idle", "load", "digest", "read", "invalidate", "run",
           "write", "replace", "hash", "sidecar", "install"}

Init ==
  /\ csv = Absent /\ csvTmp = Absent /\ json = Absent /\ jsonTmp = Absent
  /\ pc = [s \in Suites |-> "idle"]
  /\ identity = [s \in Suites |-> NoIdentity]
  /\ meta = [s \in Suites |-> Absent]
  /\ answer = [s \in Suites |-> Nothing]
  /\ starts = 0 /\ damage = 0
  /\ latest = Nothing
  /\ passed = {}

-----------------------------------------------------------------------------
At(s, point) == pc[s] = point
Goto(s, point) == pc' = [pc EXCEPT ![s] = point]

Result(resumed, st, t) == [resumed |-> resumed, status |-> st, trace |-> t]
Execution(i, st, t) == [identity |-> i, status |-> st, trace |-> t]

(* Reach the test: compute its identity and look for a result if --resume. *)
Start(s) ==
  /\ At(s, "idle") /\ starts < MaxStarts
  /\ starts' = starts + 1
  /\ \E i \in Identities : identity' = [identity EXCEPT ![s] = i]
  /\ answer' = [answer EXCEPT ![s] = Nothing]
  /\ meta' = [meta EXCEPT ![s] = Absent]
  /\ \E resume \in BOOLEAN : Goto(s, IF resume THEN "load" ELSE "invalidate")
  /\ UNCHANGED <<fileVars, damage, historyVars>>

(* trace_identity or the runner raises: a runner-error result without rows *)
(* is recorded, with identity None.                                        *)
IdentityFails(s) ==
  /\ At(s, "idle") /\ starts < MaxStarts
  /\ starts' = starts + 1
  /\ identity' = [identity EXCEPT ![s] = NoIdentity]
  /\ json' = Absent
  /\ answer' = [answer EXCEPT ![s] = Result(FALSE, "runner-error", EmptyTrace)]
  /\ meta' = [meta EXCEPT ![s] = Absent]
  /\ latest' = Nothing
  /\ Goto(s, "write")
  /\ UNCHANGED <<csv, csvTmp, jsonTmp, damage, passed>>

-----------------------------------------------------------------------------
(* load_resume: read the sidecar, hash the trace, read the trace.  Any     *)
(* mismatch or exception makes the test run.                               *)

LoadMetadata(s) ==
  /\ At(s, "load")
  /\ meta' = [meta EXCEPT ![s] = json]
  /\ Goto(s, IF json \in Sidecars /\ json.identity = identity[s]
             THEN "digest" ELSE "invalidate")
  /\ UNCHANGED <<fileVars, identity, answer, countVars, historyVars>>

(* Mutant of CheckDigest: the stored trace is not compared with its digest.  *)
CheckDigestTrusting(s) ==
  /\ At(s, "digest")
  /\ Goto(s, IF csv # Absent /\ meta[s].status = "passed"
             THEN "read" ELSE "invalidate")
  /\ UNCHANGED <<fileVars, identity, meta, answer, countVars, historyVars>>

CheckDigest(s) ==
  /\ At(s, "digest")
  /\ Goto(s, IF csv = meta[s].digest /\ meta[s].status = "passed"
             THEN "read" ELSE "invalidate")
  /\ UNCHANGED <<fileVars, identity, meta, answer, countVars, historyVars>>

ReuseTrace(s) ==
  /\ At(s, "read")
  /\ csv \in Traces /\ csv.events = meta[s].events
  /\ answer' = [answer EXCEPT ![s] = Result(TRUE, "passed", csv)]
  /\ Goto(s, "idle")
  /\ UNCHANGED <<fileVars, identity, meta, countVars, historyVars>>

RejectTrace(s) ==
  /\ At(s, "read")
  /\ csv \in Traces => csv.events # meta[s].events
  /\ Goto(s, "invalidate")
  /\ UNCHANGED <<fileVars, identity, meta, answer, countVars, historyVars>>

-----------------------------------------------------------------------------
(* Remove the sidecar before anything else, then execute the test.         *)

(* Mutant of Invalidate: the old sidecar stays until it is replaced.         *)
InvalidateNot(s) ==
  /\ At(s, "invalidate")
  /\ latest' = Nothing
  /\ Goto(s, "run")
  /\ UNCHANGED <<fileVars, identity, meta, answer, countVars, passed>>

Invalidate(s) ==
  /\ At(s, "invalidate")
  /\ json' = Absent
  /\ latest' = Nothing
  /\ Goto(s, "run")
  /\ UNCHANGED <<csv, csvTmp, jsonTmp, identity, meta, answer, countVars, passed>>

RunTest(s) ==
  /\ At(s, "run")
  /\ \E st \in Statuses, t \in Traces :
       /\ answer' = [answer EXCEPT ![s] = Result(FALSE, st, t)]
       /\ latest' = Execution(identity[s], st, t)
       /\ passed' = IF st = "passed" THEN passed \cup {<<identity[s], t>>} ELSE passed
  /\ Goto(s, "write")
  /\ UNCHANGED <<fileVars, identity, meta, countVars>>

(* TraceIsolationError: the sidecar goes, and so does the suite.           *)
RunIsolated(s) ==
  /\ At(s, "run")
  /\ json' = Absent
  /\ Goto(s, "idle")
  /\ UNCHANGED <<csv, csvTmp, jsonTmp, identity, meta, answer, countVars, historyVars>>

-----------------------------------------------------------------------------
(* write_test_trace, then save_metadata.                                   *)

WriteTrace(s) ==
  /\ At(s, "write")
  /\ csvTmp' = answer[s].trace
  /\ Goto(s, "replace")
  /\ UNCHANGED <<csv, json, jsonTmp, identity, meta, answer, countVars, historyVars>>

(* Mutant of ReplaceTrace: save_metadata reads the trace of the run before.  *)
ReplaceTraceLater(s) ==
  /\ At(s, "replace") /\ csvTmp # Absent
  /\ Goto(s, "hash")
  /\ UNCHANGED <<fileVars, identity, meta, answer, countVars, historyVars>>

ReplaceTrace(s) ==
  /\ At(s, "replace") /\ csvTmp # Absent
  /\ csv' = csvTmp
  /\ csvTmp' = Absent
  /\ Goto(s, "hash")
  /\ UNCHANGED <<json, jsonTmp, identity, meta, answer, countVars, historyVars>>

HashTrace(s) ==
  /\ At(s, "hash") /\ csv # Absent
  /\ meta' = [meta EXCEPT ![s] =
       [identity |-> identity[s], digest |-> csv, status |-> answer[s].status,
        events |-> answer[s].trace.events]]
  /\ Goto(s, "sidecar")
  /\ UNCHANGED <<fileVars, identity, answer, countVars, historyVars>>

WriteSidecar(s) ==
  /\ At(s, "sidecar")
  /\ jsonTmp' = meta[s]
  /\ Goto(s, "install")
  /\ UNCHANGED <<csv, csvTmp, json, identity, meta, answer, countVars, historyVars>>

ReplaceSidecar(s) ==
  /\ At(s, "install") /\ jsonTmp # Absent
  /\ json' = jsonTmp
  /\ jsonTmp' = Absent
  /\ Goto(s, "idle")
  /\ UNCHANGED <<csv, csvTmp, identity, meta, answer, countVars, historyVars>>

-----------------------------------------------------------------------------
(* The run is killed or leaves with an exception nothing catches, such as  *)
(* a full disk: a temporary file being written stays behind torn.          *)
Interrupted(s) ==
  /\ ~At(s, "idle")
  /\ csvTmp' \in {csvTmp} \cup (IF At(s, "write") THEN {Torn} ELSE {})
  /\ jsonTmp' \in {jsonTmp} \cup (IF At(s, "sidecar") THEN {Torn} ELSE {})
  /\ Goto(s, "idle")
  /\ UNCHANGED <<csv, json, identity, meta, answer, countVars, historyVars>>

(* Between runs somebody edits, truncates or deletes one of the files, or  *)
(* the counts in the sidecar change.                                       *)
Damage ==
  /\ \A s \in Suites : At(s, "idle")
  /\ damage < MaxDamage
  /\ damage' = damage + 1
  /\ \/ csv' \in Files \cup {Absent} /\ UNCHANGED json
     \/ json' \in {Torn, Absent} /\ UNCHANGED csv
     \/ /\ json \in Sidecars
        /\ \E n \in 0 .. MaxEvents : json' = [json EXCEPT !.events = n]
        /\ UNCHANGED csv
  /\ UNCHANGED <<csvTmp, jsonTmp, pc, identity, meta, answer, starts, historyVars>>

Load(s) == LoadMetadata(s) \/ CheckDigest(s) \/ ReuseTrace(s) \/ RejectTrace(s)

Record(s) ==
  \/ WriteTrace(s) \/ ReplaceTrace(s)
  \/ HashTrace(s) \/ WriteSidecar(s) \/ ReplaceSidecar(s)

Step(s) ==
  \/ Start(s) \/ IdentityFails(s) \/ Load(s)
  \/ Invalidate(s) \/ RunTest(s) \/ RunIsolated(s) \/ Record(s)
  \/ Interrupted(s)

Next == Damage \/ \E s \in Suites : Step(s)

Spec == Init /\ [][Next]_vars

-----------------------------------------------------------------------------
TypeOK ==
  /\ csv \in Files \cup {Absent}
  /\ csvTmp \in Files \cup {Absent}
  /\ json \in Sidecars \cup {Torn, Absent}
  /\ jsonTmp \in Sidecars \cup {Torn, Absent}
  /\ pc \in [Suites -> Points]
  /\ identity \in [Suites -> Identities \cup {NoIdentity}]
  /\ meta \in [Suites -> Sidecars \cup {Torn, Absent}]
  /\ answer \in [Suites -> [resumed : BOOLEAN, status : Statuses, trace : Traces]
                             \cup {Nothing}]
  /\ starts \in 0 .. MaxStarts
  /\ damage \in 0 .. MaxDamage
  /\ latest \in [identity : Identities \cup {NoIdentity}, status : Statuses,
                 trace : Traces] \cup {Nothing}
  /\ passed \subseteq (Identities \cup {NoIdentity}) \X Traces

(* A reused trace is the trace of an execution of the test that passed,    *)
(* with the identity of the run that reuses it (load_resume).              *)
ReusesPassedTrace ==
  \A s \in Suites :
    answer[s] # Nothing /\ answer[s].resumed =>
      <<identity[s], answer[s].trace>> \in passed

(* What the suites do with the files is what the contract promises: only   *)
(* the latest execution is reused, and none once another has begun, even   *)
(* if that one was interrupted (main, "Invalidate first").                 *)
Contract == INSTANCE ResumeContract WITH asked <- identity
ImplementsContract == Contract!Spec
=============================================================================
