---------------------------- MODULE ResumeCacheInv ---------------------------
(***************************************************************************)
(* The inductive invariant behind ResumeCache's contract, for an output    *)
(* directory that one suite process uses at a time.                        *)
(***************************************************************************)
EXTENDS ResumeCache

RecordPoints == {"write", "replace", "hash", "sidecar", "install"}

(* A sidecar tells of the latest execution: it was written after that      *)
(* execution's trace, and would be gone if another had begun.              *)
TellsLatest(j) ==
  j \in Sidecars /\ j.identity # NoIdentity =>
    /\ latest # Nothing
    /\ latest.identity = j.identity
    /\ latest.status = j.status
    /\ latest.trace = j.digest

SidecarInv == TellsLatest(json)

LoadInv ==
  \A s \in Suites :
    /\ pc[s] \in {"digest", "read"} =>
         /\ meta[s] \in Sidecars
         /\ meta[s].identity = identity[s] /\ identity[s] # NoIdentity
         /\ TellsLatest(meta[s])
    /\ At(s, "read") => csv = meta[s].digest /\ meta[s].status = "passed"
    /\ pc[s] \in {"load", "invalidate", "run"} => identity[s] # NoIdentity

(* While a result is being recorded the old sidecar is gone, and what is   *)
(* recorded is the latest execution.                                       *)
RecordInv ==
  \A s \in Suites :
    /\ At(s, "run") => json = Absent
    /\ pc[s] \in RecordPoints =>
         /\ json = Absent
         /\ answer[s] # Nothing
         /\ identity[s] # NoIdentity =>
              latest = Execution(identity[s], answer[s].status, answer[s].trace)
    /\ At(s, "replace") => csvTmp = answer[s].trace
    /\ At(s, "hash") => csv = answer[s].trace
    /\ At(s, "sidecar") => meta[s] \in Sidecars /\ meta[s].identity = identity[s]
                           /\ TellsLatest(meta[s])
    /\ At(s, "install") => jsonTmp \in Sidecars /\ jsonTmp.identity = identity[s]
                           /\ TellsLatest(jsonTmp)

(* The history: the latest execution, if it passed, is among the passed.   *)
HistoryInv ==
  latest # Nothing /\ latest.status = "passed" =>
    <<latest.identity, latest.trace>> \in passed

IndInv ==
  /\ TypeOK
  /\ SidecarInv
  /\ LoadInv
  /\ RecordInv
  /\ HistoryInv
  /\ ReusesPassedTrace
=============================================================================
