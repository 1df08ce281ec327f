-------------------------- MODULE ResumeCache_proofs -------------------------
(***************************************************************************)
(* Proofs about ResumeCache: its type invariant for any number of suites,  *)
(* and, when one suite process at a time uses the output directory, that   *)
(* it implements ResumeContract and that whatever --resume reuses was      *)
(* written by an execution that passed.                                    *)
(***************************************************************************)
EXTENDS ResumeCacheInv, TLAPS

OneSuite == \A s, t \in Suites : s = t

(* A run that records a result has one: what the type invariant needs.     *)
Answered == \A s \in Suites : pc[s] \in RecordPoints => answer[s] # Nothing

LEMMA TraceTypes ==
  /\ EmptyTrace \in Traces
  /\ \A t \in Traces : t.events \in 0 .. MaxEvents
BY ConstantsAssumption DEF Traces, EmptyTrace

(* A result is never mistaken for Nothing.                                 *)
LEMMA ResultIsSome ==
  ASSUME NEW r \in BOOLEAN, NEW st \in Statuses, NEW t \in Traces
  PROVE  /\ Result(r, st, t) \in [resumed : BOOLEAN, status : Statuses, trace : Traces]
         /\ Result(r, st, t) # Nothing
BY FilesAssumption DEF Result

LEMMA TypeInit == Init => TypeOK /\ Answered
BY ConstantsAssumption DEF Init, TypeOK, Answered, Points, RecordPoints

LEMMA TypeStep == TypeOK /\ Answered /\ [Next]_vars => TypeOK' /\ Answered'
<1> USE ConstantsAssumption
    DEF TypeOK, Answered, Points, RecordPoints, At, Goto, Files, fileVars,
        countVars, historyVars
<1> SUFFICES ASSUME TypeOK, Answered, [Next]_vars
             PROVE  TypeOK' /\ Answered'
  OBVIOUS
<1>1. ASSUME NEW s \in Suites, Start(s) PROVE TypeOK' /\ Answered'
  BY <1>1 DEF Start
<1>2. ASSUME NEW s \in Suites, IdentityFails(s) PROVE TypeOK' /\ Answered'
  <2>1. /\ Result(FALSE, "runner-error", EmptyTrace)
             \in [resumed : BOOLEAN, status : Statuses, trace : Traces]
        /\ Result(FALSE, "runner-error", EmptyTrace) # Nothing
    BY TraceTypes, ResultIsSome DEF Statuses
  <2>2. answer' \in [Suites -> [resumed : BOOLEAN, status : Statuses, trace : Traces]
                                \cup {Nothing}] /\ answer'[s] # Nothing
    BY <1>2, <2>1 DEF IdentityFails
  <2>3. Answered'
    BY <1>2, <2>2 DEF IdentityFails
  <2>4. starts' \in 0 .. MaxStarts
    BY <1>2 DEF IdentityFails
  <2> QED BY <1>2, <2>2, <2>3, <2>4 DEF IdentityFails
<1>3. ASSUME NEW s \in Suites, LoadMetadata(s) PROVE TypeOK' /\ Answered'
  BY <1>3 DEF LoadMetadata
<1>4. ASSUME NEW s \in Suites, CheckDigest(s) PROVE TypeOK' /\ Answered'
  BY <1>4 DEF CheckDigest
<1>5. ASSUME NEW s \in Suites, ReuseTrace(s) PROVE TypeOK' /\ Answered'
  BY <1>5, ResultIsSome DEF ReuseTrace, Statuses
<1>6. ASSUME NEW s \in Suites, RejectTrace(s) PROVE TypeOK' /\ Answered'
  BY <1>6 DEF RejectTrace
<1>7. ASSUME NEW s \in Suites, Invalidate(s) PROVE TypeOK' /\ Answered'
  BY <1>7 DEF Invalidate
<1>8. ASSUME NEW s \in Suites, RunTest(s) PROVE TypeOK' /\ Answered'
  <2>1. PICK st \in Statuses, t \in Traces :
          /\ answer' = [answer EXCEPT ![s] = Result(FALSE, st, t)]
          /\ latest' = Execution(identity[s], st, t)
          /\ passed' = IF st = "passed" THEN passed \cup {<<identity[s], t>>} ELSE passed
    BY <1>8 DEF RunTest
  <2>2. Result(FALSE, st, t) \in [resumed : BOOLEAN, status : Statuses, trace : Traces]
        /\ Result(FALSE, st, t) # Nothing
    BY ResultIsSome
  <2>3. answer' \in [Suites -> [resumed : BOOLEAN, status : Statuses, trace : Traces]
                                \cup {Nothing}] /\ Answered'
    BY <1>8, <2>1, <2>2 DEF RunTest
  <2>4. latest' \in [identity : Identities \cup {NoIdentity}, status : Statuses,
                     trace : Traces]
    BY <2>1 DEF Execution
  <2>5. passed' \subseteq (Identities \cup {NoIdentity}) \X Traces
    BY <2>1
  <2> QED BY <1>8, <2>3, <2>4, <2>5 DEF RunTest
<1>9. ASSUME NEW s \in Suites, RunIsolated(s) PROVE TypeOK' /\ Answered'
  BY <1>9 DEF RunIsolated
<1>10. ASSUME NEW s \in Suites, WriteTrace(s) PROVE TypeOK' /\ Answered'
  BY <1>10 DEF WriteTrace
<1>11. ASSUME NEW s \in Suites, ReplaceTrace(s) PROVE TypeOK' /\ Answered'
  BY <1>11 DEF ReplaceTrace
<1>12. ASSUME NEW s \in Suites, HashTrace(s) PROVE TypeOK' /\ Answered'
  <2>1. answer[s] \in [resumed : BOOLEAN, status : Statuses, trace : Traces]
    BY <1>12 DEF HashTrace
  <2>2. meta'[s] \in Sidecars
    BY <1>12, <2>1, TraceTypes DEF HashTrace, Sidecars
  <2> QED BY <1>12, <2>2 DEF HashTrace
<1>13. ASSUME NEW s \in Suites, WriteSidecar(s) PROVE TypeOK' /\ Answered'
  BY <1>13 DEF WriteSidecar
<1>14. ASSUME NEW s \in Suites, ReplaceSidecar(s) PROVE TypeOK' /\ Answered'
  BY <1>14 DEF ReplaceSidecar
<1>15. ASSUME NEW s \in Suites, Interrupted(s) PROVE TypeOK' /\ Answered'
  BY <1>15 DEF Interrupted
<1>16. CASE Damage
  <2>1. json' \in Sidecars \cup {Torn, Absent}
    BY <1>16 DEF Damage, Sidecars
  <2> QED BY <1>16, <2>1 DEF Damage
<1>17. CASE UNCHANGED vars
  BY <1>17 DEF vars
<1> QED
  BY <1>1, <1>2, <1>3, <1>4, <1>5, <1>6, <1>7, <1>8, <1>9, <1>10, <1>11, <1>12,
     <1>13, <1>14, <1>15, <1>16, <1>17 DEF Next, Step, Load, Record

(* The variables always have their types (the state main's loop and        *)
(* load_resume keep).                                                      *)
THEOREM TypeCorrect == Spec => []TypeOK
<1>1. Spec => [](TypeOK /\ Answered)
  BY TypeInit, TypeStep, PTL DEF Spec
<1> QED BY <1>1, PTL

-----------------------------------------------------------------------------
(* The parts of IndInv beside the types.                                   *)
Core == SidecarInv /\ LoadInv /\ RecordInv /\ HistoryInv /\ ReusesPassedTrace

LEMMA CoreInit == Init => Core
BY FilesAssumption
   DEF Init, Core, SidecarInv, LoadInv, RecordInv, HistoryInv, ReusesPassedTrace,
       TellsLatest, RecordPoints, At

LEMMA RunTestResult ==
  ASSUME TypeOK, NEW s \in Suites, RunTest(s)
  PROVE  \E st \in Statuses, t \in Traces :
           /\ answer' = [answer EXCEPT ![s] = Result(FALSE, st, t)]
           /\ latest' = Execution(identity[s], st, t)
           /\ passed' = IF st = "passed" THEN passed \cup {<<identity[s], t>>} ELSE passed
           /\ answer'[s] # Nothing /\ ~answer'[s].resumed
           /\ answer'[s].status = st /\ answer'[s].trace = t
<1>1. PICK st \in Statuses, t \in Traces :
        /\ answer' = [answer EXCEPT ![s] = Result(FALSE, st, t)]
        /\ latest' = Execution(identity[s], st, t)
        /\ passed' = IF st = "passed" THEN passed \cup {<<identity[s], t>>} ELSE passed
  BY DEF RunTest
<1>2. Result(FALSE, st, t) # Nothing
  BY ResultIsSome
<1>3. answer'[s] = Result(FALSE, st, t)
  BY <1>1 DEF TypeOK
<1>4. ~answer'[s].resumed /\ answer'[s].status = st /\ answer'[s].trace = t
  BY <1>3 DEF Result
<1> QED BY <1>1, <1>2, <1>3, <1>4

LEMMA CoreStep ==
  ASSUME OneSuite
  PROVE  TypeOK /\ Core /\ [Next]_vars => Core'
<1> USE ConstantsAssumption, FilesAssumption
    DEF TypeOK, Core, SidecarInv, LoadInv, RecordInv, HistoryInv, ReusesPassedTrace,
        TellsLatest, RecordPoints, Points, At, Goto, OneSuite,
        fileVars, countVars, historyVars
<1> SUFFICES ASSUME TypeOK, Core, [Next]_vars
             PROVE  Core'
  OBVIOUS
<1>1. ASSUME NEW s \in Suites, Start(s) PROVE Core'
  BY <1>1 DEF Start
<1>2. ASSUME NEW s \in Suites, IdentityFails(s) PROVE Core'
  <2>1. answer'[s] = Result(FALSE, "runner-error", EmptyTrace)
        /\ answer'[s] # Nothing /\ ~answer'[s].resumed
    <3>1. answer'[s] = Result(FALSE, "runner-error", EmptyTrace)
      BY <1>2 DEF IdentityFails
    <3>2. Result(FALSE, "runner-error", EmptyTrace) # Nothing
      BY TraceTypes, ResultIsSome DEF Statuses
    <3> QED BY <3>1, <3>2 DEF Result
  <2>2. \A u \in Suites : u = s
    OBVIOUS
  <2>3. identity'[s] = NoIdentity /\ pc'[s] = "write" /\ json' = Absent
        /\ latest' = Nothing /\ Absent \notin Sidecars
    BY <1>2 DEF IdentityFails
  <2> QED BY <2>1, <2>2, <2>3
<1>3. ASSUME NEW s \in Suites, LoadMetadata(s) PROVE Core'
  BY <1>3 DEF LoadMetadata
<1>4. ASSUME NEW s \in Suites, CheckDigest(s) PROVE Core'
  BY <1>4 DEF CheckDigest
<1>5. ASSUME NEW s \in Suites, ReuseTrace(s) PROVE Core'
  <2>1. answer'[s].resumed /\ answer'[s].trace = csv
    BY <1>5 DEF ReuseTrace, Result
  <2>2. latest.status = "passed" /\ latest # Nothing
        /\ latest.identity = identity[s] /\ latest.trace = csv
    BY <1>5 DEF ReuseTrace
  <2>3. <<identity[s], csv>> \in passed
    BY <2>2
  <2>4. ReusesPassedTrace'
    <3>1. identity' = identity /\ passed' = passed
      BY <1>5 DEF ReuseTrace
    <3>2. \A u \in Suites : u = s
      OBVIOUS
    <3> QED BY <2>1, <2>3, <3>1, <3>2
  <2>5. (SidecarInv /\ LoadInv /\ RecordInv /\ HistoryInv)'
    BY <1>5 DEF ReuseTrace
  <2> QED BY <2>4, <2>5
<1>6. ASSUME NEW s \in Suites, RejectTrace(s) PROVE Core'
  BY <1>6 DEF RejectTrace
<1>7. ASSUME NEW s \in Suites, Invalidate(s) PROVE Core'
  BY <1>7 DEF Invalidate
<1>8. ASSUME NEW s \in Suites, RunTest(s) PROVE Core'
  <2>1. PICK st \in Statuses, t \in Traces :
          /\ answer' = [answer EXCEPT ![s] = Result(FALSE, st, t)]
          /\ latest' = Execution(identity[s], st, t)
          /\ passed' = IF st = "passed" THEN passed \cup {<<identity[s], t>>} ELSE passed
          /\ answer'[s] # Nothing /\ ~answer'[s].resumed
          /\ answer'[s].status = st /\ answer'[s].trace = t
    BY <1>8, RunTestResult
  <2>3. latest'.identity = identity[s] /\ latest'.status = st /\ latest'.trace = t
    BY <2>1 DEF Execution
  <2>4. json' = Absent /\ Absent \notin Sidecars /\ pc'[s] = "write"
        /\ identity' = identity /\ meta' = meta
    BY <1>8 DEF RunTest
  <2>5. \A u \in Suites : u = s
    OBVIOUS
  <2>6. HistoryInv'
    BY <2>1, <2>3
  <2>7. ReusesPassedTrace'
    BY <2>1, <2>5
  <2>8. SidecarInv' /\ LoadInv'
    BY <2>4, <2>5
  <2>9. RecordInv'
    BY <2>1, <2>4, <2>5 DEF Execution
  <2> QED BY <2>6, <2>7, <2>8, <2>9
<1>9. ASSUME NEW s \in Suites, RunIsolated(s) PROVE Core'
  BY <1>9 DEF RunIsolated
<1>10. ASSUME NEW s \in Suites, WriteTrace(s) PROVE Core'
  BY <1>10 DEF WriteTrace
<1>11. ASSUME NEW s \in Suites, ReplaceTrace(s) PROVE Core'
  BY <1>11 DEF ReplaceTrace
<1>12. ASSUME NEW s \in Suites, HashTrace(s) PROVE Core'
  <2>1. /\ meta'[s].identity = identity[s]
        /\ meta'[s].status = answer[s].status /\ meta'[s].digest = answer[s].trace
    BY <1>12 DEF HashTrace
  <2>2. answer[s] \in [resumed : BOOLEAN, status : Statuses, trace : Traces]
    BY <1>12 DEF HashTrace
  <2>3. meta'[s] \in Sidecars
    BY <1>12, <2>2, TraceTypes DEF HashTrace, Sidecars, Files
  <2>4. identity[s] # NoIdentity =>
          /\ latest # Nothing
          /\ latest.identity = identity[s]
          /\ latest.status = answer[s].status /\ latest.trace = answer[s].trace
    <3>1. identity[s] # NoIdentity =>
            latest = Execution(identity[s], answer[s].status, answer[s].trace)
      BY <1>12 DEF HashTrace
    <3>2. Execution(identity[s], answer[s].status, answer[s].trace) # Nothing
      BY <2>2 DEF Execution
    <3> QED BY <3>1, <3>2 DEF Execution
  <2>5. TellsLatest(meta[s])'
    BY <1>12, <2>1, <2>4 DEF HashTrace
  <2>6. /\ pc'[s] = "sidecar" /\ \A u \in Suites : u = s
        /\ identity' = identity /\ answer' = answer /\ csv' = csv /\ json' = json
        /\ latest' = latest /\ passed' = passed
    BY <1>12 DEF HashTrace
  <2>7. json = Absent /\ answer[s] # Nothing
    BY <1>12 DEF HashTrace
  <2> QED BY <1>12, <2>1, <2>3, <2>5, <2>6, <2>7 DEF HashTrace
<1>13. ASSUME NEW s \in Suites, WriteSidecar(s) PROVE Core'
  BY <1>13 DEF WriteSidecar
<1>14. ASSUME NEW s \in Suites, ReplaceSidecar(s) PROVE Core'
  BY <1>14 DEF ReplaceSidecar
<1>15. ASSUME NEW s \in Suites, Interrupted(s) PROVE Core'
  BY <1>15 DEF Interrupted
<1>16. CASE Damage
  <2>1. json' \in Sidecars =>
          /\ json \in Sidecars
          /\ json'.identity = json.identity
          /\ json'.status = json.status /\ json'.digest = json.digest
    <3>1. CASE json' \in {Torn, Absent}
      BY <3>1
    <3>2. CASE json' = json
      BY <3>2
    <3>3. CASE json \in Sidecars
               /\ \E n \in 0 .. MaxEvents : json' = [json EXCEPT !.events = n]
      BY <3>3 DEF Sidecars
    <3> QED BY <1>16, <3>1, <3>2, <3>3 DEF Damage
  <2>2. /\ \A s \in Suites : pc[s] = "idle"
        /\ UNCHANGED <<pc, identity, meta, answer, latest, passed>>
    BY <1>16 DEF Damage
  <2> QED BY <2>1, <2>2
<1>17. CASE UNCHANGED vars
  BY <1>17 DEF vars
<1> QED
  BY <1>1, <1>2, <1>3, <1>4, <1>5, <1>6, <1>7, <1>8, <1>9, <1>10, <1>11, <1>12, <1>13, <1>14, <1>15, <1>16, <1>17 DEF Next, Step, Load, Record

LEMMA Inductive ==
  ASSUME OneSuite
  PROVE  Spec => [](TypeOK /\ Answered /\ Core)
<1>1. Init => TypeOK /\ Answered /\ Core
  BY TypeInit, CoreInit
<1>2. TypeOK /\ Answered /\ Core /\ [Next]_vars => (TypeOK /\ Answered /\ Core)'
  BY TypeStep, CoreStep
<1> QED BY <1>1, <1>2, PTL DEF Spec

(* One suite at a time: IndInv holds throughout (main's loop, load_resume, *)
(* save_metadata).                                                         *)
THEOREM InvariantHolds ==
  ASSUME OneSuite
  PROVE  Spec => []IndInv
<1>1. TypeOK /\ Core => IndInv
  BY DEF Core, IndInv
<1> QED BY Inductive, <1>1, PTL

(* One suite at a time: a reused trace was written by an execution that    *)
(* passed with the identity of the run that reuses it (load_resume).       *)
THEOREM ReusesOnlyPassed ==
  ASSUME OneSuite
  PROVE  Spec => []ReusesPassedTrace
<1>1. Core => ReusesPassedTrace
  BY DEF Core
<1> QED BY Inductive, <1>1, PTL

-----------------------------------------------------------------------------
(* Each step of a run is a step of the contract, or changes nothing there. *)
LEMMA ContractInit == Init => Contract!Init
BY DEF Init, Contract!Init

LEMMA ContractStep ==
  TypeOK /\ Core /\ [Next]_vars => [Contract!Next]_(Contract!vars)
<1> USE DEF At, Goto, fileVars, countVars, historyVars
<1> SUFFICES ASSUME TypeOK, Core, [Next]_vars
             PROVE  Contract!Next \/ UNCHANGED <<latest, identity, answer>>
  BY DEF Contract!vars
<1>1. ASSUME NEW s \in Suites, Start(s) PROVE Contract!Ask(s)
  BY <1>1 DEF Start, Contract!Ask
<1>2. ASSUME NEW s \in Suites, IdentityFails(s) PROVE Contract!Refuse(s)
  BY <1>2, TraceTypes DEF IdentityFails, Contract!Refuse, Result, Statuses
<1>3. ASSUME NEW s \in Suites, ReuseTrace(s) PROVE Contract!Reuse(s)
  <2>1. latest.status = "passed" /\ latest # Nothing
        /\ latest.identity = identity[s] /\ latest.trace = csv
    BY <1>3 DEF ReuseTrace, Core, LoadInv, TellsLatest
  <2> QED BY <1>3, <2>1 DEF ReuseTrace, Result, Contract!Reuse
<1>4. ASSUME NEW s \in Suites, Invalidate(s) PROVE Contract!Begin(s)
  BY <1>4 DEF Invalidate, Contract!Begin
<1>5. ASSUME NEW s \in Suites, RunTest(s) PROVE Contract!Finish(s)
  BY <1>5 DEF RunTest, Result, Execution, Contract!Finish
<1>6. ASSUME NEW s \in Suites,
             \/ LoadMetadata(s) \/ CheckDigest(s) \/ RejectTrace(s)
             \/ RunIsolated(s) \/ Record(s) \/ Interrupted(s)
      PROVE  UNCHANGED <<latest, identity, answer>>
  BY <1>6 DEF LoadMetadata, CheckDigest, RejectTrace, RunIsolated, Record, WriteTrace,
              ReplaceTrace, HashTrace, WriteSidecar, ReplaceSidecar, Interrupted
<1>7. Damage \/ UNCHANGED vars => UNCHANGED <<latest, identity, answer>>
  BY DEF Damage, vars
<1> QED
  BY <1>1, <1>2, <1>3, <1>4, <1>5, <1>6, <1>7
     DEF Next, Step, Load, Contract!Next

(* One suite at a time: the files implement the contract of --resume, so   *)
(* an interrupted or failed execution is never covered up by an older      *)
(* success (main, "Invalidate first").                                     *)
THEOREM ResumeImplementsContract ==
  ASSUME OneSuite
  PROVE  Spec => ImplementsContract
<1>1. Spec => [](TypeOK /\ Core)
  BY Inductive, PTL
<1> QED
  BY <1>1, ContractInit, ContractStep, PTL DEF Spec, ImplementsContract, Contract!Spec
=============================================================================
