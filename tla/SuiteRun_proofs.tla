---------------------------- MODULE SuiteRun_proofs ----------------------------
(***************************************************************************)
(* Proofs about SuiteRun, for any runners, identities and bounds: what the *)
(* aggregates of a run say is what is stored of its tests.                 *)
(***************************************************************************)
EXTENDS SuiteRunInv, SequenceTheorems, TLAPS

(* A stored result is told from a missing one, a whole file from a torn.   *)
LEMMA Sentinels ==
  /\ \A s, i, r : [status |-> s, identity |-> i, rows |-> r] # None
  /\ ~Whole(None) /\ ~Whole(Torn) /\ None # Torn
<1>1. ASSUME NEW s, NEW i, NEW r, [status |-> s, identity |-> i, rows |-> r] = None
      PROVE  FALSE
  <2>1. DOMAIN [status |-> s, identity |-> i, rows |-> r] = DOMAIN None
    BY <1>1
  <2>2. DOMAIN [status |-> s, identity |-> i, rows |-> r] = {"status", "identity", "rows"}
    OBVIOUS
  <2>3. DOMAIN None = {"file"}
    BY DEF None
  <2> QED BY <2>1, <2>2, <2>3
<1>2. ~Whole(None) /\ ~Whole(Torn) /\ None # Torn
  BY DEF Whole, None, Torn
<1> QED BY <1>1, <1>2

(* What is selected are names of the listing, at most MaxSelected of them. *)
LEMMA SelectionsAreNames ==
  ASSUME NEW selection \in Selections
  PROVE  selection \in Seq(Names) /\ Len(selection) <= MaxSelected
<1>1. PICK names \in SUBSET Range(listing), limit \in 0 .. MaxSelected :
        \E at \in FirstKept(names, limit) : selection = [i \in DOMAIN at |-> listing[at[i]]]
  BY DEF Selections
<1>2. PICK at \in [1 .. limit -> Kept(names)] : selection = [i \in DOMAIN at |-> listing[at[i]]]
  BY <1>1 DEF FirstKept
<1>3. limit \in Nat /\ limit <= MaxSelected
  BY ConstantsAssumption
<1>4. \A i \in 1 .. limit : selection[i] \in Names
  BY <1>2 DEF Kept, Names, Range
<1>5. selection \in [1 .. limit -> Names]
  BY <1>2, <1>4
<1> QED BY <1>3, <1>5

LEMMA TestIsName ==
  ASSUME ListsType, Len(results) < Len(tests)
  PROVE  /\ test \in Names
         /\ Len(results) + 1 \in DOMAIN tests
BY LenProperties, ElementOfSeq DEF ListsType, test

-----------------------------------------------------------------------------
LEMMA InitInv == Init => IndInv
<1> SUFFICES ASSUME Init PROVE IndInv
  OBVIOUS
<1> USE DEF Init
<1>1. ControlType
  <2>1. run \in 0 .. MaxRuns /\ executions \in Nat
    BY ConstantsAssumption
  <2>2. resume \in BOOLEAN /\ identity \in Identities
    OBVIOUS
  <2>3. pc \in Points /\ status \in {"none", "running", "0", "1", "2", "killed"}
    BY DEF Points
  <2> QED BY <2>1, <2>2, <2>3 DEF ControlType
<1>2. ListsType
  BY EmptySeq, ConstantsAssumption DEF ListsType, Names
<1>3. FilesType
  BY DEF FilesType, Names, IsAggregate
<1>4. PointInv
  BY DEF PointInv
<1>5. ResultsInv
  BY DEF ResultsInv
<1>6. LatestInv
  BY DEF LatestInv, Names
<1>7. AggregatesInv
  BY DEF AggregatesInv, Completed
<1>8. OlderInv
  BY Sentinels DEF OlderInv, AggregatesAgree
<1> QED BY <1>1, <1>2, <1>3, <1>4, <1>5, <1>6, <1>7, <1>8 DEF IndInv

(* A run that begins makes every file one of an earlier run.               *)
LEMMA StartInv ==
  ASSUME IndInv, Start
  PROVE  IndInv'
<1> USE DEF IndInv, Start, Point, Goto, Exit
<1>1. listing' = listing /\ stored' = stored /\ suiteCsv' = suiteCsv
      /\ summaryCsv' = summaryCsv /\ executions' = executions /\ latest' = latest
  BY DEF files
<1>2. tests' \in Seq(Names) /\ Len(tests') <= MaxSelected
  BY SelectionsAreNames
<1>3. ControlType'
  BY <1>1, ConstantsAssumption DEF ControlType, Points
<1>4. ListsType'
  BY <1>1, <1>2, EmptySeq, LenProperties DEF ListsType, Names, ResultTypes
<1>5. FilesType'
  BY <1>1, <1>3 DEF FilesType, Names, StoredTypes, IsAggregate, ControlType, Whole
<1>6. PointInv'
  BY <1>2, LenProperties, EmptySeq DEF PointInv, ControlType
<1>7. ResultsInv'
  BY DEF ResultsInv
<1>8. LatestInv'
  BY <1>1 DEF LatestInv, Names
<1>9. AggregatesInv'
  BY DEF AggregatesInv, Completed
<1>10. OlderInv'
  BY <1>1, Sentinels DEF OlderInv, AggregatesAgree, FilesType, IsAggregate, ControlType
<1> QED BY <1>3, <1>4, <1>5, <1>6, <1>7, <1>8, <1>9, <1>10

LEMMA StartFailsInv ==
  ASSUME IndInv, StartFails
  PROVE  IndInv'
<1> USE DEF IndInv, StartFails, Point, Goto, Exit
<1>1. /\ listing' = listing /\ stored' = stored /\ suiteCsv' = suiteCsv
      /\ summaryCsv' = summaryCsv /\ executions' = executions /\ latest' = latest
      /\ identity' = identity /\ resume' = resume
  BY DEF files
<1>3. ControlType'
  BY <1>1, ConstantsAssumption DEF ControlType, Points
<1>4. ListsType'
  BY <1>1, EmptySeq, ConstantsAssumption DEF ListsType, Names, ResultTypes
<1>5. FilesType'
  BY <1>1, <1>3 DEF FilesType, Names, StoredTypes, IsAggregate, ControlType, Whole
<1>6. PointInv'
  BY DEF PointInv
<1>7. ResultsInv'
  BY DEF ResultsInv
<1>8. LatestInv'
  BY <1>1 DEF LatestInv, Names
<1>9. AggregatesInv'
  BY DEF AggregatesInv, Completed
<1>10. OlderInv'
  BY <1>1 DEF OlderInv, AggregatesAgree
<1> QED BY <1>3, <1>4, <1>5, <1>6, <1>7, <1>8, <1>9, <1>10

-----------------------------------------------------------------------------
(* A result is added that agrees with what is stored of its test; of the   *)
(* other tests nothing changes, since no name is selected twice.           *)
LEMMA NextTestInv ==
  ASSUME IndInv, pc \in {"test", "record", "raised", "unidentified"},
         NEW r \in ResultTypes, NextTest(r),
         UNCHANGED <<inputs, files, status, executions, latest>>,
         NEW t, t = test, FilesType', Agrees(r, t)',
         \A s \in Names \ {t} : stored'[s] = stored[s],
         r.status = "passed" => r.rows = latest[t]
  PROVE  IndInv'
<1> USE DEF IndInv, inputs, files
<1>1. /\ listing' = listing /\ run' = run /\ resume' = resume /\ identity' = identity
      /\ tests' = tests /\ suiteCsv' = suiteCsv /\ summaryCsv' = summaryCsv
      /\ status' = status /\ executions' = executions /\ latest' = latest
  OBVIOUS
<1>2. Len(results) < Len(tests) /\ IsInjective(tests) /\ tests # << >> /\ status = "running"
  BY DEF PointInv
<1>3. /\ results' = Append(results, r)
      /\ results' \in Seq(ResultTypes) /\ Len(results') = Len(results) + 1
      /\ \A i \in 1 .. Len(results) : results'[i] = results[i]
      /\ results'[Len(results) + 1] = r
  BY AppendProperties DEF NextTest, ListsType
<1>4. Len(tests) \in Nat /\ Len(results) \in Nat
      /\ DOMAIN tests = 1 .. Len(tests) /\ DOMAIN results = 1 .. Len(results)
      /\ DOMAIN results' = 1 .. Len(results')
  <2>1. tests \in Seq(Names) /\ results \in Seq(ResultTypes)
    BY DEF ListsType
  <2> QED BY <1>3, <2>1, LenProperties
<1>5. pc' = IF Len(results') = Len(tests) THEN "suite" ELSE "test"
  BY DEF NextTest, Goto
<1>6. ControlType'
  BY <1>1, <1>5 DEF ControlType, Points
<1>7. ListsType'
  BY <1>1, <1>2, <1>3, <1>4 DEF ListsType, Names, ResultTypes
<1>8. PointInv'
  <2>1. status' = "running" /\ run' > 0
    BY <1>1, <1>2 DEF PointInv
  <2>2. IsInjective(tests)' /\ tests' # << >>
    BY <1>1, <1>2
  <2>3. pc' = "test" => Len(results') < Len(tests')
    <3> SUFFICES ASSUME pc' = "test" PROVE Len(results') < Len(tests')
      OBVIOUS
    <3>1. Len(tests') = Len(tests)
      BY <1>1
    <3>2. Len(results') # Len(tests)
      BY <1>5
    <3>3. Len(results') = Len(results) + 1 /\ Len(results) < Len(tests)
      BY <1>2, <1>3
    <3>4. Len(tests) \in Nat /\ Len(results) \in Nat
      BY <1>4
    <3> HIDE DEF IndInv, inputs, files
    <3> QED BY <3>1, <3>2, <3>3, <3>4
  <2>4. pc' = "suite" => Len(results') = Len(tests')
    BY <1>1, <1>5
  <2> QED BY <1>5, <2>1, <2>2, <2>3, <2>4 DEF PointInv
<1>9. ResultsInv'
  <2> SUFFICES ASSUME NEW i \in 1 .. Len(results') PROVE Agrees(results[i], tests[i])'
    BY <1>4 DEF ResultsInv
  <2>1. CASE i = Len(results) + 1
    <3>1. tests'[i] = t /\ results'[i] = r
      BY <2>1, <1>1, <1>3 DEF test
    <3> QED BY <3>1 DEF Agrees
  <2>2. CASE i # Len(results) + 1
    <3>1. i \in 1 .. Len(results)
      BY <2>2, <1>3, <1>4
    <3>2. Agrees(results[i], tests[i]) /\ results'[i] = results[i]
      BY <3>1, <1>3, <1>4 DEF ResultsInv
    <3>3. i \in DOMAIN tests /\ Len(results) + 1 \in DOMAIN tests
      BY <3>1, <1>2, <1>4
    <3>4. tests[i] # t
      BY <3>1, <3>3, <1>2, <1>4 DEF test, IsInjective
    <3>5. tests[i] \in Names
      BY <3>3, ElementOfSeq, <1>4 DEF ListsType
    <3> QED BY <3>2, <3>4, <3>5, <1>1 DEF Agrees
  <2> QED BY <2>1, <2>2
<1>10. LatestInv'
  BY <1>1, <1>5 DEF LatestInv, Names, Agrees
<1>11. AggregatesInv'
  BY <1>5 DEF AggregatesInv, Completed
<1>12. OlderInv'
  BY <1>1 DEF OlderInv, AggregatesAgree, PointInv
<1> QED BY <1>6, <1>7, <1>8, <1>9, <1>10, <1>11, <1>12

(* The facts about the test at work that its steps need.                   *)
LEMMA AtTest ==
  ASSUME IndInv, pc \in {"test", "record", "raised", "unidentified"}
  PROVE  /\ test \in Names /\ Len(results) < Len(tests)
         /\ stored \in [Names -> {None} \cup StoredTypes]
         /\ executions \in Nat /\ identity \in Identities
         /\ latest \in [Names -> 0 .. executions]
<1>1. Len(results) < Len(tests) /\ ListsType
  BY DEF IndInv, PointInv
<1>2. test \in Names
  BY <1>1, TestIsName
<1> QED BY <1>1, <1>2 DEF IndInv, FilesType, ControlType

LEMMA ReuseInv ==
  ASSUME IndInv, Reuse
  PROVE  IndInv'
<1> DEFINE r == Result(test, "passed", stored[test].rows, TRUE)
<1>1. pc = "test" /\ Reusable(test) /\ NextTest(r)
      /\ UNCHANGED <<inputs, stored, files, status, executions, latest>>
  BY DEF Reuse, Point
<1>2. stored[test] \in StoredTypes /\ stored[test].status = "passed"
      /\ stored[test].identity = identity /\ stored[test] # None
  BY <1>1, AtTest DEF Reusable
<1>3. r \in ResultTypes
  BY <1>1, <1>2, AtTest DEF Result, ResultTypes, StoredTypes, Statuses, Names
<1>4. UNCHANGED <<listing, run, identity, tests, suiteCsv, summaryCsv>>
  BY <1>1 DEF inputs, files
<1>5. FilesType'
  BY <1>1, <1>4 DEF IndInv, FilesType, Names, StoredTypes, IsAggregate, Whole
<1>6. PICK t : t = test
  OBVIOUS
<1>7. PICK result : result = r
  OBVIOUS
<1>8. Agrees(result, t)'
  BY <1>1, <1>2, <1>4, <1>6, <1>7 DEF Agrees, Result
<1>9. result.status = "passed" => result.rows = latest[t]
  <2>1. result.rows = stored[t].rows /\ t \in Names
    BY <1>1, <1>6, <1>7, AtTest DEF Result
  <2> QED BY <2>1, <1>2, <1>6 DEF IndInv, LatestInv
<1>10. \A s \in Names \ {t} : stored'[s] = stored[s]
  BY <1>1
<1>11. result \in ResultTypes /\ NextTest(result) /\ pc \in {"test", "record", "raised", "unidentified"}
  BY <1>1, <1>3, <1>7
<1> HIDE DEF r
<1> QED BY <1>1, <1>5, <1>6, <1>8, <1>9, <1>10, <1>11, NextTestInv

(* What is stored of the test at work, when nothing is left or a result.   *)
LEMMA StoredSteps ==
  ASSUME IndInv, pc \in {"test", "record", "raised", "unidentified"}, NEW s,
         s = None \/ s \in StoredTypes,
         stored' = [stored EXCEPT ![test] = s],
         UNCHANGED <<inputs, files>>,
         executions' \in Nat, executions' >= executions,
         latest' \in [Names -> 0 .. executions']
  PROVE  /\ FilesType' /\ stored'[test] = s
         /\ \A t \in Names \ {test} : stored'[t] = stored[t]
<1>1. UNCHANGED <<listing, run, identity, tests, suiteCsv, summaryCsv>>
  BY DEF inputs, files
<1>2. test \in Names /\ stored \in [Names -> {None} \cup StoredTypes] /\ executions \in Nat
  BY AtTest
<1>3. Names' = Names
  BY <1>1 DEF Names
<1>4. \A x \in StoredTypes : x \in StoredTypes'
  BY <1>2 DEF StoredTypes
<1>5. stored' \in [Names -> {None} \cup StoredTypes']
  BY <1>2, <1>4
<1>6. IsAggregate(suiteCsv)' /\ IsAggregate(summaryCsv)'
  BY <1>1 DEF IndInv, FilesType, IsAggregate, Whole
<1>7. FilesType'
  BY <1>3, <1>5, <1>6 DEF FilesType
<1> QED BY <1>2, <1>7

LEMMA RecordInv ==
  ASSUME IndInv, Record
  PROVE  IndInv'
<1>1. PICK s \in Statuses :
        /\ stored' = [stored EXCEPT ![test] =
                        [status |-> s, identity |-> identity, rows |-> executions]]
        /\ NextTest(Result(test, s, executions, FALSE))
  BY DEF Record
<1>2. pc = "record" /\ UNCHANGED <<inputs, files, status, executions, latest>>
  BY DEF Record, Point
<1>3. PICK t, result, x :
        /\ t = test /\ result = Result(test, s, executions, FALSE)
        /\ x = [status |-> s, identity |-> identity, rows |-> executions]
  OBVIOUS
<1>4. x \in StoredTypes /\ result \in ResultTypes
  BY <1>2, <1>3, AtTest DEF StoredTypes, ResultTypes, Result, Names
<1>5. stored' = [stored EXCEPT ![test] = x]
  BY <1>1, <1>3
<1>6. FilesType' /\ stored'[t] = x /\ \A u \in Names \ {t} : stored'[u] = stored[u]
  <2>1. executions' = executions /\ latest' = latest /\ UNCHANGED <<inputs, files>>
    BY <1>2
  <2>2. /\ executions' \in Nat /\ executions' >= executions
        /\ latest' \in [Names -> 0 .. executions']
    BY <2>1, <1>2, AtTest
  <2>3. FilesType' /\ stored'[test] = x /\ \A u \in Names \ {test} : stored'[u] = stored[u]
    BY <2>1, <2>2, <1>2, <1>4, <1>5, StoredSteps
  <2> QED BY <2>3, <1>3
<1>7. Agrees(result, t)'
  <2>1. identity' = identity
    BY <1>2 DEF inputs
  <2> QED BY <2>1, <1>3, <1>6, Sentinels DEF Agrees, Result
<1>8. result.rows = latest[t]
  BY <1>2, <1>3 DEF IndInv, LatestInv, Result
<1>9. NextTest(result)
  BY <1>1, <1>3
<1> QED BY <1>2, <1>3, <1>4, <1>6, <1>7, <1>8, <1>9, NextTestInv

LEMMA RecordErrorInv ==
  ASSUME IndInv, RecordError
  PROVE  IndInv'
<1>1. /\ stored' = [stored EXCEPT ![test] =
                      [status |-> "runner-error", rows |-> 0,
                       identity |-> IF Point("raised") THEN identity ELSE Unknown]]
      /\ NextTest(Result(test, "runner-error", 0, FALSE))
      /\ pc \in {"raised", "unidentified"}
      /\ UNCHANGED <<inputs, files, status, executions, latest>>
  BY DEF RecordError
<1>3. PICK t, result, x :
        /\ t = test /\ result = Result(test, "runner-error", 0, FALSE)
        /\ x = [status |-> "runner-error", rows |-> 0,
                identity |-> IF Point("raised") THEN identity ELSE Unknown]
  OBVIOUS
<1>4. x \in StoredTypes /\ result \in ResultTypes
  BY <1>1, <1>3, AtTest DEF StoredTypes, ResultTypes, Result, Names, Statuses
<1>5. stored' = [stored EXCEPT ![test] = x]
  BY <1>1, <1>3
<1>6. FilesType' /\ stored'[t] = x /\ \A u \in Names \ {t} : stored'[u] = stored[u]
  <2>1. executions' = executions /\ latest' = latest /\ UNCHANGED <<inputs, files>>
    BY <1>1
  <2>2. /\ executions' \in Nat /\ executions' >= executions
        /\ latest' \in [Names -> 0 .. executions']
    BY <2>1, <1>1, AtTest
  <2>3. FilesType' /\ stored'[test] = x /\ \A u \in Names \ {test} : stored'[u] = stored[u]
    BY <2>1, <2>2, <1>1, <1>4, <1>5, StoredSteps
  <2> QED BY <2>3, <1>3
<1>7. Agrees(result, t)'
  <2>1. identity' = identity
    BY <1>1 DEF inputs
  <2> QED BY <2>1, <1>3, <1>6, Sentinels DEF Agrees, Result
<1>8. result.status # "passed"
  BY <1>3 DEF Result
<1>9. NextTest(result)
  BY <1>1, <1>3
<1> QED BY <1>1, <1>3, <1>4, <1>6, <1>7, <1>8, <1>9, NextTestInv

(* The stored result of the test at work goes: no result so far is its.    *)
LEMMA ForgottenInv ==
  ASSUME IndInv, pc \in {"test", "record"}, pc' \in {"record", "raised", "unidentified"},
         stored' = [stored EXCEPT ![test] = None],
         UNCHANGED <<inputs, results, files, status>>,
         executions' \in Nat, executions' >= executions,
         latest' \in [Names -> 0 .. executions'],
         \A t \in Names \ {test} : latest'[t] = latest[t],
         pc' = "record" => latest'[test] = executions'
  PROVE  IndInv'
<1>1. UNCHANGED <<listing, run, resume, identity, tests, results, suiteCsv, summaryCsv, status>>
  BY DEF inputs, files
<1>2. test' = test /\ Names' = Names
  BY <1>1 DEF test, Names
<1>3. FilesType' /\ stored'[test] = None /\ \A t \in Names \ {test} : stored'[t] = stored[t]
  <2>1. UNCHANGED <<inputs, files>>
    OBVIOUS
  <2>2. PICK s : s = None
    OBVIOUS
  <2> QED BY <2>1, <2>2, StoredSteps
<1>4. ControlType'
  BY <1>1 DEF IndInv, ControlType, Points
<1>5. ListsType'
  BY <1>1 DEF IndInv, ListsType, Names, ResultTypes
<1>6. PointInv'
  BY <1>1 DEF IndInv, PointInv
<1>7. ResultsInv'
  <2> SUFFICES ASSUME NEW i \in DOMAIN results PROVE Agrees(results[i], tests[i])'
    BY <1>1 DEF ResultsInv
  <2>1. Agrees(results[i], tests[i])
    BY DEF IndInv, ResultsInv
  <2>2. tests \in Seq(Names) /\ results \in Seq(ResultTypes)
        /\ Len(results) < Len(tests) /\ IsInjective(tests)
    BY DEF IndInv, ListsType, PointInv
  <2>3. /\ DOMAIN tests = 1 .. Len(tests) /\ DOMAIN results = 1 .. Len(results)
        /\ Len(tests) \in Nat /\ Len(results) \in Nat
    BY <2>2, LenProperties
  <2>4. i \in DOMAIN tests /\ Len(results) + 1 \in DOMAIN tests /\ i # Len(results) + 1
    BY <2>2, <2>3
  <2>5. tests[i] # test /\ tests[i] \in Names
    BY <2>2, <2>3, <2>4, ElementOfSeq DEF IsInjective, test
  <2> QED BY <1>1, <1>3, <2>1, <2>5 DEF Agrees
<1>8. LatestInv'
  <2>1. ASSUME NEW t \in Names, stored'[t] # None, stored'[t].status = "passed"
        PROVE  stored'[t].rows = latest'[t]
    <3>1. t # test
      BY <1>3, <2>1
    <3> QED BY <1>3, <2>1, <3>1 DEF IndInv, LatestInv
  <2> QED BY <1>2, <2>1 DEF LatestInv
<1>9. AggregatesInv'
  BY DEF AggregatesInv, Completed
<1>10. OlderInv'
  BY <1>1 DEF IndInv, OlderInv, AggregatesAgree
<1> QED BY <1>3, <1>4, <1>5, <1>6, <1>7, <1>8, <1>9, <1>10 DEF IndInv

LEMMA ExecuteInv ==
  ASSUME IndInv, Execute
  PROVE  IndInv'
<1>1. /\ pc = "test" /\ pc' = "record"
      /\ stored' = [stored EXCEPT ![test] = None]
      /\ executions' = executions + 1
      /\ latest' = [latest EXCEPT ![test] = executions + 1]
      /\ UNCHANGED <<inputs, results, files, status>>
  BY DEF Execute, Point, Goto
<1>2. test \in Names /\ executions \in Nat /\ latest \in [Names -> 0 .. executions]
  BY <1>1, AtTest
<1>3. executions' \in Nat /\ executions' >= executions /\ latest' \in [Names -> 0 .. executions']
  BY <1>1, <1>2
<1>4. latest'[test] = executions' /\ \A t \in Names \ {test} : latest'[t] = latest[t]
  BY <1>1, <1>2
<1> QED BY <1>1, <1>3, <1>4, ForgottenInv

LEMMA RaisedInv ==
  ASSUME IndInv, Raised
  PROVE  IndInv'
<1>1. /\ pc \in {"test", "record"} /\ pc' \in {"raised", "unidentified"}
      /\ stored' = [stored EXCEPT ![test] = None]
      /\ UNCHANGED <<inputs, results, files, status>>
      /\ executions' = executions /\ latest' = latest
  BY DEF Raised, Point
<1>2. executions \in Nat /\ latest \in [Names -> 0 .. executions]
  BY <1>1, AtTest
<1>3. executions' \in Nat /\ executions' >= executions /\ latest' \in [Names -> 0 .. executions']
  BY <1>1, <1>2
<1> QED BY <1>1, <1>3, ForgottenInv

-----------------------------------------------------------------------------
(* The run ends before its end: with an error, or because it is stopped.   *)
LEMMA StoppedInv ==
  ASSUME IndInv, Isolated \/ Interrupted
  PROVE  IndInv'
<1>1. /\ pc # "idle" /\ pc' = "idle"
      /\ status' = "killed" \/ (status' = "1" /\ pc = "record")
      /\ UNCHANGED <<listing, run, resume, identity, tests, results, stored, suiteCsv,
                     summaryCsv, executions, latest>>
  BY DEF Isolated, Interrupted, Point, Goto, Exit, inputs, files
<1>2. ControlType'
  BY <1>1 DEF IndInv, ControlType, Points
<1>3. ListsType' /\ FilesType'
  BY <1>1 DEF IndInv, ListsType, FilesType, Names, ResultTypes, StoredTypes, IsAggregate, Whole
<1>4. PointInv'
  BY <1>1 DEF PointInv
<1>5. ResultsInv' /\ LatestInv'
  BY <1>1 DEF IndInv, ResultsInv, Agrees, LatestInv, Names
<1>6. AggregatesInv'
  <2>1. pc = "record" => Len(results) # Len(tests)
    <3>1. Len(results) \in Nat /\ Len(tests) \in Nat
      BY LenProperties DEF IndInv, ListsType
    <3> QED BY <3>1 DEF IndInv, PointInv
  <2>2. ~Completed'
    BY <1>1, <2>1 DEF Completed
  <2> QED BY <1>1, <2>2 DEF AggregatesInv
<1>7. OlderInv'
  BY <1>1 DEF IndInv, OlderInv, AggregatesAgree
<1> QED BY <1>2, <1>3, <1>4, <1>5, <1>6, <1>7 DEF IndInv

(* A step that changes one aggregate, and may end the run.                 *)
LEMMA AggregateStep ==
  ASSUME IndInv, pc \in {"discard", "suite", "summary"},
         UNCHANGED <<inputs, results, stored, executions, latest>>,
         \/ pc' = pc /\ status' = status
         \/ pc = "suite" /\ pc' = "summary" /\ status' = status
         \/ pc = "discard" /\ pc' = "idle" /\ status' = "1"
         \/ pc = "summary" /\ pc' = "idle" /\ status' \in {"0", "1"},
         IsAggregate(suiteCsv)', IsAggregate(summaryCsv)', AggregatesInv', OlderInv'
  PROVE  IndInv'
<1>1. UNCHANGED <<listing, run, resume, identity, tests, results, stored, executions, latest>>
  BY DEF inputs
<1>2. ControlType'
  BY <1>1 DEF IndInv, ControlType, Points
<1>3. ListsType'
  BY <1>1 DEF IndInv, ListsType, Names, ResultTypes
<1>4. FilesType'
  BY <1>1 DEF IndInv, FilesType, Names, StoredTypes
<1>5. PointInv'
  BY <1>1 DEF IndInv, PointInv
<1>6. ResultsInv' /\ LatestInv'
  BY <1>1 DEF IndInv, ResultsInv, Agrees, LatestInv, Names
<1> QED BY <1>2, <1>3, <1>4, <1>5, <1>6 DEF IndInv

LEMMA DiscardInv ==
  ASSUME IndInv, DiscardSuite \/ DiscardSummary
  PROVE  IndInv'
<1>1. /\ pc = "discard" /\ UNCHANGED <<inputs, results, stored, executions, latest>>
      /\ \/ pc' = pc /\ status' = status /\ suiteCsv' = None /\ summaryCsv' = summaryCsv
         \/ pc' = "idle" /\ status' = "1" /\ suiteCsv' = suiteCsv /\ summaryCsv' = None
  BY DEF DiscardSuite, DiscardSummary, Point, Goto, Exit
<1>2. run' = run /\ tests' = tests /\ results' = results /\ tests = << >>
  BY <1>1 DEF inputs, IndInv, PointInv
<1>3. IsAggregate(suiteCsv)' /\ IsAggregate(summaryCsv)'
  BY <1>1, <1>2 DEF IndInv, FilesType, IsAggregate, Whole
<1>4. AggregatesInv'
  BY <1>1, <1>2 DEF AggregatesInv, Completed
<1>5. OlderInv'
  BY <1>1, <1>2, Sentinels DEF IndInv, OlderInv, AggregatesAgree, Whole
<1> QED BY <1>1, <1>3, <1>4, <1>5, AggregateStep

(* suite.csv is of this run from here on; summary.csv is of an earlier one.*)
LEMMA SuiteInv ==
  ASSUME IndInv, OpenSuite \/ WriteSuite
  PROVE  IndInv'
<1>1. /\ pc = "suite" /\ UNCHANGED <<inputs, results, stored, executions, latest>>
      /\ summaryCsv' = summaryCsv /\ status' = status
      /\ \/ pc' = pc /\ suiteCsv' = Torn
         \/ /\ pc' = "summary"
            /\ suiteCsv' = [file |-> "whole", run |-> run, rows |-> RowsOf(results)]
  BY DEF OpenSuite, WriteSuite, Point, Goto
<1>2. run' = run /\ tests' = tests /\ results' = results /\ run \in Nat /\ run > 0
  BY <1>1 DEF inputs, IndInv, PointInv, ControlType
<1>3. IsAggregate(suiteCsv)' /\ IsAggregate(summaryCsv)'
  BY <1>1, <1>2 DEF IndInv, FilesType, IsAggregate, Whole
<1>4. AggregatesInv'
  BY <1>1, <1>2 DEF AggregatesInv, Completed, SuiteWritten, RowsOf
<1>5. OlderInv'
  <2>1. Whole(summaryCsv)' => summaryCsv'.run < run'
    BY <1>1, <1>2 DEF IndInv, OlderInv, Whole
  <2>2. Whole(suiteCsv)' => suiteCsv'.run = run'
    BY <1>1, <1>2, Sentinels DEF Whole
  <2> QED BY <2>1, <2>2 DEF OlderInv, AggregatesAgree
<1> QED BY <1>1, <1>3, <1>4, <1>5, AggregateStep

LEMMA OpenSummaryInv ==
  ASSUME IndInv, OpenSummary
  PROVE  IndInv'
<1>1. /\ pc = "summary" /\ UNCHANGED <<inputs, results, stored, executions, latest>>
      /\ pc' = pc /\ status' = status /\ suiteCsv' = suiteCsv /\ summaryCsv' = Torn
  BY DEF OpenSummary, Point
<1>2. run' = run /\ tests' = tests /\ results' = results
  BY <1>1 DEF inputs
<1>3. IsAggregate(suiteCsv)' /\ IsAggregate(summaryCsv)'
  BY <1>1, <1>2 DEF IndInv, FilesType, IsAggregate, Whole
<1>4. AggregatesInv'
  BY <1>1, <1>2 DEF IndInv, AggregatesInv, Completed, SuiteWritten, RowsOf
<1>5. OlderInv'
  BY <1>1, Sentinels DEF OlderInv, AggregatesAgree, Whole
<1> QED BY <1>1, <1>3, <1>4, <1>5, AggregateStep

(* summary.csv lists the results whose rows suite.csv already has.         *)
LEMMA WriteSummaryInv ==
  ASSUME IndInv, WriteSummary
  PROVE  IndInv'
<1>1. /\ pc = "summary" /\ UNCHANGED <<inputs, results, stored, executions, latest>>
      /\ pc' = "idle" /\ status' = Verdict /\ suiteCsv' = suiteCsv
      /\ summaryCsv' = [file |-> "whole", run |-> run, rows |-> SummaryOf(results)]
  BY DEF WriteSummary, Point, Goto, Exit
<1>2. run' = run /\ tests' = tests /\ results' = results /\ run \in Nat /\ run > 0
  BY <1>1 DEF inputs, IndInv, PointInv, ControlType
<1>3. IsAggregate(suiteCsv)' /\ IsAggregate(summaryCsv)'
  BY <1>1, <1>2 DEF IndInv, FilesType, IsAggregate, Whole
<1>4. SuiteWritten' /\ SummaryWritten'
  BY <1>1, <1>2 DEF IndInv, AggregatesInv, SuiteWritten, SummaryWritten, RowsOf, SummaryOf
<1>5. Verdict \in {"0", "1"}
      /\ (Verdict = "0" => \A i \in DOMAIN results : results[i].status = "passed")
  BY DEF Verdict
<1>6. AggregatesInv'
  <2>1. tests # << >> /\ Len(results) = Len(tests)
    BY <1>1 DEF IndInv, PointInv
  <2>2. Completed'
    BY <1>1, <1>2, <1>5, <2>1 DEF Completed
  <2> QED BY <1>1, <1>2, <1>4, <1>5, <2>2 DEF AggregatesInv
<1>7. OlderInv'
  <2>1. suiteCsv'.run = run' /\ summaryCsv'.run = run'
    BY <1>4, <1>2 DEF SuiteWritten, SummaryWritten
  <2>2. suiteCsv'.rows = RowsOf(results) /\ summaryCsv'.rows = SummaryOf(results)
    BY <1>4, <1>2 DEF SuiteWritten, SummaryWritten, RowsOf, SummaryOf
  <2>3. [i \in DOMAIN RowsOf(results) |-> RowsOf(results)[i][1]]
          = [i \in DOMAIN SummaryOf(results) |-> SummaryOf(results)[i][1]]
    BY DEF RowsOf, SummaryOf
  <2> QED BY <1>1, <2>1, <2>2, <2>3 DEF OlderInv, AggregatesAgree
<1> QED BY <1>1, <1>3, <1>5, <1>6, <1>7, AggregateStep

LEMMA StutterInv == IndInv /\ UNCHANGED vars => IndInv'
<1> SUFFICES ASSUME IndInv, UNCHANGED vars PROVE IndInv'
  OBVIOUS
<1> USE DEF vars
<1>1. ControlType' /\ ListsType' /\ FilesType'
  BY DEF IndInv, ControlType, ListsType, FilesType, Names, ResultTypes, StoredTypes,
         IsAggregate, Whole
<1>2. PointInv' /\ ResultsInv'
  BY DEF IndInv, PointInv, ResultsInv, Agrees
<1>3. LatestInv'
  BY DEF IndInv, LatestInv, Names, test
<1>4. AggregatesInv'
  BY DEF IndInv, AggregatesInv, Completed, SuiteWritten, SummaryWritten, RowsOf, SummaryOf
<1>5. OlderInv'
  BY DEF IndInv, OlderInv, AggregatesAgree, Whole
<1> QED BY <1>1, <1>2, <1>3, <1>4, <1>5 DEF IndInv

LEMMA InvariantHolds == Spec => []IndInv
<1>1. IndInv /\ [Next]_vars => IndInv'
  BY StartInv, StartFailsInv, DiscardInv, ReuseInv, ExecuteInv, RecordInv, RaisedInv,
     RecordErrorInv, StoppedInv, SuiteInv, OpenSummaryInv, WriteSummaryInv, StutterInv
     DEF Next, Select, Loop, Aggregate
<1> QED BY InitInv, <1>1, PTL DEF Spec

-----------------------------------------------------------------------------
(* A test is begun only while one is left, and the results are those of    *)
(* the tests selected, in their order (main, the loop).                    *)
THEOREM TypeCorrect == Spec => []TypeOK
<1>1. IndInv => TypeOK
  <2> SUFFICES ASSUME IndInv PROVE TypeOK
    OBVIOUS
  <2>1. Range(tests) \subseteq DOMAIN stored
    <3>1. tests \in [1 .. Len(tests) -> Names] /\ DOMAIN stored = Names
      BY LenProperties DEF IndInv, ListsType, FilesType
    <3> QED BY <3>1 DEF Range
  <2>2. \A i \in DOMAIN results : results[i].test = tests[i]
    BY DEF IndInv, ResultsInv, Agrees
  <2>3. \A t \in DOMAIN stored : stored[t] = None \/ stored[t] \in StoredTypes
    BY DEF IndInv, FilesType
  <2>4. \A f : IsAggregate(f) => f \in {None, Torn} \/ f.run \in 1 .. run
    BY DEF IsAggregate
  <2> QED BY <2>1, <2>2, <2>3, <2>4
       DEF IndInv, ControlType, ListsType, FilesType, PointInv, StoredTypes, Names, Points, TypeOK
<1> QED BY <1>1, InvariantHolds, PTL

(* What the results of a run that reached its end agree with.              *)
LEMMA CompletedRun ==
  ASSUME IndInv, Completed
  PROVE  /\ SuiteWritten /\ SummaryWritten
         /\ DOMAIN results = DOMAIN tests
         /\ \A i \in DOMAIN tests : Agrees(results[i], tests[i]) /\ tests[i] \in Names
<1>1. /\ DOMAIN tests = 1 .. Len(tests) /\ DOMAIN results = 1 .. Len(results)
      /\ tests \in [1 .. Len(tests) -> Names]
  BY LenProperties DEF IndInv, ListsType
<1> QED BY <1>1 DEF IndInv, AggregatesInv, ResultsInv, Completed

(* Exit 0 means that every selected test has a stored pass of this command *)
(* and build, from its last execution, and suite.csv has exactly its rows  *)
(* (main, the loop and line 775).                                          *)
THEOREM ExitZero == Spec => []ExitZeroIsEarned
<1>1. IndInv => ExitZeroIsEarned
  <2> SUFFICES ASSUME IndInv, pc = "idle", status = "0"
               PROVE  /\ Completed /\ Whole(suiteCsv) /\ suiteCsv.run = run
                      /\ \A i \in DOMAIN tests :
                           /\ stored[tests[i]] # None
                           /\ stored[tests[i]].status = "passed"
                           /\ stored[tests[i]].identity = identity
                           /\ suiteCsv.rows[i] = <<tests[i], latest[tests[i]]>>
    BY DEF ExitZeroIsEarned
  <2>1. Completed /\ \A i \in DOMAIN results : results[i].status = "passed"
    BY DEF IndInv, AggregatesInv
  <2>2. Whole(suiteCsv) /\ suiteCsv.run = run /\ suiteCsv.rows = RowsOf(results)
    BY <2>1, CompletedRun DEF SuiteWritten, Whole
  <2>3. ASSUME NEW i \in DOMAIN tests
        PROVE  /\ stored[tests[i]] # None
               /\ stored[tests[i]].status = "passed"
               /\ stored[tests[i]].identity = identity
               /\ suiteCsv.rows[i] = <<tests[i], latest[tests[i]]>>
    <3>1. /\ Agrees(results[i], tests[i]) /\ tests[i] \in Names
          /\ i \in DOMAIN results /\ results[i].status = "passed"
      BY <2>1, CompletedRun
    <3>2. results[i].rows = latest[tests[i]]
      BY <3>1 DEF IndInv, LatestInv, Agrees
    <3>3. RowsOf(results)[i] = <<results[i].test, results[i].rows>>
      BY <3>1 DEF RowsOf
    <3> QED BY <3>1, <3>2, <3>3, <2>2 DEF Agrees
  <2> QED BY <2>1, <2>2, <2>3
<1> QED BY <1>1, InvariantHolds, PTL

(* A completed run leaves a suite.csv and a summary.csv that agree with    *)
(* the stored results test by test (main, suite_rows and results).         *)
THEOREM AggregatesMatch == Spec => []AggregatesMatchStored
<1>1. IndInv => AggregatesMatchStored
  <2> SUFFICES ASSUME IndInv, Completed PROVE AggregatesMatchStored
    BY DEF AggregatesMatchStored
  <2>1. /\ Whole(suiteCsv) /\ suiteCsv.run = run /\ suiteCsv.rows = RowsOf(results)
        /\ Whole(summaryCsv) /\ summaryCsv.run = run /\ summaryCsv.rows = SummaryOf(results)
    BY CompletedRun DEF SuiteWritten, SummaryWritten, Whole
  <2>2. /\ DOMAIN results = DOMAIN tests
        /\ \A i \in DOMAIN tests : Agrees(results[i], tests[i])
    BY CompletedRun
  <2>3. RowsOf(results) = [i \in DOMAIN tests |-> <<tests[i], stored[tests[i]].rows>>]
    BY <2>2 DEF RowsOf, Agrees
  <2>4. \A i \in DOMAIN tests :
          /\ SummaryOf(results)[i][1] = tests[i]
          /\ SummaryOf(results)[i][2] = stored[tests[i]].status
    BY <2>2 DEF SummaryOf, Agrees
  <2> QED BY <2>1, <2>3, <2>4 DEF AggregatesMatchStored
<1> QED BY <1>1, InvariantHolds, PTL

(* A summary.csv beside a suite.csv is of the same run and lists the same  *)
(* tests, or it is the older of the two, whichever runs were interrupted   *)
(* (write_suite_trace comes before write_summary).                         *)
THEOREM AggregatesAgreeAlways == Spec => []AggregatesAgree
<1>1. IndInv => AggregatesAgree
  BY DEF IndInv, OlderInv
<1> QED BY <1>1, InvariantHolds, PTL

(* A run that selects no test leaves no aggregate of an earlier run (main, *)
(* line 641).                                                              *)
THEOREM EmptySelection == Spec => EmptySelectionLeavesNothing
<1>1. IndInv /\ [Next]_vars
        => [(pc = "discard" /\ status' = "1") => (suiteCsv' = None /\ summaryCsv' = None)]_vars
  <2> SUFFICES ASSUME IndInv, Next, pc = "discard", status' = "1"
               PROVE  suiteCsv' = None /\ summaryCsv' = None
    OBVIOUS
  <2>1. status = "running"
    BY DEF IndInv, PointInv
  <2>2. DiscardSummary
    BY <2>1 DEF Next, Select, Loop, Aggregate, Start, StartFails, DiscardSuite, Reuse, Execute,
       Record, Raised, RecordError, Isolated, OpenSuite, WriteSuite, OpenSummary, WriteSummary,
       Interrupted, Point, Goto, Exit
  <2> QED BY <2>2 DEF DiscardSummary
<1> QED BY <1>1, InvariantHolds, PTL DEF Spec, EmptySelectionLeavesNothing
=============================================================================
