----------------------------- MODULE TypeDive_proofs -----------------------------
(***************************************************************************)
(* Proofs about TypeDive, for any databases, candidates, logs and traces,  *)
(* and a stop at any point: a summary vouches for exact tables, a          *)
(* comparison finds the candidates of the calls, loses no call and counts  *)
(* all events, and each command compiled translates the source of its own  *)
(* entry of the database.                                                  *)
(***************************************************************************)
EXTENDS TypeDive, FiniteSetTheorems, SequenceTheorems, WellFoundedInduction, TLAPS

Working == {"compile", "analyze", "parse", "table"}

ControlInv ==
  /\ pc \in Working \cup {"idle", "summary", "compare"}
  /\ mode \in 1 .. 3
  /\ ~exists => pc = "idle" /\ mode = 1 /\ summary = Absent
  /\ pc = "compile" => mode = 1
  /\ pc \in Working => summary = Absent
  /\ candidates \in [Modes -> SUBSET UNION CandidateSets]
  /\ \A m \in Modes : IsFiniteSet(candidates[m])
  /\ DOMAIN tables = Modes

(* A log is of the candidates of its mode, or of none of them, and says so. *)
LogInv ==
  pc = "parse" =>
    \E found \in {candidates[ModeNames[mode]], {}} :
      log \in Logs(found, found # candidates[ModeNames[mode]])

PairsInv == pc = "table" => pairs = candidates[ModeNames[mode]]

(* The tables of the modes that are behind, and what the summary says.     *)
Finished(k) == tables[ModeNames[k]] = Whole(candidates[ModeNames[k]])
TablesInv ==
  /\ pc \in Working => \A k \in 1 .. 3 : k < mode => Finished(k)
  /\ pc = "summary" \/ summary # Absent => \A k \in 1 .. 3 : Finished(k)
SummaryInv ==
  summary \in {Absent, Torn} \/ summary = Whole([m \in Modes |-> Cardinality(tables[m].data)])

TablesIndInv == ControlInv /\ LogInv /\ PairsInv /\ TablesInv /\ SummaryInv

-----------------------------------------------------------------------------
LEMMA ModesAre ==
  /\ Modes = {"flta", "one_layer", "mlta"}
  /\ Len(ModeNames) = 3
  /\ \A k \in 1 .. 3 : ModeNames[k] \in Modes
  /\ \A m \in Modes : \E k \in 1 .. 3 : ModeNames[k] = m
  /\ \A j, k \in 1 .. 3 : ModeNames[j] = ModeNames[k] => j = k
<1>1. DOMAIN ModeNames = 1 .. 3 /\ Len(ModeNames) = 3
  BY DEF ModeNames
<1>2. ModeNames[1] = "flta" /\ ModeNames[2] = "one_layer" /\ ModeNames[3] = "mlta"
  BY DEF ModeNames
<1>3. 1 .. 3 = {1, 2, 3}
  OBVIOUS
<1>4. Modes = {ModeNames[k] : k \in {1, 2, 3}}
  BY <1>1, <1>3 DEF Modes, Range
<1> QED BY <1>1, <1>2, <1>3, <1>4

(* A log that is accepted has every candidate: its pairs are some of those *)
(* found, and as many.                                                     *)
LEMMA AcceptedLogIsWhole ==
  ASSUME NEW found, IsFiniteSet(found), NEW unreadable,
         log \in Logs(found, unreadable), parse_log
  PROVE  ~unreadable /\ Records(log.lines) = found
<1>1. log.unreadable = unreadable /\ log.targets \in {Cardinality(found), -1}
  BY DEF Logs
<1>2. Cardinality(Records(log.lines)) = Cardinality(found)
  BY <1>1 DEF parse_log
<1>3. Records(log.lines) \subseteq found
  <2>1. log.lines \in UNION {[1 .. n -> [pair : found, ir : {"text", "other text"}]] :
                               n \in 0 .. Cardinality(found) + 1}
    BY DEF Logs
  <2>2. PICK n \in 0 .. Cardinality(found) + 1 :
          log.lines \in [1 .. n -> [pair : found, ir : {"text", "other text"}]]
    BY <2>1
  <2>3. \A i \in DOMAIN log.lines : log.lines[i].pair \in found
    BY <2>2
  <2> QED BY <2>3 DEF Records
<1>4. QED
  BY <1>1, <1>2, <1>3, FS_Subset DEF parse_log

-----------------------------------------------------------------------------
LEMMA InitTables == Init => TablesIndInv
<1> SUFFICES ASSUME Init PROVE TablesIndInv
  OBVIOUS
<1>1. ControlInv
  <2>1. candidates = [m \in Modes |-> {}] /\ tables = [m \in Modes |-> Absent]
    BY DEF Init
  <2>2. \A m \in Modes : candidates[m] = {}
    BY <2>1
  <2>3. \A m \in Modes : IsFiniteSet(candidates[m])
    BY <2>2, FS_EmptySet
  <2> QED BY <2>1, <2>3 DEF Init, ControlInv, Working
<1>2. LogInv /\ PairsInv /\ TablesInv /\ SummaryInv
  BY DEF Init, LogInv, PairsInv, TablesInv, SummaryInv, Working
<1> QED BY <1>1, <1>2 DEF TablesIndInv

shown == <<mode, log, pairs, tables, summary, candidates>>

(* Steps that touch nothing the invariant is about but the control.        *)
LEMMA QuietStep ==
  ASSUME TablesIndInv, UNCHANGED shown,
         \/ UNCHANGED <<pc, exists>>
         \/ ~exists /\ exists' /\ pc' \in {"idle", "compile"}
         \/ exists' = exists /\ pc = "compile" /\ pc' = "analyze"
  PROVE  TablesIndInv'
<1>1. ControlInv'
  BY DEF TablesIndInv, ControlInv, shown, Working
<1>2. LogInv' /\ PairsInv'
  BY DEF TablesIndInv, LogInv, PairsInv, shown, Logs
<1>3. TablesInv' /\ SummaryInv'
  BY DEF TablesIndInv, ControlInv, TablesInv, SummaryInv, Finished, shown, Working
<1> QED BY <1>1, <1>2, <1>3 DEF TablesIndInv

LEMMA RunAnalyzerStep == TablesIndInv /\ RunAnalyzer => TablesIndInv'
<1> SUFFICES ASSUME TablesIndInv, RunAnalyzer PROVE TablesIndInv'
  OBVIOUS
<1> DEFINE current == ModeNames[mode]
<1>1. PICK all \in CandidateSets :
        /\ candidates' = [candidates EXCEPT ![current] = all]
        /\ \E found \in {all, {}} : log' \in Logs(found, found # all)
  BY DEF RunAnalyzer
<1>2. /\ pc = "analyze" /\ pc' = "parse"
      /\ UNCHANGED <<exists, mode, pairs, tables, summary>>
  BY DEF RunAnalyzer, results
<1>3. current \in Modes /\ IsFiniteSet(all)
  BY ModesAre, CandidateSetsAssumption DEF TablesIndInv, ControlInv
<1>4. candidates'[current] = all /\ \A m \in Modes \ {current} : candidates'[m] = candidates[m]
  BY <1>1, <1>3 DEF TablesIndInv, ControlInv
<1>5. ControlInv'
  <2>1. candidates' \in [Modes -> SUBSET UNION CandidateSets]
    <3>1. all \in SUBSET UNION CandidateSets
      OBVIOUS
    <3> QED BY <1>1, <3>1 DEF TablesIndInv, ControlInv
  <2>2. \A m \in Modes : IsFiniteSet(candidates'[m])
    BY <1>3, <1>4 DEF TablesIndInv, ControlInv
  <2>3. exists /\ summary = Absent
    BY <1>2 DEF TablesIndInv, ControlInv, Working
  <2> QED BY <1>2, <2>1, <2>2, <2>3 DEF TablesIndInv, ControlInv, Working
<1>6. LogInv'
  BY <1>1, <1>2, <1>4 DEF LogInv
<1>7. PairsInv' /\ SummaryInv'
  BY <1>2 DEF TablesIndInv, ControlInv, PairsInv, SummaryInv, Working
<1>8. TablesInv'
  <2>1. ASSUME NEW k \in 1 .. 3, k < mode PROVE Finished(k)'
    <3>1. ModeNames[k] \in Modes \ {current}
      BY <2>1, ModesAre DEF TablesIndInv, ControlInv
    <3>2. Finished(k)
      BY <1>2, <2>1 DEF TablesIndInv, TablesInv, Working
    <3> QED BY <1>2, <1>4, <3>1, <3>2 DEF Finished
  <2> QED BY <1>2, <2>1 DEF TablesIndInv, ControlInv, TablesInv, Working
<1> QED BY <1>5, <1>6, <1>7, <1>8 DEF TablesIndInv

LEMMA ParseLogStep == TablesIndInv /\ ParseLog => TablesIndInv'
<1> SUFFICES ASSUME TablesIndInv, ParseLog PROVE TablesIndInv'
  OBVIOUS
<1> DEFINE current == ModeNames[mode]
<1>1. /\ pc = "parse" /\ pc' = "table" /\ parse_log
      /\ pairs' = Records(log.lines)
      /\ tables' = [tables EXCEPT ![current] = Torn]
      /\ UNCHANGED <<exists, mode, summary, candidates>>
  BY DEF ParseLog, results
<1>2. current \in Modes
  BY ModesAre DEF TablesIndInv, ControlInv
<1>3. pairs' = candidates[current]
  <2>1. PICK found \in {candidates[current], {}} : log \in Logs(found, found # candidates[current])
    BY <1>1 DEF TablesIndInv, LogInv
  <2>2. IsFiniteSet(found)
    BY <1>2, <2>1, FS_EmptySet DEF TablesIndInv, ControlInv
  <2>3. found = candidates[current] /\ Records(log.lines) = found
    BY <1>1, <2>1, <2>2, AcceptedLogIsWhole
  <2> QED BY <1>1, <2>3
<1>4. ControlInv' /\ LogInv' /\ SummaryInv'
  BY <1>1 DEF TablesIndInv, ControlInv, LogInv, SummaryInv, Working
<1>5. PairsInv'
  BY <1>1, <1>3 DEF PairsInv
<1>6. TablesInv'
  <2>1. ASSUME NEW k \in 1 .. 3, k < mode PROVE Finished(k)'
    <3>1. ModeNames[k] \in Modes \ {current}
      BY <2>1, ModesAre DEF TablesIndInv, ControlInv
    <3>2. Finished(k)
      BY <1>1, <2>1 DEF TablesIndInv, TablesInv, Working
    <3> QED BY <1>1, <3>1, <3>2 DEF Finished, TablesIndInv, ControlInv
  <2> QED BY <1>1, <2>1 DEF TablesIndInv, ControlInv, TablesInv, Working
<1> QED BY <1>4, <1>5, <1>6 DEF TablesIndInv

LEMMA WriteTableStep == TablesIndInv /\ WriteTable => TablesIndInv'
<1> SUFFICES ASSUME TablesIndInv, WriteTable PROVE TablesIndInv'
  OBVIOUS
<1> DEFINE current == ModeNames[mode]
<1>1. /\ pc = "table"
      /\ tables' = [tables EXCEPT ![current] = Whole(pairs)]
      /\ UNCHANGED <<exists, summary, candidates>>
  BY DEF WriteTable, results
<1>2. \/ mode < 3 /\ pc' = "analyze" /\ mode' = mode + 1
      \/ mode = 3 /\ pc' = "summary" /\ mode' = mode
  BY ModesAre DEF WriteTable, TablesIndInv, ControlInv
<1>3. pairs = candidates[current] /\ current \in Modes
  BY <1>1, ModesAre DEF TablesIndInv, PairsInv, ControlInv
<1>4. \A k \in 1 .. 3 : k <= mode => Finished(k)'
  <2>1. ASSUME NEW k \in 1 .. 3, k < mode PROVE Finished(k)'
    <3>1. ModeNames[k] \in Modes \ {current}
      BY <2>1, ModesAre DEF TablesIndInv, ControlInv
    <3>2. Finished(k)
      BY <1>1, <2>1 DEF TablesIndInv, TablesInv, Working
    <3> QED BY <1>1, <3>1, <3>2 DEF Finished, TablesIndInv, ControlInv
  <2>2. tables'[current] = Whole(candidates'[current])
    BY <1>1, <1>3 DEF TablesIndInv, ControlInv
  <2>3. ASSUME NEW k \in 1 .. 3, k = mode PROVE Finished(k)'
    <3>1. UNCHANGED ModeNames
      BY DEF ModeNames
    <3> QED BY <2>2, <2>3, <3>1 DEF Finished
  <2> QED BY <2>1, <2>3 DEF TablesIndInv, ControlInv
<1>5. ControlInv'
  BY <1>1, <1>2 DEF TablesIndInv, ControlInv, Working
<1>6. LogInv' /\ PairsInv' /\ SummaryInv'
  BY <1>1, <1>2 DEF TablesIndInv, ControlInv, LogInv, PairsInv, SummaryInv, Working
<1>7. TablesInv'
  BY <1>1, <1>2, <1>4 DEF TablesIndInv, ControlInv, TablesInv, Working
<1> QED BY <1>5, <1>6, <1>7 DEF TablesIndInv

(* Steps after the tables, and a stop anywhere.                            *)
LEMMA SummaryStep ==
  ASSUME TablesIndInv, OpenSummary \/ WriteSummary
  PROVE  TablesIndInv'
<1>1. /\ pc = "summary" /\ pc' \in {"summary", "idle"}
      /\ UNCHANGED <<exists, mode, tables, candidates>>
      /\ summary' \in {Torn, Whole([m \in Modes |-> Cardinality(tables[m].data)])}
  BY DEF OpenSummary, WriteSummary, End, analysis
<1>2. ControlInv' /\ LogInv' /\ PairsInv'
  BY <1>1 DEF TablesIndInv, ControlInv, LogInv, PairsInv, Working
<1>3. TablesInv' /\ SummaryInv'
  BY <1>1 DEF TablesIndInv, TablesInv, SummaryInv, Finished, Working
<1> QED BY <1>2, <1>3 DEF TablesIndInv

LEMMA LeavingStep ==
  ASSUME TablesIndInv, Compare \/ WriteComparison \/ Stop
  PROVE  TablesIndInv'
<1>1. /\ pc' \in {"compare", "idle"} /\ UNCHANGED <<exists, mode, tables, candidates, summary>>
      /\ exists
  BY DEF Compare, WriteComparison, Stop, End, analysis, IsWhole, Absent, TablesIndInv, ControlInv
<1>2. ControlInv' /\ LogInv' /\ PairsInv'
  BY <1>1 DEF TablesIndInv, ControlInv, LogInv, PairsInv, Working
<1>3. TablesInv' /\ SummaryInv'
  BY <1>1 DEF TablesIndInv, TablesInv, SummaryInv, Finished, Working
<1> QED BY <1>2, <1>3 DEF TablesIndInv

LEMMA NextTables == TablesIndInv /\ [Next]_vars => TablesIndInv'
<1> SUFFICES ASSUME TablesIndInv, [Next]_vars PROVE TablesIndInv'
  OBVIOUS
<1>1. CASE AddEntry
  BY <1>1, QuietStep DEF AddEntry, analysis, results, shown
<1>2. CASE AddArgument
  BY <1>2, QuietStep DEF AddArgument, analysis, results, shown
<1>3. CASE Start
  BY <1>3, QuietStep DEF Start, analysis, results, shown
<1>4. CASE Compile
  BY <1>4, QuietStep DEF Compile, analysis, results, shown
<1>5. CASE WriteManifest
  BY <1>5, QuietStep DEF WriteManifest, analysis, results, shown
<1>6. CASE UNCHANGED vars
  BY <1>6, QuietStep DEF vars, shown
<1> QED
  BY <1>1, <1>2, <1>3, <1>4, <1>5, <1>6, RunAnalyzerStep, ParseLogStep, WriteTableStep,
     SummaryStep, LeavingStep DEF Next, Analyze

LEMMA TablesIndImplies == TablesIndInv => TablesAreExact
<1> SUFFICES ASSUME TablesIndInv, IsWhole(summary), NEW m \in Modes
             PROVE  tables[m] = Whole(candidates[m]) /\ summary.data[m] = Cardinality(candidates[m])
  BY DEF TablesAreExact
<1>1. summary # Absent /\ summary # Torn
  BY DEF IsWhole, Absent, Torn
<1>2. tables[m] = Whole(candidates[m])
  BY <1>1, ModesAre DEF TablesIndInv, TablesInv, Finished
<1>3. summary.data[m] = Cardinality(tables[m].data)
  BY <1>1 DEF TablesIndInv, SummaryInv, Whole
<1> QED BY <1>2, <1>3 DEF Whole

-----------------------------------------------------------------------------
(* Whatever the analyzer finds, prints twice or leaves out, and wherever   *)
(* analyze is stopped: a summary.json that can be read goes with three     *)
(* whole tables of exactly the candidates found (parse_log, analyze).      *)
THEOREM SummaryVouches == Spec => []TablesAreExact
<1>1. Init => TablesIndInv
  BY InitTables
<1>2. TablesIndInv /\ [Next]_vars => TablesIndInv'
  BY NextTables
<1>3. TablesIndInv => TablesAreExact
  BY TablesIndImplies
<1> QED BY <1>1, <1>2, <1>3, PTL DEF Spec

-----------------------------------------------------------------------------
(* Comparisons: the document written is the comparison of all candidates   *)
(* with a trace and a binary, and nothing changes after it is opened.      *)
Comparison(trace, frames, found) ==
  LET dynamic == Observed(frames, trace)
      modes == [m \in Modes |-> compare_pairs(found[m], dynamic)]
  IN Whole([trace |-> trace, frames |-> frames, modes |-> modes, removed |-> Removed(modes)])
IsComparison(doc) ==
  \E trace \in Traces, frames \in Binaries : doc = Comparison(trace, frames, candidates)

CompareInv ==
  /\ pc \notin {"idle", "compare"} => comparison = Absent
  /\ comparison # Absent => IsWhole(summary)
  /\ pc = "compare" => comparison = Torn /\ IsComparison(document)
  /\ IsWhole(comparison) => IsComparison(comparison)

CompareIndInv == TablesIndInv /\ CompareInv

LEMMA FilesDiffer ==
  ~IsWhole(Absent) /\ ~IsWhole(Torn) /\ Absent # Torn
BY DEF IsWhole, Absent, Torn

LEMMA NotCompared ==
  ASSUME comparison' = Absent, pc' # "compare"
  PROVE  CompareInv'
BY FilesDiffer DEF CompareInv

LEMMA SameComparison ==
  ASSUME CompareInv, UNCHANGED <<summary, comparison, candidates>>,
         \/ UNCHANGED <<pc, document>>
         \/ pc' = "idle"
  PROVE  CompareInv'
BY DEF CompareInv, IsComparison

LEMMA CompareStep ==
  ASSUME CompareIndInv, Compare
  PROVE  CompareInv'
<1>1. /\ IsWhole(summary) /\ pc' = "compare" /\ comparison' = Torn
      /\ UNCHANGED <<summary, candidates>>
  BY DEF Compare, analysis
<1>2. \A m \in Modes : tables[m].data = candidates[m]
  <2>1. TablesAreExact
    BY TablesIndImplies DEF CompareIndInv
  <2>2. \A m \in Modes : tables[m] = Whole(candidates[m])
    BY <1>1, <2>1 DEF TablesAreExact
  <2>3. \A data : Whole(data).data = data
    BY DEF Whole
  <2> QED BY <2>2, <2>3
<1>3. IsComparison(document)'
  <2>1. PICK trace \in Traces, frames \in Binaries :
          LET dynamic == Observed(frames, trace)
              modes == [m \in Modes |-> compare_pairs(tables[m].data, dynamic)]
          IN document' = Whole([trace |-> trace, frames |-> frames, modes |-> modes,
                                removed |-> Removed(modes)])
    BY DEF Compare
  <2>2. [m \in Modes |-> compare_pairs(tables[m].data, Observed(frames, trace))]
          = [m \in Modes |-> compare_pairs(candidates[m], Observed(frames, trace))]
    BY <1>2
  <2>3. document' = Comparison(trace, frames, candidates)
    BY <2>1, <2>2 DEF Comparison
  <2> QED BY <1>1, <2>3 DEF IsComparison
<1> QED BY <1>1, <1>3, FilesDiffer DEF CompareInv

LEMMA WriteComparisonStep ==
  ASSUME CompareIndInv, WriteComparison
  PROVE  CompareInv'
<1>1. /\ pc = "compare" /\ pc' = "idle" /\ comparison' = document
      /\ UNCHANGED <<summary, candidates>>
  BY DEF WriteComparison, End
<1>2. IsComparison(document) /\ IsWhole(summary)
  BY <1>1, FilesDiffer DEF CompareIndInv, CompareInv
<1> QED BY <1>1, <1>2 DEF CompareInv, IsComparison

LEMMA InitCompare == Init => CompareIndInv
<1>1. Init => CompareInv
  BY FilesDiffer DEF Init, CompareInv
<1> QED BY <1>1, InitTables DEF CompareIndInv

LEMMA NextCompare == CompareIndInv /\ [Next]_vars => CompareIndInv'
<1> SUFFICES ASSUME CompareIndInv, [Next]_vars PROVE CompareInv'
  BY NextTables DEF CompareIndInv
<1>1. ~exists => comparison = Absent
  BY FilesDiffer DEF CompareIndInv, CompareInv, TablesIndInv, ControlInv
<1>2. CASE AddEntry \/ AddArgument \/ Start
  <2>1. comparison' = Absent /\ pc' # "compare"
    BY <1>1, <1>2 DEF AddEntry, AddArgument, Start, results
  <2> QED BY <2>1, NotCompared
<1>3. CASE Compile \/ WriteManifest \/ RunAnalyzer \/ ParseLog \/ WriteTable \/ OpenSummary \/ WriteSummary
  <2>1. pc \notin {"idle", "compare"} /\ comparison' = comparison /\ pc' # "compare"
    BY <1>3 DEF Compile, WriteManifest, RunAnalyzer, ParseLog, WriteTable, OpenSummary,
                WriteSummary, End, results
  <2> QED BY <2>1, NotCompared DEF CompareIndInv, CompareInv
<1>4. CASE Stop
  <2>1. pc' = "idle" /\ UNCHANGED <<summary, comparison, candidates>>
    BY <1>4 DEF Stop, End
  <2> QED BY <2>1, SameComparison DEF CompareIndInv
<1>5. CASE UNCHANGED vars
  <2>1. UNCHANGED <<summary, comparison, candidates, pc, document>>
    BY <1>5 DEF vars
  <2> QED BY <2>1, SameComparison DEF CompareIndInv
<1> QED BY <1>2, <1>3, <1>4, <1>5, CompareStep, WriteComparisonStep DEF Next, Analyze

-----------------------------------------------------------------------------
(* An edge holds the calls that share its source.                          *)
LEMMA EdgeOfCall ==
  ASSUME NEW trace, NEW frames, NEW call \in Internal(trace)
  PROVE  /\ \E e \in Observed(frames, trace) :
              e.source = Attributed(frames, call) /\ call \in e.runtime_pairs
         /\ \A e \in Observed(frames, trace) :
              call \in e.runtime_pairs => e.source = Attributed(frames, call)
<1> DEFINE key(c) == EdgeKey(frames, c)
           members(k) == {c \in Internal(trace) : key(c) = k}
           edge(k) == [source |-> k.source, runtime_pairs |-> members(k),
                       trace_events |-> Events(trace, members(k))]
<1>1. Observed(frames, trace) = {edge(k) : k \in {key(c) : c \in Internal(trace)}}
  BY DEF Observed
<1>2. key(call).source = Attributed(frames, call)
  BY DEF EdgeKey
<1>3. \A k : edge(k).source = k.source /\ edge(k).runtime_pairs = members(k)
  OBVIOUS
<1>4. \A k : call \in members(k) <=> k = key(call)
  OBVIOUS
<1> HIDE DEF key, members, edge
<1>5. edge(key(call)) \in Observed(frames, trace)
  BY <1>1
<1>6. edge(key(call)).source = Attributed(frames, call) /\ call \in edge(key(call)).runtime_pairs
  BY <1>2, <1>3, <1>4
<1>7. ASSUME NEW e \in Observed(frames, trace), call \in e.runtime_pairs
      PROVE  e.source = Attributed(frames, call)
  <2>1. PICK k : e = edge(k)
    BY <1>1
  <2> QED BY <1>2, <1>3, <1>4, <1>7, <2>1
<1> QED BY <1>5, <1>6, <1>7

(* What compare_pairs says of the edges of one source.                     *)
LEMMA ComparedCall ==
  ASSUME NEW static, NEW trace, NEW frames, NEW call \in Internal(trace),
         Resolved(Attributed(frames, call))
  PROVE  LET source == Attributed(frames, call)
             found == {p \in static : Matches(source, p)}
             r == compare_pairs(static, Observed(frames, trace))
         IN /\ {c.sites : c \in {d \in r.covered : call \in d.edge.runtime_pairs}} =
                 IF found # {} THEN {SitesOf(found)} ELSE {}
            /\ (\E e \in r.missing : call \in e.runtime_pairs) <=> found = {}
            /\ \A e \in r.missing : call \in e.runtime_pairs => e.source = source
            /\ (\E c \in r.covered : c.edge.source = source) <=> found # {}
<1> DEFINE source == Attributed(frames, call)
           dynamic == Observed(frames, trace)
           matching(e) == {p \in static : Matches(e.source, p)}
           found == {p \in static : Matches(source, p)}
           resolved == {e \in dynamic : Resolved(e.source)}
           line(e) == [edge |-> e, sites |-> SitesOf(matching(e))]
           r == compare_pairs(static, dynamic)
<1>1. /\ r.covered = {line(e) : e \in {d \in resolved : matching(d) # {}}}
      /\ r.missing = {e \in resolved : matching(e) = {}}
  BY DEF compare_pairs
<1>2. \A e : line(e).edge = e /\ line(e).sites = SitesOf(matching(e))
  OBVIOUS
<1>3. PICK own \in dynamic : own.source = source /\ call \in own.runtime_pairs
  BY EdgeOfCall
<1>4. \A e \in dynamic : call \in e.runtime_pairs => e.source = source
  BY EdgeOfCall
<1>5. \A e : e.source = source => matching(e) = found
  OBVIOUS
<1>6. own \in resolved
  BY <1>3
<1> HIDE DEF source, dynamic, matching, found, line, r
<1>7. {c.sites : c \in {d \in r.covered : call \in d.edge.runtime_pairs}} =
        IF found # {} THEN {SitesOf(found)} ELSE {}
  <2>1. \A c \in r.covered : call \in c.edge.runtime_pairs => c.sites = SitesOf(found) /\ found # {}
    BY <1>1, <1>2, <1>4, <1>5
  <2>2. ASSUME found # {}
        PROVE  \E c \in r.covered : call \in c.edge.runtime_pairs /\ c.sites = SitesOf(found)
    <3>1. line(own) \in r.covered
      BY <1>1, <1>3, <1>5, <1>6, <2>2
    <3> QED BY <1>2, <1>3, <1>5, <3>1
  <2> QED BY <2>1, <2>2
<1>8. (\E e \in r.missing : call \in e.runtime_pairs) <=> found = {}
  BY <1>1, <1>3, <1>4, <1>5, <1>6
<1>9. \A e \in r.missing : call \in e.runtime_pairs => e.source = source
  BY <1>1, <1>4
<1>10. (\E c \in r.covered : c.edge.source = source) <=> found # {}
  <2>1. ASSUME found # {} PROVE line(own) \in r.covered
    BY <1>1, <1>3, <1>5, <1>6, <2>1
  <2> QED BY <1>1, <1>2, <1>3, <1>5, <2>1
<1> QED BY <1>7, <1>8, <1>9, <1>10 DEF source, dynamic, found, r

(* With true debug information the match is with the call site that made   *)
(* the call and the functions that may be its target.                      *)
LEMMA MatchIsCandidate ==
  ASSUME NEW trace \in Traces, NEW frames \in Binaries, NEW call \in Internal(trace),
         Resolved(Attributed(frames, call)),
         NEW p \in (DOMAIN Site) \X (DOMAIN Function)
  PROVE  Matches(Attributed(frames, call), p) <=>
           Site[p[1]] = Site[CallSite[call[1][2]]] /\ p[2] \in MayCall(frames, call)
<1> DEFINE c == call[1][2]
           t == call[2][2]
           at == Head(frames[c])
           to == Last(frames[t])
           edge == Attributed(frames, call)
           f == p[2]
<1>1. /\ edge.file = at.file /\ edge.line = at.line
      /\ edge.function = to.function /\ edge.callee_file = to.file
  BY DEF Attributed
<1>2. at.file # "" /\ at.line # 0 /\ to.function # "??"
  BY <1>1 DEF Resolved
<1>3. c \in DOMAIN CallSite /\ t \in DOMAIN Entry
  BY TracesAssumption
<1>4. Site[CallSite[c]] = <<at.file, at.line>>
  BY <1>2, <1>3, FramesAssumption
<1>5. /\ Entry[t] # {}
      /\ \A e \in Entry[t] : /\ e \in DOMAIN Function /\ Function[e].name = to.function
                             /\ to.file = "" \/ Function[e].file \in {"", to.file}
      /\ \A e \in DOMAIN Function :
           (Function[e].name = to.function /\ to.file # "" /\ Function[e].file = to.file)
             => e \in Entry[t]
  <2> DEFINE named == {e \in DOMAIN Function : Function[e].name = to.function}
  <2>1. (to.function # "??") =>
           /\ Entry[t] # {} /\ Entry[t] \subseteq named
           /\ \A e \in Entry[t] : to.file = "" \/ Function[e].file \in {"", to.file}
           /\ \A e \in named : (to.file # "" /\ Function[e].file = to.file) => e \in Entry[t]
    BY <1>3, FramesAssumption
  <2> HIDE DEF t, to
  <2> QED BY <1>2, <2>1
<1>6. f \in DOMAIN Function
  OBVIOUS
<1>7. f \in MayCall(frames, call) <=>
        \/ f \in Entry[t]
        \/ /\ \E e \in Entry[t] : Function[e].name = Function[f].name
           /\ to.file = "" \/ Function[f].file = ""
  BY <1>6 DEF MayCall
<1>8. Matches(edge, p) <=>
        /\ Site[p[1]] = <<at.file, at.line>>
        /\ Function[f].name = to.function
        /\ to.file = "" \/ Function[f].file = "" \/ to.file = Function[f].file
  BY <1>1 DEF Matches
<1> HIDE DEF c, t, at, to, edge, f
<1>9. f \in MayCall(frames, call) <=>
        /\ Function[f].name = to.function
        /\ to.file = "" \/ Function[f].file = "" \/ to.file = Function[f].file
  BY <1>5, <1>6, <1>7
<1> QED BY <1>4, <1>8, <1>9 DEF c, edge, f

(* Whatever the analyzer finds and the tests have called, wherever analyze *)
(* and compare were stopped: with true debug information a comparison that *)
(* can be read lists, for each call, the candidates of that call, and as   *)
(* removed by MLTA those that only another mode has.                       *)
THEOREM ComparisonIsOfTheCalls == Spec => []CandidatesAreFound
<1>1. ASSUME CompareIndInv PROVE CandidatesAreFound
  <2> SUFFICES ASSUME IsWhole(comparison) PROVE CandidatesAreFound
    BY DEF CandidatesAreFound
  <2>1. PICK trace \in Traces, frames \in Binaries : comparison = Comparison(trace, frames, candidates)
    BY <1>1 DEF CompareIndInv, CompareInv, IsComparison
  <2> DEFINE dynamic == Observed(frames, trace)
             modes == [m \in Modes |-> compare_pairs(candidates[m], dynamic)]
  <2>2. /\ comparison.data.trace = trace /\ comparison.data.frames = frames
        /\ comparison.data.modes = modes /\ comparison.data.removed = Removed(modes)
    BY <2>1 DEF Comparison, Whole
  <2> SUFFICES ASSUME NEW call \in Internal(trace), Resolved(Attributed(frames, call))
               PROVE  /\ \A m \in Modes :
                           {c.sites : c \in {d \in modes[m].covered : call \in d.edge.runtime_pairs}} =
                             IF CandidatesOf(m, frames, call) # {}
                             THEN {SitesOf(CandidatesOf(m, frames, call))} ELSE {}
                      /\ (\E e \in Removed(modes) : call \in e.runtime_pairs) <=>
                           /\ ~(CandidatesOf("mlta", frames, call) # {})
                           /\ \/ CandidatesOf("flta", frames, call) # {}
                              \/ CandidatesOf("one_layer", frames, call) # {}
    BY <2>2 DEF CandidatesAreFound
  <2> DEFINE source == Attributed(frames, call)
             found(m) == {p \in candidates[m] : Matches(source, p)}
  <2>3. \A m \in Modes : found(m) = CandidatesOf(m, frames, call)
    <3> SUFFICES ASSUME NEW m \in Modes, NEW p \in candidates[m]
                 PROVE  Matches(source, p) <=>
                          Site[p[1]] = Site[CallSite[call[1][2]]] /\ p[2] \in MayCall(frames, call)
      BY DEF CandidatesOf
    <3>1. candidates[m] \subseteq (DOMAIN Site) \X (DOMAIN Function)
      BY <1>1, CandidateSetsAssumption DEF CompareIndInv, TablesIndInv, ControlInv
    <3> QED BY <3>1, MatchIsCandidate
  <2>4. \A m \in Modes :
          /\ {c.sites : c \in {d \in modes[m].covered : call \in d.edge.runtime_pairs}} =
               IF found(m) # {} THEN {SitesOf(found(m))} ELSE {}
          /\ (\E e \in modes[m].missing : call \in e.runtime_pairs) <=> found(m) = {}
          /\ \A e \in modes[m].missing : call \in e.runtime_pairs => e.source = source
          /\ (\E c \in modes[m].covered : c.edge.source = source) <=> found(m) # {}
    <3> TAKE m \in Modes
    <3>1. PICK static : static = candidates[m]
      OBVIOUS
    <3> DEFINE r == compare_pairs(static, Observed(frames, trace))
               matching == {p \in static : Matches(source, p)}
    <3>2. /\ {c.sites : c \in {d \in r.covered : call \in d.edge.runtime_pairs}} =
               IF matching # {} THEN {SitesOf(matching)} ELSE {}
          /\ (\E e \in r.missing : call \in e.runtime_pairs) <=> matching = {}
          /\ \A e \in r.missing : call \in e.runtime_pairs => e.source = source
          /\ (\E c \in r.covered : c.edge.source = source) <=> matching # {}
      BY ComparedCall
    <3>3. modes[m] = r /\ found(m) = matching
      BY <3>1
    <3> HIDE DEF modes, found, r, matching, source
    <3> QED BY <3>2, <3>3
  <2> HIDE DEF modes, found, source
  <2>5. (\E e \in Removed(modes) : call \in e.runtime_pairs) <=>
          found("mlta") = {} /\ (found("flta") # {} \/ found("one_layer") # {})
    <3> DEFINE baseline == UNION {{c.edge.source : c \in modes[m].covered} : m \in {"flta", "one_layer"}}
    <3>1. Removed(modes) = {e \in modes["mlta"].missing : e.source \in baseline}
      BY DEF Removed
    <3>2. source \in baseline <=>
            \/ \E c \in modes["flta"].covered : c.edge.source = source
            \/ \E c \in modes["one_layer"].covered : c.edge.source = source
      OBVIOUS
    <3> HIDE DEF baseline
    <3> QED BY <2>4, <3>1, <3>2, ModesAre
  <2> QED BY <2>3, <2>4, <2>5, ModesAre
<1> QED BY <1>1, InitCompare, NextCompare, PTL DEF Spec

-----------------------------------------------------------------------------
(* Types: commands are strings, and what a table holds was found.          *)
Commands == [file : {"u.c", "-u.c"}, command : Seq(STRING)]
TypesInv ==
  /\ database \in Seq(Commands)
  /\ pc \in {"parse", "table"} => candidates[ModeNames[mode]] \in CandidateSets
  /\ \A m \in Modes : tables[m] \in {Absent, Torn} \/ \E c \in CandidateSets : tables[m].data \subseteq c
  /\ pc = "table" => \E c \in CandidateSets : pairs \subseteq c

TypesIndInv == CompareIndInv /\ exists \in BOOLEAN /\ TypesInv

LEMMA AddEntryTypes ==
  ASSUME TypesIndInv, AddEntry
  PROVE  TypesInv'
<1>1. /\ pc = "idle" /\ UNCHANGED <<pc, mode, tables, candidates>>
      /\ \E file \in {"u.c", "-u.c"}, compiler \in Compilers \cup Launchers \cup {Wrapper} :
           database' = Append(database, [file |-> file, command |-> <<compiler>>])
  BY DEF AddEntry, analysis
<1>2. Compilers \cup Launchers \cup {Wrapper} \subseteq STRING
  BY WordsAssumption DEF Words
<1>3. PICK file \in {"u.c", "-u.c"}, compiler \in STRING :
        database' = Append(database, [file |-> file, command |-> <<compiler>>])
  BY <1>1, <1>2
<1>4. [file |-> file, command |-> <<compiler>>] \in Commands
  BY DEF Commands
<1>5. database' \in Seq(Commands)
  BY <1>3, <1>4, AppendProperties DEF TypesIndInv, TypesInv
<1> QED BY <1>1, <1>5 DEF TypesIndInv, TypesInv

LEMMA AddArgumentTypes ==
  ASSUME TypesIndInv, AddArgument
  PROVE  TypesInv'
<1>1. /\ pc = "idle" /\ database # << >> /\ UNCHANGED <<pc, mode, tables, candidates>>
      /\ \E a \in Arguments :
           database' = [database EXCEPT ![Len(database)].command = Append(@, a)]
  BY DEF AddArgument, analysis
<1>2. PICK a \in STRING :
        database' = [database EXCEPT ![Len(database)].command = Append(@, a)]
  BY <1>1, WordsAssumption DEF Words
<1>3. PICK n : n = Len(database)
  OBVIOUS
<1>4. database \in Seq(Commands) /\ n \in 1 .. Len(database) /\ database[n] \in Commands
  <2>1. database \in Seq(Commands)
    BY DEF TypesIndInv, TypesInv
  <2>2. Len(database) \in Nat \ {0}
    BY <1>1, <2>1, EmptySeq
  <2>3. n \in 1 .. Len(database)
    BY <1>3, <2>2
  <2> QED BY <2>1, <2>3, ElementOfSeq
<1>5. PICK entry : entry = [database[n] EXCEPT !.command = Append(@, a)]
  OBVIOUS
<1>6. entry \in Commands
  <2>1. Append(database[n].command, a) \in Seq(STRING)
    BY <1>4, AppendProperties DEF Commands
  <2> QED BY <1>4, <1>5, <2>1 DEF Commands
<1>7. database' = [database EXCEPT ![n] = entry]
  BY <1>2, <1>3, <1>5
<1>8. database' \in Seq(Commands)
  BY <1>4, <1>6, <1>7, ExceptSeq
<1> QED BY <1>1, <1>8 DEF TypesIndInv, TypesInv

(* Steps that leave tables and candidates alone.                           *)
LEMMA QuietTypes ==
  ASSUME TypesIndInv, UNCHANGED <<mode, tables, candidates>>,
         database' \in {database, << >>},
         UNCHANGED <<pc, pairs>> \/ pc' \notin {"parse", "table"}
  PROVE  TypesInv'
<1>1. database' \in Seq(Commands)
  BY EmptySeq DEF TypesIndInv, TypesInv
<1> QED BY <1>1 DEF TypesIndInv, TypesInv

LEMMA AnalysisTypes ==
  ASSUME TypesIndInv, RunAnalyzer \/ ParseLog \/ WriteTable
  PROVE  TypesInv'
<1> DEFINE current == ModeNames[mode]
<1>1. /\ current \in Modes /\ DOMAIN tables = Modes
      /\ candidates \in [Modes -> SUBSET UNION CandidateSets]
  BY ModesAre DEF TypesIndInv, CompareIndInv, TablesIndInv, ControlInv
<1>2. database' = database
  BY DEF RunAnalyzer, ParseLog, WriteTable
<1>3. CASE RunAnalyzer
  <2>1. PICK all \in CandidateSets : candidates' = [candidates EXCEPT ![current] = all]
    BY <1>3 DEF RunAnalyzer
  <2>2. candidates'[current] \in CandidateSets
    BY <1>1, <2>1
  <2>3. pc' = "parse" /\ UNCHANGED <<mode, tables>>
    BY <1>3 DEF RunAnalyzer
  <2>4. candidates'[ModeNames[mode']] \in CandidateSets
    BY <2>2, <2>3
  <2> QED BY <1>2, <2>3, <2>4 DEF TypesIndInv, TypesInv
<1>4. CASE ParseLog
  <2>1. /\ pc = "parse" /\ pc' = "table" /\ UNCHANGED <<mode, candidates>>
        /\ tables' = [tables EXCEPT ![current] = Torn]
    BY <1>4 DEF ParseLog
  <2>2. candidates'[ModeNames[mode']] \in CandidateSets
    BY <2>1 DEF TypesIndInv, TypesInv
  <2>3. pairs' = candidates'[ModeNames[mode']]
    BY <1>4, <2>1, ParseLogStep DEF TypesIndInv, CompareIndInv, TablesIndInv, PairsInv
  <2>4. \A m \in Modes : tables'[m] = Torn \/ tables'[m] = tables[m]
    BY <1>1, <2>1
  <2>5. pairs' \subseteq candidates'[ModeNames[mode']]
    BY <2>3
  <2> QED BY <1>2, <2>1, <2>2, <2>4, <2>5 DEF TypesIndInv, TypesInv
<1>5. CASE WriteTable
  <2>1. /\ pc = "table" /\ pc' \notin {"parse", "table"} /\ UNCHANGED candidates
        /\ tables' = [tables EXCEPT ![current] = Whole(pairs)]
    BY <1>5 DEF WriteTable
  <2>2. PICK c \in CandidateSets : pairs \subseteq c
    BY <2>1 DEF TypesIndInv, TypesInv
  <2>3. ASSUME NEW m \in Modes
        PROVE  tables'[m] \in {Absent, Torn} \/ \E d \in CandidateSets : tables'[m].data \subseteq d
    <3>1. CASE m = current
      <4>1. tables'[m] = Whole(pairs)
        BY <1>1, <2>1, <3>1
      <4>2. tables'[m].data \subseteq c
        BY <2>2, <4>1 DEF Whole
      <4> QED BY <4>2
    <3>2. CASE m # current
      <4>1. tables'[m] = tables[m]
        BY <1>1, <2>1, <3>2
      <4> QED BY <4>1 DEF TypesIndInv, TypesInv
    <3> QED BY <3>1, <3>2
  <2> QED BY <1>2, <2>1, <2>3 DEF TypesIndInv, TypesInv
<1> QED BY <1>3, <1>4, <1>5

LEMMA NextTypes == TypesIndInv /\ [Next]_vars => TypesIndInv'
<1> SUFFICES ASSUME TypesIndInv, [Next]_vars PROVE exists' \in BOOLEAN /\ TypesInv'
  BY NextCompare DEF TypesIndInv
<1> SUFFICES TypesInv'
  <2>1. exists' = exists \/ exists' = TRUE
    BY DEF Next, Analyze, AddEntry, AddArgument, Start, Compile, WriteManifest, RunAnalyzer,
           ParseLog, WriteTable, OpenSummary, WriteSummary, Compare, WriteComparison, Stop, vars
  <2> QED BY <2>1 DEF TypesIndInv
<1>1. CASE Start
  BY <1>1, QuietTypes DEF Start, analysis
<1>2. CASE Compile
  BY <1>2, QuietTypes DEF Compile, analysis
<1>3. CASE WriteManifest
  BY <1>3, QuietTypes DEF WriteManifest, analysis
<1>4. CASE OpenSummary
  BY <1>4, QuietTypes DEF OpenSummary, analysis
<1>5. CASE WriteSummary
  BY <1>5, QuietTypes DEF WriteSummary, End
<1>6. CASE Compare
  BY <1>6, QuietTypes DEF Compare, analysis
<1>7. CASE WriteComparison
  BY <1>7, QuietTypes DEF WriteComparison, End
<1>8. CASE Stop
  BY <1>8, QuietTypes DEF Stop, End
<1>9. CASE UNCHANGED vars
  BY <1>9, QuietTypes DEF vars
<1> QED
  BY <1>1, <1>2, <1>3, <1>4, <1>5, <1>6, <1>7, <1>8, <1>9, AddEntryTypes, AddArgumentTypes,
     AnalysisTypes DEF Next, Analyze

THEOREM TypeCorrect == Spec => []TypeOK
<1>1. Init => TypesIndInv
  <2> SUFFICES ASSUME Init PROVE TypesInv
    BY InitCompare DEF TypesIndInv, Init
  <2>1. database \in Seq(Commands)
    BY EmptySeq DEF Init
  <2>2. \A m \in Modes : tables[m] = Absent
    BY DEF Init
  <2> QED BY <2>1, <2>2 DEF Init, TypesInv
<1>2. ASSUME TypesIndInv PROVE TypeOK
  <2>1. /\ pc \in {"idle", "compile", "analyze", "parse", "table", "summary", "compare"}
        /\ mode \in DOMAIN ModeNames
    <3>1. DOMAIN ModeNames = 1 .. 3
      BY DEF ModeNames
    <3> QED BY <1>2, <3>1 DEF TypesIndInv, CompareIndInv, TablesIndInv, ControlInv, Working
  <2>2. exists \in BOOLEAN
    BY <1>2 DEF TypesIndInv
  <2>3. \A i \in DOMAIN database : database[i].command \in Seq(STRING)
    <3> TAKE i \in DOMAIN database
    <3>1. database[i] \in Commands
      BY <1>2, ElementOfSeq, LenProperties DEF TypesIndInv, TypesInv
    <3> QED BY <3>1 DEF Commands
  <2>4. summary \in {Absent, Torn} \/ summary.data \in [Modes -> Nat]
    <3> SUFFICES ASSUME summary \notin {Absent, Torn} PROVE summary.data \in [Modes -> Nat]
      OBVIOUS
    <3>1. summary = Whole([m \in Modes |-> Cardinality(tables[m].data)])
      BY <1>2 DEF TypesIndInv, CompareIndInv, TablesIndInv, SummaryInv
    <3>2. IsWhole(summary)
      BY <3>1 DEF IsWhole, Whole
    <3>3. ASSUME NEW m \in Modes PROVE Cardinality(tables[m].data) \in Nat
      <4>1. tables[m].data = candidates[m]
        <5>1. TablesAreExact
          BY <1>2, TablesIndImplies DEF TypesIndInv, CompareIndInv
        <5>2. tables[m] = Whole(candidates[m])
          BY <3>2, <5>1 DEF TablesAreExact
        <5> QED BY <5>2 DEF Whole
      <4>2. IsFiniteSet(candidates[m])
        BY <1>2 DEF TypesIndInv, CompareIndInv, TablesIndInv, ControlInv
      <4> QED BY <4>1, <4>2, FS_CardinalityType
    <3>4. summary.data = [m \in Modes |-> Cardinality(tables[m].data)]
      BY <3>1 DEF Whole
    <3> QED BY <3>3, <3>4
  <2>5. /\ ~exists => (pc = "idle" /\ summary = Absent /\ comparison = Absent)
        /\ (comparison # Absent) => IsWhole(summary)
    BY <1>2, FilesDiffer DEF TypesIndInv, CompareIndInv, CompareInv, TablesIndInv, ControlInv
  <2>6. \A m \in Modes : tables[m] \in {Absent, Torn} \/ \E c \in CandidateSets : tables[m].data \subseteq c
    BY <1>2 DEF TypesIndInv, TypesInv
  <2> QED BY <2>1, <2>2, <2>3, <2>4, <2>5, <2>6 DEF TypeOK
<1> QED BY <1>1, <1>2, NextTypes, PTL DEF Spec

-----------------------------------------------------------------------------
(* The edges of a trace are finitely many, and a call is in one of them.   *)
LEMMA EdgesAreFew ==
  ASSUME NEW trace, IsFiniteSet(DOMAIN trace), NEW frames
  PROVE  /\ IsFiniteSet(Observed(frames, trace))
         /\ \A call \in Internal(trace) :
              Cardinality({e \in Observed(frames, trace) : call \in e.runtime_pairs}) = 1
         /\ \A e \in Observed(frames, trace) :
              ~Resolved(e.source) => Cardinality(e.runtime_pairs) = 1
<1> DEFINE calls == Internal(trace)
           key(c) == EdgeKey(frames, c)
           members(k) == {c \in calls : key(c) = k}
           edge(k) == [source |-> k.source, runtime_pairs |-> members(k),
                       trace_events |-> Events(trace, members(k))]
           edges == Observed(frames, trace)
<1>1. edges = {edge(k) : k \in {key(c) : c \in calls}}
  BY DEF Observed
<1>2. \A k : edge(k).source = k.source /\ edge(k).runtime_pairs = members(k)
  OBVIOUS
<1>3. \A k : \A c \in calls : c \in members(k) <=> k = key(c)
  OBVIOUS
<1>4. \A c \in calls : ~Resolved(key(c).source) => key(c).only = {c}
  BY DEF EdgeKey
<1>5. IsFiniteSet(calls)
  <2>1. calls \in SUBSET (DOMAIN trace)
    BY DEF Internal
  <2> QED BY <2>1, FS_Subset
<1> HIDE DEF edges, calls, edge, key
<1>6. IsFiniteSet(edges)
  <2> DEFINE f == [c \in calls |-> edge(key(c))]
  <2>1. f \in [calls -> edges] /\ \A e \in edges : \E c \in calls : f[c] = e
    BY <1>1
  <2>2. f \in Surjection(calls, edges)
    BY <2>1 DEF Surjection
  <2> HIDE DEF f
  <2> QED BY <1>5, <2>2, FS_Surjection
<1>7. ASSUME NEW c \in calls
      PROVE  Cardinality({e \in edges : c \in e.runtime_pairs}) = 1
  <2>1. edge(key(c)) \in edges
    BY <1>1
  <2>2. \A e \in edges : c \in e.runtime_pairs <=> e = edge(key(c))
    <3> TAKE e \in edges
    <3>1. PICK k : e = edge(k) /\ \E b \in calls : k = key(b)
      BY <1>1
    <3>2. e.runtime_pairs = members(k) /\ edge(key(c)).runtime_pairs = members(key(c))
      BY <1>2, <3>1
    <3> HIDE DEF members
    <3> QED BY <1>3, <3>1, <3>2
  <2>3. {e \in edges : c \in e.runtime_pairs} = {edge(key(c))}
    BY <2>1, <2>2
  <2> QED BY <2>3, FS_Singleton
<1>8. ASSUME NEW e \in edges, ~Resolved(e.source)
      PROVE  Cardinality(e.runtime_pairs) = 1
  <2>1. PICK c \in calls : e = edge(key(c))
    BY <1>1
  <2>2. e.source = key(c).source /\ e.runtime_pairs = members(key(c))
    BY <1>2, <2>1
  <2>3. members(key(c)) = {c}
    <3>1. key(c).only = {c}
      BY <1>4, <1>8, <2>2
    <3>2. ASSUME NEW b \in calls, key(b) = key(c) PROVE b = c
      <4>1. key(b).only = {b}
        BY <1>4, <1>8, <2>2, <3>2
      <4> QED BY <3>1, <3>2, <4>1
    <3> QED BY <3>2
  <2> QED BY <2>2, <2>3, FS_Singleton
<1> QED BY <1>6, <1>7, <1>8 DEF edges, calls

(* compare_pairs tells the edges apart and loses none.                     *)
LEMMA EdgesAreSplit ==
  ASSUME NEW static, NEW edges, IsFiniteSet(edges)
  PROVE  LET r == compare_pairs(static, edges)
         IN /\ EdgesOf(r) = edges
            /\ r.unresolved = {e \in edges : ~Resolved(e.source)}
            /\ Cardinality(r.covered) + Cardinality(r.missing) + Cardinality(r.unresolved)
                 = Cardinality(edges)
<1> DEFINE matching(e) == {p \in static : Matches(e.source, p)}
           resolved == {e \in edges : Resolved(e.source)}
           line(e) == [edge |-> e, sites |-> SitesOf(matching(e))]
           with == {e \in resolved : matching(e) # {}}
           without == {e \in resolved : matching(e) = {}}
           unknown == {e \in edges : ~Resolved(e.source)}
           r == compare_pairs(static, edges)
<1>1. /\ r.covered = {line(e) : e \in with} /\ r.missing = without
      /\ r.unresolved = unknown
  BY DEF compare_pairs
<1>2. \A e : line(e).edge = e
  OBVIOUS
<1>3. /\ edges = with \cup without \cup unknown
      /\ with \cap without = {} /\ (with \cup without) \cap unknown = {}
      /\ with \in SUBSET edges /\ without \in SUBSET edges /\ unknown \in SUBSET edges
  OBVIOUS
<1> HIDE DEF with, without, unknown, r, line
<1>4. IsFiniteSet(with) /\ IsFiniteSet(without) /\ IsFiniteSet(unknown)
  BY <1>3, FS_Subset
<1>5. Cardinality(r.covered) = Cardinality(with)
  <2> DEFINE lines == {line(e) : e \in with}
             f == [e \in with |-> line(e)]
  <2>1. f \in [with -> lines] /\ \A l \in lines : \E e \in with : f[e] = l
    OBVIOUS
  <2>2. \A a, b \in with : f[a] = f[b] => a = b
    BY <1>2
  <2>3. f \in Bijection(with, lines)
    BY <2>1, <2>2 DEF Bijection, Injection, Surjection, IsInjective
  <2>4. ExistsBijection(with, lines)
    BY <2>3 DEF ExistsBijection
  <2>5. Cardinality(lines) = Cardinality(with)
    BY <1>4, <2>4, FS_Bijection
  <2> QED BY <1>1, <2>5
<1>6. Cardinality(edges) = Cardinality(with) + Cardinality(without) + Cardinality(unknown)
  <2>1. /\ IsFiniteSet(with \cup without)
        /\ Cardinality(with \cup without) =
             Cardinality(with) + Cardinality(without) - Cardinality(with \cap without)
    BY <1>4, FS_Union
  <2>2. Cardinality((with \cup without) \cup unknown) =
          Cardinality(with \cup without) + Cardinality(unknown)
            - Cardinality((with \cup without) \cap unknown)
    BY <1>4, <2>1, FS_Union
  <2>3. /\ Cardinality(with) \in Nat /\ Cardinality(without) \in Nat
        /\ Cardinality(unknown) \in Nat /\ Cardinality(with \cup without) \in Nat
    BY <1>4, <2>1, FS_CardinalityType
  <2>4. Cardinality(with \cap without) = 0 /\ Cardinality((with \cup without) \cap unknown) = 0
    BY <1>3, FS_EmptySet
  <2> QED BY <1>3, <2>1, <2>2, <2>3, <2>4
<1>7. EdgesOf(r) = edges
  <2>1. {c.edge : c \in r.covered} = with
    BY <1>1, <1>2
  <2> QED BY <1>1, <1>3, <2>1 DEF EdgesOf
<1> QED BY <1>1, <1>5, <1>6, <1>7 DEF r, unknown

(* No call is lost from a comparison or counted in two edges.              *)
THEOREM NoCallIsLost == Spec => []EveryCallInOneEdge
<1>1. ASSUME CompareIndInv PROVE EveryCallInOneEdge
  <2> SUFFICES ASSUME IsWhole(comparison), NEW m \in Modes
               PROVE  LET r == comparison.data.modes[m] IN
                      /\ \A call \in Internal(comparison.data.trace) :
                           Cardinality({e \in EdgesOf(r) : call \in e.runtime_pairs}) = 1
                      /\ Cardinality(r.covered) + Cardinality(r.missing) + Cardinality(r.unresolved)
                           = Cardinality(EdgesOf(r))
                      /\ \A e \in r.unresolved : Cardinality(e.runtime_pairs) = 1
    BY DEF EveryCallInOneEdge
  <2>1. PICK trace \in Traces, frames \in Binaries : comparison = Comparison(trace, frames, candidates)
    BY <1>1 DEF CompareIndInv, CompareInv, IsComparison
  <2>2. PICK edges : edges = Observed(frames, trace)
    OBVIOUS
  <2>3. PICK r : r = compare_pairs(candidates[m], edges)
    OBVIOUS
  <2>4. comparison.data.trace = trace /\ comparison.data.modes[m] = r
    BY <2>1, <2>2, <2>3 DEF Comparison, Whole
  <2>5. IsFiniteSet(DOMAIN trace)
    BY TracesAssumption
  <2>6. /\ IsFiniteSet(edges)
        /\ \A call \in Internal(trace) : Cardinality({e \in edges : call \in e.runtime_pairs}) = 1
        /\ \A e \in edges : ~Resolved(e.source) => Cardinality(e.runtime_pairs) = 1
    BY <2>2, <2>5, EdgesAreFew
  <2>7. /\ EdgesOf(r) = edges /\ r.unresolved = {e \in edges : ~Resolved(e.source)}
        /\ Cardinality(r.covered) + Cardinality(r.missing) + Cardinality(r.unresolved)
             = Cardinality(edges)
    <3>1. PICK static : static = candidates[m]
      OBVIOUS
    <3> QED BY <2>3, <2>6, <3>1, EdgesAreSplit
  <2> QED BY <2>4, <2>6, <2>7
<1> QED BY <1>1, InitCompare, NextCompare, PTL DEF Spec

-----------------------------------------------------------------------------
(* Induction over the naturals, for a set of them: the least number that   *)
(* is not in P would have a predecessor.                                   *)
LEMMA Counting ==
  ASSUME NEW P, 0 \in P, \A n \in Nat : n \in P => n + 1 \in P
  PROVE  Nat \subseteq P
<1> SUFFICES ASSUME NEW k \in Nat, k \notin P PROVE FALSE
  OBVIOUS
<1> DEFINE below == {1 .. n : n \in Nat \ P}
<1>1. below \subseteq FiniteSubsetsOf(Nat) /\ below # {}
  <2>1. ASSUME NEW n \in Nat PROVE 1 .. n \in FiniteSubsetsOf(Nat)
    <3>1. IsFiniteSet(1 .. n) /\ 1 .. n \subseteq Nat
      BY FS_Interval
    <3> QED BY <3>1 DEF FiniteSubsetsOf
  <2> QED BY <2>1
<1>2. IsWellFoundedOn(StrictSubsetOrdering(Nat), FiniteSubsetsOf(Nat))
  BY FS_StrictSubsetOrderingWellFounded
<1> HIDE DEF below
<1>3. PICK least \in below : \A t \in below : ~(<<t, least>> \in StrictSubsetOrdering(Nat))
  BY <1>1, <1>2, WFMin
<1>4. PICK n \in Nat \ P : least = 1 .. n
  BY <1>3 DEF below
<1>5. n - 1 \in Nat \ P
  BY <1>4
<1>6. /\ 1 .. n - 1 \subseteq 1 .. n /\ 1 .. n \subseteq Nat
      /\ n \in 1 .. n /\ n \notin 1 .. n - 1
  BY <1>4, <1>5
<1>7. 1 .. n - 1 \in below
  BY <1>5 DEF below
<1>8. <<1 .. n - 1, 1 .. n>> \in StrictSubsetOrdering(Nat)
  BY <1>6 DEF StrictSubsetOrdering
<1> QED BY <1>3, <1>4, <1>7, <1>8

(* Induction over the subsets of a finite set, by one element at a time.   *)
LEMMA Adding ==
  ASSUME NEW S, IsFiniteSet(S), NEW P, 
         \A T \in SUBSET S : (\A x \in T : T \ {x} \in P) => T \in P
  PROVE  SUBSET S \subseteq P
<1> DEFINE sizes == {n \in Nat : \A T \in SUBSET S : Cardinality(T) = n => T \in P}
<1>1. \A T \in SUBSET S : /\ IsFiniteSet(T) /\ Cardinality(T) \in Nat
                          /\ Cardinality(T) = 0 => T = {}
                          /\ \A x \in T : Cardinality(T \ {x}) = Cardinality(T) - 1
  BY FS_Subset, FS_CardinalityType, FS_EmptySet, FS_RemoveElement
<1>2. 0 \in sizes
  BY <1>1
<1>3. ASSUME NEW n \in Nat, n \in sizes PROVE n + 1 \in sizes
  <2> SUFFICES ASSUME NEW T \in SUBSET S, Cardinality(T) = n + 1 PROVE T \in P
    OBVIOUS
  <2>1. \A x \in T : T \ {x} \in SUBSET S /\ Cardinality(T \ {x}) = n
    BY <1>1
  <2> QED BY <1>3, <2>1
<1> HIDE DEF sizes
<1>4. Nat \subseteq sizes
  BY <1>2, <1>3, Counting
<1> QED BY <1>1, <1>4 DEF sizes

(* g is the sum of w over each subset of S, as SumFunctionOnSet makes it.   *)
Sums(w, S, g) ==
  g = [s \in SUBSET S |-> IF s = {} THEN 0 ELSE LET x == CHOOSE x \in s : TRUE IN w[x] + g[s \ {x}]]

(* What SumFunctionOnSet is, without the operators it passes on.           *)
LEMMA SumIsChosen ==
  ASSUME NEW w, NEW S
  PROVE  SumFunctionOnSet(w, S) = (CHOOSE g : Sums(w, S, g))[S]
BY DEF SumFunctionOnSet, FoldFunctionOnSet, MapThenFoldSet, Sums

(* There is such a function: from one that is right up to a size comes one *)
(* that is right for the next.                                             *)
LEMMA SumsExist ==
  ASSUME NEW S, IsFiniteSet(S), NEW w
  PROVE  \E g : Sums(w, S, g)
<1> DEFINE pick(s) == CHOOSE x \in s : TRUE
           next(g) == [s \in SUBSET S |-> IF s = {} THEN 0 ELSE w[pick(s)] + g[s \ {pick(s)}]]
           upTo(n, g) == \A s \in SUBSET S : Cardinality(s) <= n => g[s] = next(g)[s]
           known == {n \in Nat : \E g : g = [s \in SUBSET S |-> g[s]] /\ upTo(n, g)}
<1>1. \A s \in SUBSET S : /\ Cardinality(s) \in Nat /\ Cardinality(s) <= Cardinality(S)
                          /\ Cardinality(s) = 0 => s = {}
                          /\ s # {} => /\ pick(s) \in s
                                       /\ Cardinality(s \ {pick(s)}) = Cardinality(s) - 1
                          /\ s \ {pick(s)} \in SUBSET S
  BY FS_Subset, FS_CardinalityType, FS_EmptySet, FS_RemoveElement
<1>2. \A g : \A s \in SUBSET S :
        next(g)[s] = IF s = {} THEN 0 ELSE w[pick(s)] + g[s \ {pick(s)}]
  OBVIOUS
<1>3. \A g : next(g) = [s \in SUBSET S |-> next(g)[s]]
  OBVIOUS
<1> HIDE DEF pick, next
<1>4. 0 \in known
  <2>1. PICK g : g = next([s \in SUBSET S |-> 0])
    OBVIOUS
  <2>2. ASSUME NEW s \in SUBSET S, Cardinality(s) <= 0 PROVE g[s] = next(g)[s]
    <3>1. Cardinality(s) \in Nat
      BY <1>1
    <3>2. Cardinality(s) = 0
      BY <2>2, <3>1
    <3>3. s = {}
      BY <1>1, <3>2
    <3> QED BY <1>2, <2>1, <3>3
  <2>3. g = [s \in SUBSET S |-> g[s]]
    BY <1>3, <2>1
  <2> QED BY <2>2, <2>3
<1>5. ASSUME NEW n \in Nat, n \in known PROVE n + 1 \in known
  <2>1. PICK g : upTo(n, g)
    BY <1>5
  <2>2. PICK h : h = next(g)
    OBVIOUS
  <2>3. ASSUME NEW s \in SUBSET S, Cardinality(s) <= n + 1
        PROVE  h[s] = next(h)[s]
    <3>1. CASE s = {}
      BY <1>2, <2>2, <3>1
    <3>2. CASE s # {}
      <4>1. Cardinality(s \ {pick(s)}) <= n /\ s \ {pick(s)} \in SUBSET S
        BY <1>1, <2>3, <3>2
      <4>2. h[s \ {pick(s)}] = g[s \ {pick(s)}]
        BY <2>1, <2>2, <4>1
      <4> QED BY <1>2, <2>2, <3>2, <4>2
    <3> QED BY <3>1, <3>2
  <2>4. h = [s \in SUBSET S |-> h[s]]
    BY <1>3, <2>2
  <2>5. upTo(n + 1, h)
    BY <2>3
  <2> HIDE DEF upTo
  <2>6. \E f : f = [s \in SUBSET S |-> f[s]] /\ upTo(n + 1, f)
    BY <2>4, <2>5, Zenon
  <2>7. n + 1 \in Nat
    OBVIOUS
  <2> QED BY <2>6, <2>7
<1> HIDE DEF known
<1>6. Cardinality(S) \in known
  BY <1>1, <1>4, <1>5, Counting
<1>7. PICK g : g = [s \in SUBSET S |-> g[s]] /\ upTo(Cardinality(S), g)
  BY <1>6 DEF known
<1>8. \A s \in SUBSET S : g[s] = next(g)[s]
  BY <1>1, <1>7
<1>9. g = next(g)
  BY <1>3, <1>7, <1>8
<1> QED BY <1>9 DEF Sums, next, pick

(* What a sum does with one element more, whichever is taken first.        *)
LEMMA SumsAdd ==
  ASSUME NEW S, IsFiniteSet(S), NEW w, \A x \in S : w[x] \in Nat, NEW g, Sums(w, S, g)
  PROVE  /\ g[{}] = 0
         /\ \A T \in SUBSET S : g[T] \in Nat /\ \A x \in T : g[T] = w[x] + g[T \ {x}]
<1> DEFINE pick(s) == CHOOSE x \in s : TRUE
           naturals == {T \in SUBSET S : g[T] \in Nat}
           good == {T \in SUBSET S : \A x \in T : g[T] = w[x] + g[T \ {x}]}
<1>1. \A T \in SUBSET S : g[T] = IF T = {} THEN 0 ELSE w[pick(T)] + g[T \ {pick(T)}]
  BY DEF Sums
<1>2. \A T : T # {} => pick(T) \in T
  OBVIOUS
<1> HIDE DEF pick
<1>3. \A T \in SUBSET S : g[T] \in Nat
  <2>1. ASSUME NEW T \in SUBSET S, \A x \in T : T \ {x} \in naturals PROVE T \in naturals
    <3>1. CASE T = {}
      <4>1. g[T] = 0
        BY <1>1, <3>1
      <4> QED BY <4>1
    <3>2. CASE T # {}
      <4>1. pick(T) \in T /\ T \ {pick(T)} \in naturals
        BY <1>2, <2>1, <3>2
      <4>2. w[pick(T)] \in Nat /\ g[T \ {pick(T)}] \in Nat /\ g[T] = w[pick(T)] + g[T \ {pick(T)}]
        BY <1>1, <3>2, <4>1
      <4> QED BY <4>2
    <3> QED BY <3>1, <3>2
  <2> HIDE DEF naturals
  <2>2. SUBSET S \subseteq naturals
    BY <2>1, Adding
  <2> QED BY <2>2 DEF naturals
<1>4. ASSUME NEW T \in SUBSET S, \A x \in T : T \ {x} \in good, NEW x \in T
      PROVE  g[T] = w[x] + g[T \ {x}]
  <2> DEFINE c == pick(T)
  <2>1. c \in T /\ g[T] = w[c] + g[T \ {c}]
    BY <1>1, <1>2
  <2> HIDE DEF c
  <2>2. CASE x = c
    BY <2>1, <2>2
  <2>3. CASE x # c
    <3>1. T \ {c} \in good /\ T \ {x} \in good /\ x \in T \ {c} /\ c \in T \ {x}
      BY <1>4, <2>1, <2>3
    <3>2. /\ g[T \ {c}] = w[x] + g[(T \ {c}) \ {x}]
          /\ g[T \ {x}] = w[c] + g[(T \ {x}) \ {c}]
      BY <3>1
    <3>3. (T \ {c}) \ {x} = (T \ {x}) \ {c}
      OBVIOUS
    <3>4. g[(T \ {c}) \ {x}] \in Nat /\ w[x] \in Nat /\ w[c] \in Nat
      BY <1>3, <2>1
    <3>5. PICK m \in Nat : m = g[(T \ {c}) \ {x}]
      BY <3>4
    <3>6. g[T] = w[c] + (w[x] + m) /\ g[T \ {x}] = w[c] + m
      BY <2>1, <3>2, <3>3, <3>5
    <3> QED BY <3>4, <3>6
  <2> QED BY <2>2, <2>3
<1>5. ASSUME NEW T \in SUBSET S, \A x \in T : T \ {x} \in good PROVE T \in good
  BY <1>4, <1>5
<1> HIDE DEF good
<1>6. SUBSET S \subseteq good
  BY <1>5, Adding
<1>7. g[{}] = 0
  BY <1>1
<1> QED BY <1>3, <1>6, <1>7 DEF good

(* The same of SumFunctionOnSet, for every part of a finite set.           *)
LEMMA SumOf ==
  ASSUME NEW S, IsFiniteSet(S), NEW w, \A x \in S : w[x] \in Nat, NEW T \in SUBSET S
  PROVE  /\ SumFunctionOnSet(w, T) \in Nat
         /\ T = {} => SumFunctionOnSet(w, T) = 0
         /\ \A x \in T : SumFunctionOnSet(w, T) = w[x] + SumFunctionOnSet(w, T \ {x})
<1> DEFINE g == CHOOSE f : Sums(w, S, f)
           same == {U \in SUBSET S : SumFunctionOnSet(w, U) = g[U]}
<1>1. Sums(w, S, g)
  BY SumsExist
<1> HIDE DEF g
<1>2. /\ g[{}] = 0
      /\ \A U \in SUBSET S : g[U] \in Nat /\ \A x \in U : g[U] = w[x] + g[U \ {x}]
  BY <1>1, SumsAdd
<1>3. ASSUME NEW U \in SUBSET S PROVE SumFunctionOnSet(w, U) = g[U]
  <2> DEFINE h == CHOOSE f : Sums(w, U, f)
             equal == {V \in SUBSET U : h[V] = g[V]}
  <2>1. IsFiniteSet(U) /\ \A x \in U : w[x] \in Nat
    BY FS_Subset
  <2>2. Sums(w, U, h)
    BY <2>1, SumsExist
  <2>3. SumFunctionOnSet(w, U) = h[U]
    BY SumIsChosen
  <2> HIDE DEF h
  <2>4. /\ h[{}] = 0
        /\ \A V \in SUBSET U : \A x \in V : h[V] = w[x] + h[V \ {x}]
    BY <2>1, <2>2, SumsAdd
  <2>5. ASSUME NEW V \in SUBSET U, \A x \in V : V \ {x} \in equal PROVE V \in equal
    <3>1. CASE V = {}
      BY <1>2, <2>4, <3>1
    <3>2. CASE V # {}
      <4>1. PICK x \in V : TRUE
        BY <3>2
      <4>2. V \ {x} \in equal /\ V \in SUBSET S
        BY <2>5
      <4> QED BY <1>2, <2>4, <4>1, <4>2
    <3> QED BY <3>1, <3>2
  <2> HIDE DEF equal
  <2>6. SUBSET U \subseteq equal
    BY <2>1, <2>5, Adding
  <2>7. U \in equal
    BY <2>6
  <2> QED BY <2>3, <2>7 DEF equal
<1>4. \A x \in T : T \ {x} \in SUBSET S
  OBVIOUS
<1> QED BY <1>2, <1>3, <1>4

(* The sum over two sets that lie apart.                                   *)
LEMMA SumOfUnion ==
  ASSUME NEW S, IsFiniteSet(S), NEW w, \A x \in S : w[x] \in Nat,
         NEW A \in SUBSET S, NEW B \in SUBSET S, A \cap B = {}
  PROVE  SumFunctionOnSet(w, A \cup B) = SumFunctionOnSet(w, A) + SumFunctionOnSet(w, B)
<1> DEFINE sum(T) == SumFunctionOnSet(w, T)
           good == {T \in SUBSET A : sum(T \cup B) = sum(T) + sum(B)}
<1>1. \A T \in SUBSET S : /\ sum(T) \in Nat
                          /\ T = {} => sum(T) = 0
                          /\ \A x \in T : sum(T) = w[x] + sum(T \ {x})
  BY SumOf
<1> HIDE DEF sum
<1>2. IsFiniteSet(A)
  BY FS_Subset
<1>3. ASSUME NEW T \in SUBSET A, \A x \in T : T \ {x} \in good
      PROVE  T \in good
  <2>1. CASE T = {}
    <3>1. T \cup B = B /\ sum(T) = 0 /\ sum(B) \in Nat
      BY <1>1, <2>1
    <3> QED BY <3>1
  <2>2. CASE T # {}
    <3>1. PICK x \in T : TRUE
      BY <2>2
    <3>2. (T \cup B) \ {x} = (T \ {x}) \cup B /\ x \in T \cup B
      BY <3>1
    <3>3. /\ T \in SUBSET S /\ T \cup B \in SUBSET S
          /\ T \ {x} \in SUBSET S
      OBVIOUS
    <3>4. sum(T \cup B) = w[x] + sum((T \ {x}) \cup B) /\ sum(T) = w[x] + sum(T \ {x})
      <4>1. sum(T \cup B) = w[x] + sum((T \cup B) \ {x})
        BY <1>1, <3>2, <3>3
      <4>2. sum(T) = w[x] + sum(T \ {x})
        BY <1>1, <3>1, <3>3
      <4> QED BY <3>2, <4>1, <4>2
    <3>5. sum((T \ {x}) \cup B) = sum(T \ {x}) + sum(B)
      BY <1>3, <3>1
    <3>6. w[x] \in Nat /\ sum(T \ {x}) \in Nat /\ sum(B) \in Nat
      BY <1>1, <3>1, <3>3
    <3> QED BY <3>4, <3>5, <3>6
  <2> QED BY <2>1, <2>2
<1> HIDE DEF good
<1>4. SUBSET A \subseteq good
  BY <1>2, <1>3, Adding
<1>5. A \in good
  BY <1>4
<1> QED BY <1>5 DEF good, sum

(* The sum over parts that lie apart is the sum over all of them.          *)
LEMMA SumOfParts ==
  ASSUME NEW S, IsFiniteSet(S), NEW w, \A x \in S : w[x] \in Nat,
         NEW E, IsFiniteSet(E), NEW part, NEW v,
         \A e \in E : part[e] \in SUBSET S /\ v[e] = SumFunctionOnSet(w, part[e]),
         \A d, e \in E : d # e => part[d] \cap part[e] = {}
  PROVE  SumFunctionOnSet(v, E) = SumFunctionOnSet(w, UNION {part[e] : e \in E})
<1> DEFINE parts(D) == UNION {part[e] : e \in D}
           good == {D \in SUBSET E : SumFunctionOnSet(v, D) = SumFunctionOnSet(w, parts(D))}
<1>1. \A e \in E : v[e] \in Nat
  BY SumOf
<1>2. ASSUME NEW D \in SUBSET E, \A e \in D : D \ {e} \in good
      PROVE  D \in good
  <2>1. CASE D = {}
    <3>1. parts(D) = {} /\ {} \in SUBSET S /\ {} \in SUBSET E
      BY <2>1
    <3> HIDE DEF parts
    <3>2. SumFunctionOnSet(w, {}) = 0
      BY <3>1, SumOf
    <3>3. SumFunctionOnSet(v, {}) = 0
      BY <1>1, <3>1, SumOf
    <3> QED BY <2>1, <3>1, <3>2, <3>3
  <2>2. CASE D # {}
    <3>1. PICK e \in D : TRUE
      BY <2>2
    <3>2. parts(D) = part[e] \cup parts(D \ {e}) /\ part[e] \cap parts(D \ {e}) = {}
      BY <3>1
    <3>3. part[e] \in SUBSET S /\ parts(D \ {e}) \in SUBSET S
      BY <3>1
    <3> HIDE DEF parts
    <3>4. SumFunctionOnSet(w, parts(D)) =
            SumFunctionOnSet(w, part[e]) + SumFunctionOnSet(w, parts(D \ {e}))
      <4>1. PICK A, B : A = part[e] /\ B = parts(D \ {e})
        OBVIOUS
      <4>2. A \in SUBSET S /\ B \in SUBSET S /\ A \cap B = {} /\ parts(D) = A \cup B
        BY <3>2, <3>3, <4>1
      <4>3. SumFunctionOnSet(w, A \cup B) = SumFunctionOnSet(w, A) + SumFunctionOnSet(w, B)
        BY <4>2, SumOfUnion
      <4> QED BY <4>1, <4>2, <4>3
    <3>5. SumFunctionOnSet(v, D) = v[e] + SumFunctionOnSet(v, D \ {e})
      BY <1>1, <3>1, SumOf
    <3>6. SumFunctionOnSet(v, D \ {e}) = SumFunctionOnSet(w, parts(D \ {e}))
      BY <1>2, <3>1
    <3> QED BY <3>1, <3>4, <3>5, <3>6
  <2> QED BY <2>1, <2>2
<1> HIDE DEF good
<1>3. SUBSET E \subseteq good
  BY <1>2, Adding
<1>4. E \in good
  BY <1>3
<1> QED BY <1>4 DEF good

-----------------------------------------------------------------------------
(* The events of the edges are those of the calls.                         *)
LEMMA EdgesHoldTheEvents ==
  ASSUME NEW trace \in Traces, NEW frames
  PROVE  SumFunction([e \in Observed(frames, trace) |-> e.trace_events])
           = Events(trace, Internal(trace))
<1> DEFINE calls == Internal(trace)
           edges == Observed(frames, trace)
           members(k) == {c \in calls : EdgeKey(frames, c) = k}
           part == [e \in edges |-> e.runtime_pairs]
           events == [e \in edges |-> e.trace_events]
<1>1. IsFiniteSet(DOMAIN trace) /\ \A c \in DOMAIN trace : trace[c] \in Nat
  BY TracesAssumption
<1>2. IsFiniteSet(calls) /\ \A c \in calls : trace[c] \in Nat
  <2>1. calls \in SUBSET (DOMAIN trace)
    BY DEF Internal
  <2> QED BY <1>1, <2>1, FS_Subset
<1>3. /\ IsFiniteSet(edges)
      /\ \A c \in calls : Cardinality({e \in edges : c \in e.runtime_pairs}) = 1
  BY <1>1, EdgesAreFew
<1>4. \A e \in edges : /\ e.runtime_pairs \in SUBSET calls
                       /\ e.trace_events = Events(trace, e.runtime_pairs)
  <2> TAKE e \in edges
  <2>1. PICK k : e = [source |-> k.source, runtime_pairs |-> members(k),
                      trace_events |-> Events(trace, members(k))]
    BY DEF Observed
  <2>2. e.runtime_pairs = members(k) /\ e.trace_events = Events(trace, members(k))
    BY <2>1
  <2> QED BY <2>2
<1> HIDE DEF calls, edges
<1>5. ASSUME NEW c \in calls
      PROVE  \E e \in edges : /\ c \in e.runtime_pairs
                              /\ \A d \in edges : c \in d.runtime_pairs => d = e
  <2> DEFINE mine == {e \in edges : c \in e.runtime_pairs}
  <2>1. IsFiniteSet(mine) /\ Cardinality(mine) = 1
    BY <1>3, <1>5, FS_Subset
  <2> HIDE DEF mine
  <2>2. PICK e : mine = {e}
    BY <2>1, FS_Singleton
  <2> QED BY <2>2 DEF mine
<1>6. \A e \in edges : part[e] \in SUBSET calls /\ events[e] = SumFunctionOnSet(trace, part[e])
  BY <1>4 DEF Events
<1>7. \A d, e \in edges : d # e => part[d] \cap part[e] = {}
  BY <1>4, <1>5
<1>8. UNION {part[e] : e \in edges} = calls
  BY <1>4, <1>5
<1>9. DOMAIN events = edges
  OBVIOUS
<1> HIDE DEF part, events
<1>10. SumFunctionOnSet(events, edges) = SumFunctionOnSet(trace, UNION {part[e] : e \in edges})
  BY <1>2, <1>3, <1>6, <1>7, SumOfParts
<1>11. SumFunction(events) = Events(trace, calls)
  BY <1>8, <1>9, <1>10 DEF SumFunction, Events
<1> QED BY <1>11 DEF events, edges, calls

(* Each comparison accounts for every call of the trace between functions  *)
(* of the module, and for all its events (compare_pairs, compare).         *)
THEOREM CallsAreAccounted == Spec => []EveryCallIsAccounted
<1>1. ASSUME CompareIndInv, EveryCallInOneEdge PROVE EveryCallIsAccounted
  <2> SUFFICES ASSUME IsWhole(comparison), NEW m \in Modes
               PROVE  SumFunction([e \in EdgesOf(comparison.data.modes[m]) |-> e.trace_events]) =
                        Events(comparison.data.trace, Internal(comparison.data.trace))
    BY <1>1 DEF EveryCallIsAccounted
  <2>1. PICK trace \in Traces, frames \in Binaries : comparison = Comparison(trace, frames, candidates)
    BY <1>1 DEF CompareIndInv, CompareInv, IsComparison
  <2>2. PICK edges : edges = Observed(frames, trace)
    OBVIOUS
  <2>3. PICK r : r = compare_pairs(candidates[m], edges)
    OBVIOUS
  <2>4. comparison.data.trace = trace /\ comparison.data.modes[m] = r
    BY <2>1, <2>2, <2>3 DEF Comparison, Whole
  <2>5. EdgesOf(r) = edges
    <3>1. PICK static : static = candidates[m]
      OBVIOUS
    <3>2. IsFiniteSet(edges)
      BY <2>2, TracesAssumption, EdgesAreFew
    <3> QED BY <2>3, <3>1, <3>2, EdgesAreSplit
  <2>6. SumFunction([e \in edges |-> e.trace_events]) = Events(trace, Internal(trace))
    BY <2>2, EdgesHoldTheEvents
  <2> QED BY <2>4, <2>5, <2>6
<1> QED BY <1>1, NoCallIsLost, InitCompare, NextCompare, PTL DEF Spec

-----------------------------------------------------------------------------
(* Folds: FoldLeft, of which the provers know only its definition.         *)
(* g folds step over each subset of the positions of a, as FoldLeft does:  *)
(* the largest position last.                                              *)
FoldsTo(step, base, a, g) ==
  g = [s \in SUBSET DOMAIN a |->
         IF s = {} THEN base ELSE step[g[s \ {Max(s)}]][a[Max(s)]]]

(* A nonempty set of positions has a largest one.                          *)
LEMMA MaxOfInterval ==
  /\ \A n \in Nat : \A s \in SUBSET (0 .. n) :
       s # {} => Max(s) \in s /\ \A y \in s : y <= Max(s)
  /\ \A n \in Nat : \A s \in SUBSET (1 .. n) : s # {} => Max(s) \in s
  /\ \A n \in Nat : n > 0 => Max(1 .. n) = n /\ (1 .. n) \ {n} = 1 .. n - 1
<1>1. ASSUME NEW n \in Nat, NEW s \in SUBSET (0 .. n), s # {}
      PROVE  \E x \in s : \A y \in s : x >= y
  <2> DEFINE P == {k \in Nat : \A t \in SUBSET (0 .. k) : t # {} => \E x \in t : \A y \in t : x >= y}
  <2>1. 0 \in P
    <3>1. 0 .. 0 = {0}
      OBVIOUS
    <3>2. \A t \in SUBSET (0 .. 0) : t # {} => t = {0}
      BY <3>1
    <3> QED BY <3>2
  <2>2. ASSUME NEW k \in Nat, k \in P PROVE k + 1 \in P
    <3> SUFFICES ASSUME NEW t \in SUBSET (0 .. k + 1), t # {} PROVE \E x \in t : \A y \in t : x >= y
      OBVIOUS
    <3>1. CASE k + 1 \in t
      <4>1. \A y \in t : k + 1 >= y
        OBVIOUS
      <4> QED BY <3>1, <4>1
    <3>2. CASE k + 1 \notin t
      <4>1. t \in SUBSET (0 .. k)
        BY <3>2
      <4> QED BY <2>2, <4>1
    <3> QED BY <3>1, <3>2
  <2> HIDE DEF P
  <2>3. n \in P
    BY <2>1, <2>2, Counting
  <2> QED BY <1>1, <2>3 DEF P
<1>2. ASSUME NEW n \in Nat, NEW s \in SUBSET (0 .. n), s # {}
      PROVE  Max(s) \in s /\ \A y \in s : y <= Max(s)
  <2>1. Max(s) \in s /\ \A y \in s : Max(s) >= y
    BY <1>1, <1>2 DEF Max
  <2> QED BY <2>1
<1>3. ASSUME NEW n \in Nat, n > 0 PROVE Max(1 .. n) = n /\ (1 .. n) \ {n} = 1 .. n - 1
  <2>1. \A x \in 1 .. n : (\A y \in 1 .. n : x >= y) <=> x = n
    BY <1>3
  <2>2. n \in 1 .. n
    BY <1>3
  <2>3. Max(1 .. n) = n
    BY <2>1, <2>2 DEF Max
  <2> QED BY <2>3
<1>4. ASSUME NEW n \in Nat, NEW s \in SUBSET (1 .. n), s # {} PROVE Max(s) \in s
  <2>1. s \in SUBSET (0 .. n)
    OBVIOUS
  <2> QED BY <1>2, <1>4, <2>1
<1> QED BY <1>2, <1>3, <1>4

(* Induction over sequences, for a set of them.                            *)
LEMMA Appending ==
  ASSUME NEW W, NEW P, << >> \in P, \A a \in Seq(W), x \in W : a \in P => Append(a, x) \in P
  PROVE  Seq(W) \subseteq P
<1> DEFINE sizes == {n \in Nat : \A a \in Seq(W) : Len(a) = n => a \in P}
<1>1. 0 \in sizes
  <2>1. \A a \in Seq(W) : Len(a) = 0 => a = << >>
    OBVIOUS
  <2> QED BY <2>1
<1>2. ASSUME NEW n \in Nat, n \in sizes PROVE n + 1 \in sizes
  <2> SUFFICES ASSUME NEW a \in Seq(W), Len(a) = n + 1 PROVE a \in P
    OBVIOUS
  <2>1. a # << >>
    OBVIOUS
  <2>2. PICK b \in Seq(W), x \in W : a = Append(b, x)
    BY <2>1, SequenceEmptyOrAppend
  <2>3. Len(b) = n
    BY <2>2
  <2>4. b \in P
    BY <1>2, <2>3
  <2> QED BY <2>2, <2>4
<1> HIDE DEF sizes
<1>3. Nat \subseteq sizes
  BY <1>1, <1>2, Counting
<1> QED BY <1>3 DEF sizes

(* There is such a function: from one that is right up to a size comes one *)
(* that is right for the next.                                             *)
LEMMA FoldsExist ==
  ASSUME NEW step, NEW base, NEW W, NEW a \in Seq(W)
  PROVE  \E g : FoldsTo(step, base, a, g)
<1> DEFINE S == DOMAIN a
           next(g) == [s \in SUBSET S |->
                         IF s = {} THEN base ELSE step[g[s \ {Max(s)}]][a[Max(s)]]]
           upTo(n, g) == \A s \in SUBSET S : Cardinality(s) <= n => g[s] = next(g)[s]
           known == {n \in Nat : \E g : g = [s \in SUBSET S |-> g[s]] /\ upTo(n, g)}
<1>0. IsFiniteSet(S)
  BY FS_Interval
<1>1. \A s \in SUBSET S : /\ Cardinality(s) \in Nat /\ Cardinality(s) <= Cardinality(S)
                          /\ Cardinality(s) = 0 => s = {}
                          /\ s # {} => /\ Max(s) \in s
                                       /\ Cardinality(s \ {Max(s)}) = Cardinality(s) - 1
                          /\ s \ {Max(s)} \in SUBSET S
  <2>1. \A s \in SUBSET S : s # {} => Max(s) \in s
    <3>1. S = 1 .. Len(a) /\ Len(a) \in Nat
      OBVIOUS
    <3> QED BY <3>1, MaxOfInterval
  <2> QED BY <1>0, <2>1, FS_Subset, FS_CardinalityType, FS_EmptySet, FS_RemoveElement
<1>2. \A g : \A s \in SUBSET S :
        next(g)[s] = IF s = {} THEN base ELSE step[g[s \ {Max(s)}]][a[Max(s)]]
  OBVIOUS
<1>3. \A g : next(g) = [s \in SUBSET S |-> next(g)[s]]
  OBVIOUS
<1> HIDE DEF next, S
<1>4. 0 \in known
  <2>1. PICK g : g = next([s \in SUBSET S |-> 0])
    OBVIOUS
  <2>2. ASSUME NEW s \in SUBSET S, Cardinality(s) <= 0 PROVE g[s] = next(g)[s]
    <3>1. Cardinality(s) \in Nat
      BY <1>1
    <3>2. Cardinality(s) = 0
      BY <2>2, <3>1
    <3>3. s = {}
      BY <1>1, <3>2
    <3> QED BY <1>2, <2>1, <3>3
  <2>3. g = [s \in SUBSET S |-> g[s]]
    BY <1>3, <2>1
  <2> QED BY <2>2, <2>3
<1>5. ASSUME NEW n \in Nat, n \in known PROVE n + 1 \in known
  <2>1. PICK g : upTo(n, g)
    BY <1>5
  <2>2. PICK h : h = next(g)
    OBVIOUS
  <2>3. ASSUME NEW s \in SUBSET S, Cardinality(s) <= n + 1
        PROVE  h[s] = next(h)[s]
    <3>1. CASE s = {}
      BY <1>2, <2>2, <3>1
    <3>2. CASE s # {}
      <4>1. Cardinality(s \ {Max(s)}) <= n /\ s \ {Max(s)} \in SUBSET S
        BY <1>1, <2>3, <3>2
      <4>2. h[s \ {Max(s)}] = g[s \ {Max(s)}]
        BY <2>1, <2>2, <4>1
      <4>3. next(g)[s] = step[g[s \ {Max(s)}]][a[Max(s)]]
        BY <1>2, <3>2
      <4>4. next(h)[s] = step[h[s \ {Max(s)}]][a[Max(s)]]
        BY <1>2, <3>2
      <4> QED BY <2>2, <4>2, <4>3, <4>4
    <3> QED BY <3>1, <3>2
  <2>4. h = [s \in SUBSET S |-> h[s]]
    BY <1>3, <2>2
  <2>5. upTo(n + 1, h)
    BY <2>3
  <2> HIDE DEF upTo
  <2>6. \E f : f = [s \in SUBSET S |-> f[s]] /\ upTo(n + 1, f)
    BY <2>4, <2>5, Zenon
  <2>7. n + 1 \in Nat
    OBVIOUS
  <2> QED BY <2>6, <2>7
<1> HIDE DEF known
<1>6. Cardinality(S) \in known
  BY <1>1, <1>4, <1>5, Counting
<1>7. PICK g : g = [s \in SUBSET S |-> g[s]] /\ upTo(Cardinality(S), g)
  BY <1>6 DEF known
<1>8. \A s \in SUBSET S : g[s] = next(g)[s]
  BY <1>1, <1>7
<1>9. g = next(g)
  BY <1>3, <1>7, <1>8
<1> QED BY <1>9 DEF FoldsTo, next, S

(* Along the prefixes: base first, then one step for each position.        *)
Along(step, base, n, a, g) ==
  /\ g[{}] = base
  /\ \A k \in 1 .. n : g[1 .. k] = step[g[1 .. k - 1]][a[k]]

(* A function that folds does so along the prefixes.                       *)
LEMMA FoldsAlong ==
  ASSUME NEW step, NEW base, NEW n \in Nat, NEW a, DOMAIN a = 1 .. n,
         NEW g, FoldsTo(step, base, a, g)
  PROVE  Along(step, base, n, a, g)
<1>1. \A s \in SUBSET DOMAIN a :
        g[s] = IF s = {} THEN base ELSE step[g[s \ {Max(s)}]][a[Max(s)]]
  BY DEF FoldsTo
<1>2. \A k \in 1 .. n : /\ 1 .. k \in SUBSET DOMAIN a /\ 1 .. k # {}
                             /\ Max(1 .. k) = k /\ (1 .. k) \ {k} = 1 .. k - 1
  <2>2. ASSUME NEW k \in 1 .. n PROVE Max(1 .. k) = k /\ (1 .. k) \ {k} = 1 .. k - 1
    <3>1. k \in Nat /\ k > 0
      OBVIOUS
    <3> QED BY <3>1, MaxOfInterval
  <2> QED BY <2>2
<1> QED BY <1>1, <1>2 DEF Along

(* The values of a fold have the type that its step keeps.                 *)
LEMMA FoldsAreTyped ==
  ASSUME NEW V, NEW W, NEW step \in [V -> [W -> V]], NEW base \in V, NEW a \in Seq(W),
         NEW g, FoldsTo(step, base, a, g)
  PROVE  \A s \in SUBSET DOMAIN a : g[s] \in V
<1>1. PICK S : S = DOMAIN a
  OBVIOUS
<1> DEFINE good == {s \in SUBSET S : g[s] \in V}
<1>2. S = 1 .. Len(a) /\ Len(a) \in Nat /\ \A i \in S : a[i] \in W
  BY <1>1
<1>3. IsFiniteSet(S) /\ \A s \in SUBSET S : s # {} => Max(s) \in s
  <2>1. IsFiniteSet(S)
    BY <1>2, FS_Interval
  <2>2. \A s \in SUBSET S : s # {} => Max(s) \in s
    BY <1>2, MaxOfInterval
  <2> QED BY <2>1, <2>2
<1>4. \A s \in SUBSET S :
        g[s] = IF s = {} THEN base ELSE step[g[s \ {Max(s)}]][a[Max(s)]]
  BY <1>1 DEF FoldsTo
<1>5. ASSUME NEW s \in SUBSET S, \A x \in s : s \ {x} \in good PROVE s \in good
  <2>1. CASE s = {}
    BY <1>4, <2>1
  <2>2. CASE s # {}
    <3>1. PICK m \in s : m = Max(s)
      BY <1>3, <2>2
    <3>2. g[s \ {m}] \in V /\ a[m] \in W
      BY <1>2, <1>5
    <3>3. g[s] = step[g[s \ {m}]][a[m]]
      BY <1>4, <2>2, <3>1
    <3> QED BY <3>2, <3>3
  <2> QED BY <2>1, <2>2
<1> HIDE DEF good
<1>6. SUBSET S \subseteq good
  BY <1>3, <1>5, Adding
<1> QED BY <1>1, <1>6 DEF good

(* The value for all of a.                                                 *)
FoldOf(step, base, a) == (CHOOSE g : FoldsTo(step, base, a, g))[DOMAIN a]

(* A fold over nothing is its base.                                        *)
LEMMA FoldOfNothing ==
  ASSUME NEW step, NEW base PROVE FoldOf(step, base, << >>) = base
<1>1. << >> \in Seq({}) /\ DOMAIN << >> = 1 .. 0
  OBVIOUS
<1> DEFINE g == CHOOSE f : FoldsTo(step, base, << >>, f)
<1>2. FoldsTo(step, base, << >>, g)
  BY <1>1, FoldsExist
<1> HIDE DEF g
<1>3. Along(step, base, 0, << >>, g)
  BY <1>1, <1>2, FoldsAlong
<1>4. g[{}] = base
  BY <1>3 DEF Along
<1> QED BY <1>1, <1>4 DEF FoldOf, g

OneMore(step, base, a, x) ==
  FoldOf(step, base, Append(a, x)) = step[FoldOf(step, base, a)][x]

(* A fold over one element more takes one step more.                       *)
LEMMA FoldSteps ==
  ASSUME NEW V, NEW W, NEW step \in [V -> [W -> V]], NEW base \in V
  PROVE  /\ \A a \in Seq(W) : FoldOf(step, base, a) \in V
         /\ \A a \in Seq(W), x \in W : OneMore(step, base, a, x)
<1> DEFINE fold(a) == CHOOSE g : FoldsTo(step, base, a, g)
<1>1. \A a \in Seq(W) : FoldsTo(step, base, a, fold(a))
  BY FoldsExist
<1>2. \A a : FoldOf(step, base, a) = fold(a)[DOMAIN a]
  BY DEF FoldOf
<1> HIDE DEF fold
<1>4. ASSUME NEW a \in Seq(W) PROVE FoldOf(step, base, a) \in V
  <2>1. FoldsTo(step, base, a, fold(a))
    BY <1>1
  <2>2. DOMAIN a \in SUBSET DOMAIN a
    OBVIOUS
  <2>3. \A s \in SUBSET DOMAIN a : fold(a)[s] \in V
    BY <2>1, FoldsAreTyped, Zenon
  <2> QED BY <1>2, <2>2, <2>3
<1>5. ASSUME NEW a \in Seq(W), NEW x \in W
      PROVE  OneMore(step, base, a, x)
  <2>0. Append(a, x) \in Seq(W)
    OBVIOUS
  <2>1. PICK b \in Seq(W) : b = Append(a, x)
    BY <2>0
  <2>2. PICK n \in Nat : n = Len(a)
    OBVIOUS
  <2>3. /\ DOMAIN a = 1 .. n /\ DOMAIN b = 1 .. n + 1 /\ Len(b) = n + 1
        /\ b[n + 1] = x /\ \A i \in 1 .. n : b[i] = a[i]
    BY <2>1, <2>2
  <2>4. PICK g, h : g = fold(a) /\ h = fold(b)
    OBVIOUS
  <2>5. /\ g[{}] = base /\ h[{}] = base
        /\ \A k \in 1 .. n : g[1 .. k] = step[g[1 .. k - 1]][a[k]]
        /\ \A k \in 1 .. n + 1 : h[1 .. k] = step[h[1 .. k - 1]][b[k]]
    <3>1. FoldsTo(step, base, a, g) /\ FoldsTo(step, base, b, h)
      BY <1>1, <2>4
    <3>2. Along(step, base, n, a, g)
      BY <2>3, <3>1, FoldsAlong
    <3>3. Along(step, base, n + 1, b, h)
      BY <2>3, <3>1, FoldsAlong
    <3> QED BY <2>3, <3>2, <3>3 DEF Along
  <2> DEFINE same == {k \in Nat : k <= n => h[1 .. k] = g[1 .. k]}
  <2>6. 0 \in same
    <3>1. 1 .. 0 = {}
      OBVIOUS
    <3> QED BY <2>5, <3>1
  <2>7. ASSUME NEW k \in Nat, k \in same PROVE k + 1 \in same
    <3> SUFFICES ASSUME k + 1 <= n PROVE h[1 .. k + 1] = g[1 .. k + 1]
      OBVIOUS
    <3>1. PICK m \in 1 .. n : m = k + 1 /\ m - 1 = k
      OBVIOUS
    <3>2. h[1 .. k] = g[1 .. k]
      BY <2>7
    <3>3. m \in 1 .. n + 1
      BY <3>1
    <3>4. h[1 .. m] = step[h[1 .. k]][b[m]] /\ g[1 .. m] = step[g[1 .. k]][a[m]]
      BY <2>5, <3>1, <3>3
    <3>5. b[m] = a[m]
      BY <2>3
    <3> QED BY <3>1, <3>2, <3>4, <3>5
  <2> HIDE DEF same
  <2>8. n \in same
    BY <2>6, <2>7, Counting
  <2>9. h[1 .. n] = g[1 .. n]
    BY <2>8 DEF same
  <2>10. h[1 .. n + 1] = step[h[1 .. n]][x]
    <3>1. n + 1 \in 1 .. n + 1 /\ (n + 1) - 1 = n
      OBVIOUS
    <3> QED BY <2>3, <2>5, <3>1
  <2> QED BY <1>2, <2>1, <2>3, <2>4, <2>9, <2>10 DEF OneMore
<1> QED BY <1>4, <1>5

(* What makes h, at the end, the fold of a: a step of h is one of step      *)
(* where it starts from a state.                                           *)
Follows(V, step, base, a, h) ==
  /\ h[{}] = base
  /\ \A s \in SUBSET DOMAIN a :
       s # {} /\ h[s \ {Max(s)}] \in V => h[s] = step[h[s \ {Max(s)}]][a[Max(s)]]

(* A function that follows the steps ends in the fold.                     *)
LEMMA FoldIsOf ==
  ASSUME NEW V, NEW W, NEW step \in [V -> [W -> V]], NEW base \in V, NEW a \in Seq(W),
         NEW h, Follows(V, step, base, a, h)
  PROVE  h[DOMAIN a] = FoldOf(step, base, a)
<1>1. PICK S : S = DOMAIN a
  OBVIOUS
<1> DEFINE g == CHOOSE f : FoldsTo(step, base, a, f)
           same == {s \in SUBSET S : h[s] = g[s]}
<1>2. S = 1 .. Len(a) /\ Len(a) \in Nat
  BY <1>1
<1>3. FoldsTo(step, base, a, g)
  BY FoldsExist
<1>4. FoldOf(step, base, a) = g[S]
  BY <1>1 DEF FoldOf
<1> HIDE DEF g
<1>5. \A s \in SUBSET S : g[s] \in V
  BY <1>1, <1>3, FoldsAreTyped
<1>6. ASSUME NEW s \in SUBSET S, \A x \in s : s \ {x} \in same PROVE s \in same
  <2>1. g[s] = IF s = {} THEN base ELSE step[g[s \ {Max(s)}]][a[Max(s)]]
    BY <1>1, <1>3 DEF FoldsTo
  <2>2. CASE s = {}
    BY <2>1, <2>2 DEF Follows
  <2>3. CASE s # {}
    <3>1. Max(s) \in s
      BY <1>2, <2>3, MaxOfInterval
    <3>2. h[s \ {Max(s)}] = g[s \ {Max(s)}] /\ s \ {Max(s)} \in SUBSET S
      BY <1>6, <3>1
    <3> QED BY <1>1, <1>5, <2>1, <2>3, <3>2 DEF Follows
  <2> QED BY <2>2, <2>3
<1> HIDE DEF same
<1>7. IsFiniteSet(S)
  BY <1>2, FS_Interval
<1>8. S \in same
  BY <1>6, <1>7, Adding
<1> QED BY <1>1, <1>4, <1>8 DEF same

(* There is a function that a fold may iterate with, and it has states.    *)
HasStates(V, W, a, g) ==
  \A s \in SUBSET DOMAIN a : s # {} => g[s \ {Max(s)}] \in V /\ a[Max(s)] \in W

(* Its states exist and have the types of the fold.                        *)
LEMMA FoldHas ==
  ASSUME NEW V, NEW W, NEW step \in [V -> [W -> V]], NEW base \in V, NEW a \in Seq(W)
  PROVE  \E g : FoldsTo(step, base, a, g) /\ HasStates(V, W, a, g)
<1>1. PICK g : FoldsTo(step, base, a, g)
  BY FoldsExist
<1>2. \A s \in SUBSET DOMAIN a : g[s] \in V
  BY <1>1, FoldsAreTyped
<1>3. DOMAIN a = 1 .. Len(a) /\ Len(a) \in Nat /\ \A i \in DOMAIN a : a[i] \in W
  OBVIOUS
<1>4. \A s \in SUBSET DOMAIN a : s # {} => Max(s) \in s
  BY <1>3, MaxOfInterval
<1> QED BY <1>1, <1>2, <1>3, <1>4 DEF HasStates

(* The strings of the proofs: that a literal is a string is not among what *)
(* the provers know.                                                       *)
Text == STRING \cup Dashed \cup
        {"", "b.o", "none", "u.c", "./-u.c", "unit.bc", Recursive}

Scans == [output : Text, option : Text, ended : BOOLEAN]
Scan0 == [output |-> "", option |-> "", ended |-> FALSE]
Scan(a) == FoldLeft(OutputStep, Scan0, a)

(* The states of original_output, and its steps, are typed.                *)
LEMMA ScanTyped ==
  /\ Scan0 \in Scans
  /\ \A scan \in Scans, x \in Text : OutputStep(scan, x) \in Scans
<1>1. Scan0 \in Scans
  BY DEF Scan0, Scans, Text
<1>2. ASSUME NEW scan \in Scans, NEW x \in Text PROVE OutputStep(scan, x) \in Scans
  <2>1. "" \in Text /\ "b.o" \in Text
    BY DEF Text
  <2>2. \A arg \in DOMAIN joined_output : joined_output[arg] = "b.o"
    BY DEF joined_output
  <2> HIDE DEF Text
  <2> QED BY <2>1, <2>2 DEF OutputStep, Scans
<1> QED BY <1>1, <1>2

(* original_output's loop, argument by argument.                           *)
LEMMA ScanSteps ==
  /\ Scan(<< >>) = Scan0
  /\ \A args \in Seq(Text) :
       /\ Scan(args) \in Scans
       /\ \A x \in Text : Scan(Append(args, x)) = OutputStep(Scan(args), x)
<1> DEFINE base == Scan0
           V == Scans
           step == [state \in V |-> [x \in Text |-> OutputStep(state, x)]]
           iterates(a, g) ==
             g = [s \in SUBSET DOMAIN a |->
                    IF s = {} THEN base
                    ELSE OutputStep(g[s \ {Max(s)}], a[Max(s)])]
<1>1. base \in V /\ step \in [V -> [Text -> V]]
  BY ScanTyped
<1> HIDE DEF base, V
<1>2. ASSUME NEW a \in Seq(Text) PROVE Scan(a) = FoldOf(step, base, a)
  <2> DEFINE h == CHOOSE f : iterates(a, f)
  <2>1. Scan(a) = h[DOMAIN a]
    BY DEF Scan, FoldLeft, MapThenFoldSet, base
  <2> HIDE DEF step
  <2>2. PICK g : FoldsTo(step, base, a, g) /\ HasStates(V, Text, a, g)
    BY <1>1, FoldHas
  <2>3. iterates(a, g)
    <3>1. g = [s \in SUBSET DOMAIN a |->
                 IF s = {} THEN base ELSE step[g[s \ {Max(s)}]][a[Max(s)]]]
      BY <2>2 DEF FoldsTo
    <3>2. \A s \in SUBSET DOMAIN a : s # {} =>
            step[g[s \ {Max(s)}]][a[Max(s)]] = OutputStep(g[s \ {Max(s)}], a[Max(s)])
      BY <2>2 DEF step, HasStates
    <3> QED BY <3>1, <3>2, Zenon
  <2>4. iterates(a, h)
    BY <2>3
  <2>5. Follows(V, step, base, a, h)
    <3> HIDE DEF h
    <3>1. \A s \in SUBSET DOMAIN a : s # {} => Max(s) \in s /\ a[Max(s)] \in Text
      <4>1. DOMAIN a = 1 .. Len(a) /\ Len(a) \in Nat /\ \A i \in DOMAIN a : a[i] \in Text
        OBVIOUS
      <4> QED BY <4>1, MaxOfInterval
    <3>2. \A s \in SUBSET DOMAIN a :
            h[s] = IF s = {} THEN base ELSE OutputStep(h[s \ {Max(s)}], a[Max(s)])
      BY <2>4
    <3> QED BY <3>1, <3>2 DEF Follows, step
  <2> HIDE DEF h
  <2>6. h[DOMAIN a] = FoldOf(step, base, a)
    BY <1>1, <2>5, FoldIsOf
  <2> QED BY <2>1, <2>6
<1> HIDE DEF step
<1>3. \A a \in Seq(Text) : FoldOf(step, base, a) \in V
  BY <1>1, FoldSteps
<1>4. \A a \in Seq(Text), x \in Text : OneMore(step, base, a, x)
  BY <1>1, FoldSteps
<1>5. ASSUME NEW a \in Seq(Text), NEW x \in Text
      PROVE  Scan(Append(a, x)) = OutputStep(Scan(a), x)
  <2>1. Append(a, x) \in Seq(Text)
    OBVIOUS
  <2>2. Scan(Append(a, x)) = step[Scan(a)][x]
    BY <1>2, <1>4, <2>1 DEF OneMore
  <2> QED BY <1>2, <1>3, <2>2 DEF step
<1>6. << >> \in Seq(Text)
  OBVIOUS
<1>7. Scan(<< >>) = base
  BY <1>2, <1>6, FoldOfNothing
<1> QED BY <1>2, <1>3, <1>5, <1>7 DEF base, V

Parts == [file : Text, kept : Seq(Text), source : Text, source_language : Text,
          language : Text, output : Text, option : Text, positional : BOOLEAN,
          refused : BOOLEAN]
Parts0(file) ==
  [file |-> file, kept |-> << >>, source |-> "", source_language |-> "none",
   language |-> "none", output |-> "", option |-> "", positional |-> FALSE,
   refused |-> FALSE]
Read(file, a) == FoldLeft(PartStep, Parts0(file), a)

(* The states of command_parts, and its steps, are typed.                  *)
LEMMA PartsTyped ==
  /\ \A file \in Text : Parts0(file) \in Parts
  /\ \A parts \in Parts, x \in Text : PartStep(parts, x) \in Parts
<1>1. "" \in Text /\ "b.o" \in Text /\ "none" \in Text
  BY DEF Text
<1>2. ASSUME NEW file \in Text PROVE Parts0(file) \in Parts
  <2>1. << >> \in Seq(Text)
    OBVIOUS
  <2> QED BY <1>1, <2>1 DEF Parts0, Parts
<1>3. ASSUME NEW parts \in Parts, NEW x \in Text PROVE PartStep(parts, x) \in Parts
  <2>1. \A arg \in DOMAIN joined_output : joined_output[arg] = "b.o"
    BY DEF joined_output
  <2>2. \A arg \in DOMAIN joined_language : joined_language[arg] = "none"
    BY DEF joined_language
  <2>3. \A p \in Parts : Refuse(p) \in Parts
    BY DEF Refuse, Parts
  <2>4. ValuePart(parts, x) \in Parts
    <3>1. [parts EXCEPT !.option = ""] \in Parts
      BY <1>1 DEF Parts
    <3>2. PICK next \in Parts : next = [parts EXCEPT !.option = ""]
      BY <3>1
    <3>3. [next EXCEPT !.output = x] \in Parts /\ [next EXCEPT !.language = x] \in Parts
      BY DEF Parts
    <3>4. next.kept \o <<parts.option, x>> \in Seq(Text)
      BY DEF Parts
    <3>5. [next EXCEPT !.kept = @ \o <<parts.option, x>>] \in Parts
      BY <3>4 DEF Parts
    <3> QED BY <2>3, <3>2, <3>3, <3>5 DEF ValuePart
  <2>5. InputPart(parts, x) \in Parts
    BY <2>3 DEF InputPart, Parts
  <2>6. OptionPart(parts, x) \in Parts
    <3>1. /\ [parts EXCEPT !.positional = TRUE] \in Parts
          /\ [parts EXCEPT !.option = x] \in Parts
          /\ [parts EXCEPT !.language = "none"] \in Parts
          /\ [parts EXCEPT !.output = "b.o"] \in Parts
      BY <1>1 DEF Parts
    <3>2. Append(parts.kept, x) \in Seq(Text)
      BY DEF Parts
    <3>3. [parts EXCEPT !.kept = Append(@, x)] \in Parts
      BY <3>2 DEF Parts
    <3> QED BY <2>1, <2>2, <2>3, <3>1, <3>3 DEF OptionPart
  <2> QED BY <2>4, <2>5, <2>6 DEF PartStep
<1> QED BY <1>2, <1>3

(* command_parts's loop, argument by argument.                             *)
LEMMA ReadSteps ==
  ASSUME NEW file, Parts0(file) \in Parts PROVE
  /\ Read(file, << >>) = Parts0(file)
  /\ \A args \in Seq(Text) :
       /\ Read(file, args) \in Parts
       /\ \A x \in Text : Read(file, Append(args, x)) = PartStep(Read(file, args), x)
<1> DEFINE base == Parts0(file)
           V == Parts
           step == [state \in V |-> [x \in Text |-> PartStep(state, x)]]
           iterates(a, g) ==
             g = [s \in SUBSET DOMAIN a |->
                    IF s = {} THEN base
                    ELSE PartStep(g[s \ {Max(s)}], a[Max(s)])]
<1>1. base \in V /\ step \in [V -> [Text -> V]]
  BY PartsTyped
<1> HIDE DEF base, V
<1>2. ASSUME NEW a \in Seq(Text) PROVE Read(file, a) = FoldOf(step, base, a)
  <2> DEFINE h == CHOOSE f : iterates(a, f)
  <2>1. Read(file, a) = h[DOMAIN a]
    BY DEF Read, FoldLeft, MapThenFoldSet, base
  <2> HIDE DEF step
  <2>2. PICK g : FoldsTo(step, base, a, g) /\ HasStates(V, Text, a, g)
    BY <1>1, FoldHas
  <2>3. iterates(a, g)
    <3>1. g = [s \in SUBSET DOMAIN a |->
                 IF s = {} THEN base ELSE step[g[s \ {Max(s)}]][a[Max(s)]]]
      BY <2>2 DEF FoldsTo
    <3>2. \A s \in SUBSET DOMAIN a : s # {} =>
            step[g[s \ {Max(s)}]][a[Max(s)]] = PartStep(g[s \ {Max(s)}], a[Max(s)])
      BY <2>2 DEF step, HasStates
    <3> QED BY <3>1, <3>2, Zenon
  <2>4. iterates(a, h)
    BY <2>3
  <2>5. Follows(V, step, base, a, h)
    <3> HIDE DEF h
    <3>1. \A s \in SUBSET DOMAIN a : s # {} => Max(s) \in s /\ a[Max(s)] \in Text
      <4>1. DOMAIN a = 1 .. Len(a) /\ Len(a) \in Nat /\ \A i \in DOMAIN a : a[i] \in Text
        OBVIOUS
      <4> QED BY <4>1, MaxOfInterval
    <3>2. \A s \in SUBSET DOMAIN a :
            h[s] = IF s = {} THEN base ELSE PartStep(h[s \ {Max(s)}], a[Max(s)])
      BY <2>4
    <3> QED BY <3>1, <3>2 DEF Follows, step
  <2> HIDE DEF h
  <2>6. h[DOMAIN a] = FoldOf(step, base, a)
    BY <1>1, <2>5, FoldIsOf
  <2> QED BY <2>1, <2>6
<1> HIDE DEF step
<1>3. \A a \in Seq(Text) : FoldOf(step, base, a) \in V
  BY <1>1, FoldSteps
<1>4. \A a \in Seq(Text), x \in Text : OneMore(step, base, a, x)
  BY <1>1, FoldSteps
<1>5. ASSUME NEW a \in Seq(Text), NEW x \in Text
      PROVE  Read(file, Append(a, x)) = PartStep(Read(file, a), x)
  <2>1. Append(a, x) \in Seq(Text)
    OBVIOUS
  <2>2. Read(file, Append(a, x)) = step[Read(file, a)][x]
    BY <1>2, <1>4, <2>1 DEF OneMore
  <2> QED BY <1>2, <1>3, <2>2 DEF step
<1>6. << >> \in Seq(Text)
  OBVIOUS
<1>7. Read(file, << >>) = base
  BY <1>2, <1>6, FoldOfNothing
<1> QED BY <1>2, <1>3, <1>5, <1>7 DEF base, V

(* Only, element by element.                                               *)
LEMMA OnlySteps ==
  ASSUME NEW W, NEW keep PROVE
  /\ Only(<< >>, keep) = << >>
  /\ \A args \in Seq(W) :
       /\ Only(args, keep) \in Seq(W)
       /\ \A x \in W : Only(Append(args, x), keep) = IF x \in keep THEN Append(Only(args, keep), x) ELSE Only(args, keep)
<1> DEFINE base == << >>
           V == Seq(W)
           step == [state \in V |-> [x \in W |-> IF x \in keep THEN Append(state, x) ELSE state]]
           iterates(a, g) ==
             g = [s \in SUBSET DOMAIN a |->
                    IF s = {} THEN base
                    ELSE IF a[Max(s)] \in keep THEN Append(g[s \ {Max(s)}], a[Max(s)]) ELSE g[s \ {Max(s)}]]
<1>1. base \in V /\ step \in [V -> [W -> V]]
  OBVIOUS
<1> HIDE DEF base, V
<1>2. ASSUME NEW a \in Seq(W) PROVE Only(a, keep) = FoldOf(step, base, a)
  <2> DEFINE h == CHOOSE f : iterates(a, f)
  <2>1. Only(a, keep) = h[DOMAIN a]
    BY DEF Only, FoldLeft, MapThenFoldSet, base
  <2> HIDE DEF step
  <2>2. PICK g : FoldsTo(step, base, a, g) /\ HasStates(V, W, a, g)
    BY <1>1, FoldHas
  <2>3. iterates(a, g)
    <3>1. g = [s \in SUBSET DOMAIN a |->
                 IF s = {} THEN base ELSE step[g[s \ {Max(s)}]][a[Max(s)]]]
      BY <2>2 DEF FoldsTo
    <3>2. \A s \in SUBSET DOMAIN a : s # {} =>
            step[g[s \ {Max(s)}]][a[Max(s)]] = IF a[Max(s)] \in keep THEN Append(g[s \ {Max(s)}], a[Max(s)]) ELSE g[s \ {Max(s)}]
      BY <2>2 DEF step, HasStates
    <3> QED BY <3>1, <3>2, Zenon
  <2>4. iterates(a, h)
    BY <2>3
  <2>5. Follows(V, step, base, a, h)
    <3> HIDE DEF h
    <3>1. \A s \in SUBSET DOMAIN a : s # {} => Max(s) \in s /\ a[Max(s)] \in W
      <4>1. DOMAIN a = 1 .. Len(a) /\ Len(a) \in Nat /\ \A i \in DOMAIN a : a[i] \in W
        OBVIOUS
      <4> QED BY <4>1, MaxOfInterval
    <3>2. \A s \in SUBSET DOMAIN a :
            h[s] = IF s = {} THEN base ELSE IF a[Max(s)] \in keep THEN Append(h[s \ {Max(s)}], a[Max(s)]) ELSE h[s \ {Max(s)}]
      BY <2>4
    <3> QED BY <3>1, <3>2 DEF Follows, step
  <2> HIDE DEF h
  <2>6. h[DOMAIN a] = FoldOf(step, base, a)
    BY <1>1, <2>5, FoldIsOf
  <2> QED BY <2>1, <2>6
<1> HIDE DEF step
<1>3. \A a \in Seq(W) : FoldOf(step, base, a) \in V
  BY <1>1, FoldSteps
<1>4. \A a \in Seq(W), x \in W : OneMore(step, base, a, x)
  BY <1>1, FoldSteps
<1>5. ASSUME NEW a \in Seq(W), NEW x \in W
      PROVE  Only(Append(a, x), keep) = IF x \in keep THEN Append(Only(a, keep), x) ELSE Only(a, keep)
  <2>1. Append(a, x) \in Seq(W)
    OBVIOUS
  <2>2. Only(Append(a, x), keep) = step[Only(a, keep)][x]
    BY <1>2, <1>4, <2>1 DEF OneMore
  <2> QED BY <1>2, <1>3, <2>2 DEF step
<1>6. << >> \in Seq(W)
  OBVIOUS
<1>7. Only(<< >>, keep) = base
  BY <1>2, <1>6, FoldOfNothing
<1> QED BY <1>2, <1>3, <1>5, <1>7 DEF base, V

(* One element more is appended if it is kept, and only then.              *)
LEMMA OnlyMore ==
  ASSUME NEW W, NEW keep, NEW a \in Seq(W), NEW x \in W
  PROVE  /\ Only(a, keep) \in Seq(W)
         /\ Only(Append(a, x), keep) =
              IF x \in keep THEN Append(Only(a, keep), x) ELSE Only(a, keep)
BY OnlySteps

(* Of nothing it is nothing, ...                                           *)
LEMMA OnlyNothing == ASSUME NEW keep PROVE Only(<< >>, keep) = << >>
BY OnlySteps

(* ... and it adds nothing.                                                *)
LEMMA OnlyIn == ASSUME NEW W, NEW keep, NEW a \in Seq(W) PROVE Only(a, keep) \in Seq(W)
BY OnlySteps

-----------------------------------------------------------------------------
(* The role of an argument x that is appended to s, whose roles are r.     *)
NextRole(s, r, x) ==
  IF Len(s) > 0 /\ r[Len(s)] = "option" /\ s[Len(s)] \in TakesValue THEN "value"
  ELSE IF \E j \in 1 .. Len(s) : r[j] = "end" THEN "input"
  ELSE IF x = "--" THEN "end"
  ELSE IF x \in Dashed THEN "option" ELSE "input"

RoleAt(s, r, i) ==
  IF i > 1 /\ r[i - 1] = "option" /\ s[i - 1] \in TakesValue THEN "value"
  ELSE IF \E j \in 1 .. i - 1 : r[j] = "end" THEN "input"
  ELSE IF s[i] = "--" THEN "end"
  ELSE IF s[i] \in Dashed THEN "option" ELSE "input"
AreRoles(s, r) == r = [i \in DOMAIN s |-> RoleAt(s, r, i)]

(* Roles of one argument more: those before, and one that follows.         *)
Longer(s, r, x) == [i \in 1 .. Len(s) + 1 |-> IF i <= Len(s) THEN r[i] ELSE NextRole(s, r, x)]

(* Roles with one argument more are roles.                                 *)
LEMMA RolesOfLonger ==
  ASSUME NEW s \in Seq(Text), NEW x \in Text, NEW r, AreRoles(s, r)
  PROVE  AreRoles(Append(s, x), Longer(s, r, x))
<1>1. PICK n \in Nat : n = Len(s)
  OBVIOUS
<1>2. PICK t : t = Append(s, x)
  OBVIOUS
<1>3. DOMAIN s = 1 .. n /\ DOMAIN t = 1 .. n + 1 /\ t[n + 1] = x /\ \A i \in 1 .. n : t[i] = s[i]
  BY <1>1, <1>2
<1>4. PICK q : q = Longer(s, r, x)
  OBVIOUS
<1>5. /\ q = [i \in 1 .. n + 1 |-> q[i]]
      /\ \A i \in 1 .. n : q[i] = r[i]
      /\ q[n + 1] = NextRole(s, r, x)
  BY <1>1, <1>4 DEF Longer
<1>6. ASSUME NEW i \in 1 .. n PROVE q[i] = RoleAt(t, q, i)
  <2>1. r[i] = RoleAt(s, r, i)
    BY <1>3 DEF AreRoles
  <2>0. /\ i > 1 => i - 1 \in 1 .. n
        /\ \A j \in 1 .. i - 1 : j \in 1 .. n
    OBVIOUS
  <2>2. i > 1 => q[i - 1] = r[i - 1] /\ t[i - 1] = s[i - 1]
    BY <1>3, <1>5, <2>0
  <2>3. (\E j \in 1 .. i - 1 : q[j] = "end") <=> \E j \in 1 .. i - 1 : r[j] = "end"
    <3>1. \A j \in 1 .. i - 1 : q[j] = r[j]
      BY <1>5, <2>0
    <3> QED BY <3>1
  <2> QED BY <1>3, <1>5, <2>1, <2>2, <2>3 DEF RoleAt
<1>7. q[n + 1] = RoleAt(t, q, n + 1)
  <2>1. (n + 1) - 1 = n /\ (n + 1 > 1 <=> n > 0)
    OBVIOUS
  <2>2. n > 0 => q[n] = r[n] /\ t[n] = s[n]
    BY <1>3, <1>5
  <2>3. (\E j \in 1 .. n : q[j] = "end") <=> \E j \in 1 .. n : r[j] = "end"
    BY <1>5
  <2> QED BY <1>1, <1>3, <1>5, <2>1, <2>2, <2>3 DEF RoleAt, NextRole
<1>8. \A i \in 1 .. n + 1 : q[i] = RoleAt(t, q, i)
  BY <1>6, <1>7
<1>9. q = [i \in 1 .. n + 1 |-> RoleAt(t, q, i)]
  BY <1>5, <1>8
<1> QED BY <1>2, <1>3, <1>4, <1>9 DEF AreRoles

(* There is only one function of roles.                                    *)
LEMMA RolesAreOne ==
  ASSUME NEW s \in Seq(Text), NEW r, NEW q, AreRoles(s, r), AreRoles(s, q)
  PROVE  q = r
<1>1. PICK n \in Nat : n = Len(s) /\ DOMAIN s = 1 .. n
  OBVIOUS
<1> DEFINE same == {k \in Nat : \A i \in 1 .. n : i <= k => q[i] = r[i]}
<1>2. \A i \in 1 .. n : r[i] = RoleAt(s, r, i) /\ q[i] = RoleAt(s, q, i)
  BY <1>1 DEF AreRoles
<1>3. 0 \in same
  OBVIOUS
<1>4. ASSUME NEW k \in Nat, k \in same PROVE k + 1 \in same
  <2> SUFFICES ASSUME NEW i \in 1 .. n, i = k + 1 PROVE q[i] = r[i]
    BY <1>4
  <2>1. \A j \in 1 .. i - 1 : q[j] = r[j]
    BY <1>4
  <2>2. (\E j \in 1 .. i - 1 : q[j] = "end") <=> \E j \in 1 .. i - 1 : r[j] = "end"
    BY <2>1
  <2>3. i > 1 => q[i - 1] = r[i - 1]
    BY <2>1
  <2> QED BY <1>2, <2>2, <2>3 DEF RoleAt
<1> HIDE DEF same
<1>5. n \in same
  BY <1>3, <1>4, Counting
<1>6. \A i \in 1 .. n : q[i] = r[i]
  BY <1>5 DEF same
<1>7. r = [i \in 1 .. n |-> r[i]] /\ q = [i \in 1 .. n |-> q[i]]
  BY <1>1 DEF AreRoles
<1> QED BY <1>6, <1>7

RoleNames == {"option", "value", "end", "input"}

(* The roles of the arguments, argument by argument.                       *)
LEMMA RolesSteps ==
  ASSUME NEW s \in Seq(Text)
  PROVE  /\ Roles(s) \in [DOMAIN s -> RoleNames]
         /\ \A x \in Text : Roles(Append(s, x)) = Longer(s, Roles(s), x)
<1> DEFINE known == {a \in Seq(Text) : \E r : AreRoles(a, r)}
<1>1. << >> \in known
  <2>1. DOMAIN << >> = {} /\ << >> \in Seq(Text)
    OBVIOUS
  <2>2. AreRoles(<< >>, [i \in {} |-> "end"])
    BY <2>1 DEF AreRoles
  <2> QED BY <2>1, <2>2
<1>2. ASSUME NEW a \in Seq(Text), NEW x \in Text, a \in known PROVE Append(a, x) \in known
  <2>1. PICK q : AreRoles(a, q)
    BY <1>2
  <2>2. Append(a, x) \in Seq(Text) /\ AreRoles(Append(a, x), Longer(a, q, x))
    BY <2>1, RolesOfLonger
  <2> QED BY <2>2
<1> HIDE DEF known
<1>3. Seq(Text) \subseteq known
  BY <1>1, <1>2, Appending
<1>4. ASSUME NEW a \in Seq(Text) PROVE AreRoles(a, Roles(a))
  <2>1. PICK q : AreRoles(a, q)
    BY <1>3 DEF known
  <2>2. Roles(a) = CHOOSE r : AreRoles(a, r)
    BY DEF Roles, AreRoles, RoleAt
  <2> QED BY <2>1, <2>2
<1>5. Roles(s) \in [DOMAIN s -> RoleNames]
  <2>1. \A q, i : RoleAt(s, q, i) \in RoleNames
    BY DEF RoleAt, RoleNames
  <2>2. Roles(s) = [i \in DOMAIN s |-> RoleAt(s, Roles(s), i)]
    BY <1>4 DEF AreRoles
  <2> QED BY <2>1, <2>2
<1>6. ASSUME NEW x \in Text PROVE Roles(Append(s, x)) = Longer(s, Roles(s), x)
  <2>1. Append(s, x) \in Seq(Text)
    OBVIOUS
  <2>2. AreRoles(Append(s, x), Longer(s, Roles(s), x))
    BY <1>4, RolesOfLonger
  <2> QED BY <1>4, <2>1, <2>2, RolesAreOne
<1> QED BY <1>5, <1>6

(* t is s, of n arguments and roles r, with x appended, and q its roles.   *)
Grows(s, r, n, x, t, q) ==
  /\ n \in Nat /\ s \in Seq(Text) /\ t \in Seq(Text) /\ x \in Text
  /\ Len(s) = n /\ DOMAIN s = 1 .. n
  /\ Len(t) = n + 1 /\ DOMAIN t = 1 .. n + 1
  /\ \A i \in 1 .. n : t[i] = s[i] /\ q[i] = r[i]
  /\ t[n + 1] = x /\ q[n + 1] = NextRole(s, r, x)

(* An argument appended leaves the roles before it as they were.           *)
LEMMA Growing ==
  ASSUME NEW s \in Seq(Text), NEW x \in Text
  PROVE  Grows(s, Roles(s), Len(s), x, Append(s, x), Roles(Append(s, x)))
<1>1. PICK n, t, r, q :
        n = Len(s) /\ n \in Nat /\ t = Append(s, x) /\ r = Roles(s) /\ q = Roles(t)
  <2>1. Len(s) \in Nat
    OBVIOUS
  <2> QED BY <2>1
<1>2. q = Longer(s, r, x)
  BY <1>1, RolesSteps
<1>3. (\A i \in 1 .. n : q[i] = r[i]) /\ q[n + 1] = NextRole(s, r, x)
  BY <1>1, <1>2 DEF Longer
<1>4. /\ t \in Seq(Text) /\ Len(t) = n + 1 /\ t[n + 1] = x
      /\ DOMAIN s = 1 .. n /\ DOMAIN t = 1 .. n + 1 /\ \A i \in 1 .. n : t[i] = s[i]
  BY <1>1
<1>5. Grows(s, r, n, x, t, q)
  BY <1>1, <1>3, <1>4 DEF Grows
<1> QED BY <1>1, <1>5

(* The last of some options is one of them, and there is none after it.    *)
IsLast(s, r, O, i, j) ==
  /\ j \in 0 .. i - 1
  /\ j # 0 => j \in DOMAIN s /\ r[j] = "option" /\ s[j] \in O
  /\ \A k \in DOMAIN s : k < i /\ r[k] = "option" /\ s[k] \in O => k <= j

(* It exists and is the only one.                                          *)
LEMMA LastOptionIs ==
  ASSUME NEW s \in Seq(Text), NEW r, NEW O, NEW i \in Nat \ {0}
  PROVE  /\ IsLast(s, r, O, i, LastOption(s, r, O, i))
         /\ \A j : IsLast(s, r, O, i, j) => j = LastOption(s, r, O, i)
<1> DEFINE C == {j \in DOMAIN s : j < i /\ r[j] = "option" /\ s[j] \in O} \cup {0}
<1>1. C \in SUBSET (0 .. i - 1) /\ C # {} /\ 0 \in C
  OBVIOUS
<1>2. LastOption(s, r, O, i) = Max(C)
  BY DEF LastOption
<1>3. PICK m : m = Max(C)
  OBVIOUS
<1>4. i - 1 \in Nat
  OBVIOUS
<1>5. m \in C /\ \A y \in C : y <= m
  <2> HIDE DEF C
  <2> QED BY <1>1, <1>3, <1>4, MaxOfInterval
<1>6. IsLast(s, r, O, i, m)
  BY <1>1, <1>5 DEF IsLast
<1>7. ASSUME NEW j, IsLast(s, r, O, i, j) PROVE j = m
  <2>1. j \in C /\ j \in Int
    BY <1>7 DEF IsLast
  <2>2. m \in 0 .. i - 1 /\ (m # 0 => m <= j)
    BY <1>1, <1>5, <1>7 DEF IsLast
  <2>3. j <= m /\ j >= 0
    BY <1>5, <1>7, <2>1 DEF IsLast
  <2> QED BY <2>1, <2>2, <2>3
<1> QED BY <1>2, <1>3, <1>6, <1>7

(* An argument appended becomes the last option, or changes nothing.       *)
LEMMA LastOptionGrows ==
  ASSUME NEW s, NEW r, NEW n, NEW x, NEW t, NEW q, Grows(s, r, n, x, t, q), NEW O
  PROVE  /\ \A i \in 1 .. n + 1 : LastOption(t, q, O, i) = LastOption(s, r, O, i)
         /\ LastOption(t, q, O, n + 2) =
              IF q[n + 1] = "option" /\ x \in O THEN n + 1 ELSE LastOption(s, r, O, n + 1)
<1>1. /\ n \in Nat /\ s \in Seq(Text) /\ t \in Seq(Text)
      /\ DOMAIN s = 1 .. n /\ DOMAIN t = 1 .. n + 1 /\ t[n + 1] = x
      /\ \A i \in 1 .. n : t[i] = s[i] /\ q[i] = r[i]
  BY DEF Grows
<1>2. ASSUME NEW i \in 1 .. n + 1
      PROVE  LastOption(t, q, O, i) = LastOption(s, r, O, i)
  <2>1. PICK j : j = LastOption(s, r, O, i) /\ IsLast(s, r, O, i, j)
    BY <1>1, LastOptionIs
  <2>2. IsLast(t, q, O, i, j)
    BY <1>1, <2>1 DEF IsLast
  <2> QED BY <1>1, <2>1, <2>2, LastOptionIs
<1>3. LastOption(t, q, O, n + 2) =
        IF q[n + 1] = "option" /\ x \in O THEN n + 1 ELSE LastOption(s, r, O, n + 1)
  <2>1. PICK j : j = LastOption(s, r, O, n + 1) /\ IsLast(s, r, O, n + 1, j)
    BY <1>1, LastOptionIs
  <2>2. CASE q[n + 1] = "option" /\ x \in O
    <3>1. IsLast(t, q, O, n + 2, n + 1)
      BY <1>1, <2>2 DEF IsLast
    <3> QED BY <1>1, <2>2, <3>1, LastOptionIs
  <2>3. CASE ~(q[n + 1] = "option" /\ x \in O)
    <3>1. IsLast(t, q, O, n + 2, j)
      BY <1>1, <2>1, <2>3 DEF IsLast
    <3> QED BY <1>1, <2>1, <2>3, <3>1, LastOptionIs
  <2> QED BY <2>2, <2>3
<1> QED BY <1>2, <1>3

(* An option that takes a value is waiting for it.                         *)
Waiting(s, r, n) == n > 0 /\ r[n] = "option" /\ s[n] \in TakesValue

(* The role of an argument, by whether an option waits for it.             *)
LEMMA WaitingRole ==
  ASSUME NEW s, NEW r, NEW n, NEW x, NEW t, NEW q, Grows(s, r, n, x, t, q)
  PROVE  /\ Waiting(s, r, n) => q[n + 1] = "value"
         /\ ~Waiting(s, r, n) =>
              q[n + 1] = IF \E j \in 1 .. n : r[j] = "end" THEN "input"
                         ELSE IF x = "--" THEN "end"
                         ELSE IF x \in Dashed THEN "option" ELSE "input"
         /\ Waiting(t, q, n + 1) <=> q[n + 1] = "option" /\ x \in TakesValue
BY DEF Grows, NextRole, Waiting

(* What a setting becomes with one argument more.                          *)
SettingGrows(s, r, n, x, t, q, o, joined, default) ==
  LET was(i) == Setting(s, r, o, joined, default, i)
      is(i) == Setting(t, q, o, joined, default, i)
      waits == Waiting(s, r, n) /\ s[n] = o
  IN /\ \A i \in 1 .. n : is(i) = was(i)
     /\ ~waits => is(n + 1) = was(n + 1)
     /\ waits => is(n + 2) = x
     /\ ~waits /\ ~(q[n + 1] = "option" /\ x \in {o} \cup DOMAIN joined) => is(n + 2) = was(n + 1)
     /\ q[n + 1] = "option" /\ x \in DOMAIN joined => is(n + 2) = joined[x]

(* A setting is the one before, or what the argument sets it to.           *)
LEMMA SettingsGrow ==
  ASSUME NEW s, NEW r, NEW n, NEW x, NEW t, NEW q, Grows(s, r, n, x, t, q),
         NEW o \in TakesValue, NEW joined, o \notin DOMAIN joined, NEW default
  PROVE  SettingGrows(s, r, n, x, t, q, o, joined, default)
<1> DEFINE O == {o} \cup DOMAIN joined
           was(i) == Setting(s, r, o, joined, default, i)
           is(i) == Setting(t, q, o, joined, default, i)
           waits == Waiting(s, r, n) /\ s[n] = o
           last(i) == LastOption(s, r, O, i)
<1>1. /\ n \in Nat /\ s \in Seq(Text) /\ t \in Seq(Text)
      /\ DOMAIN s = 1 .. n /\ DOMAIN t = 1 .. n + 1 /\ t[n + 1] = x
      /\ \A i \in 1 .. n : t[i] = s[i] /\ q[i] = r[i]
  BY DEF Grows
<1>2. /\ \A i \in 1 .. n + 1 : LastOption(t, q, O, i) = last(i)
      /\ LastOption(t, q, O, n + 2) =
           IF q[n + 1] = "option" /\ x \in O THEN n + 1 ELSE last(n + 1)
  BY LastOptionGrows
<1>3. \A i \in 1 .. n + 1 : IsLast(s, r, O, i, last(i))
  BY <1>1, LastOptionIs
<1>4. /\ \A i : was(i) = IF last(i) = 0 THEN default
                         ELSE IF s[last(i)] = o THEN s[last(i) + 1] ELSE joined[s[last(i)]]
      /\ \A i : is(i) = LET j == LastOption(t, q, O, i) IN
                        IF j = 0 THEN default
                        ELSE IF t[j] = o THEN t[j + 1] ELSE joined[t[j]]
  BY DEF Setting
<1> HIDE DEF O, was, is, last
<1>5. ASSUME NEW i \in 1 .. n + 1, i = n + 1 => ~waits
      PROVE  /\ is(i) = was(i)
             /\ LastOption(t, q, O, n + 2) = last(n + 1) => is(n + 2) = was(n + 1) \/ i # n + 1
  <2>1. PICK j : j = last(i) /\ IsLast(s, r, O, i, j)
    BY <1>3
  <2>2. j \in 0 .. i - 1 /\ (j # 0 => j \in 1 .. n /\ r[j] = "option" /\ s[j] \in O)
    BY <1>1, <2>1 DEF IsLast
  <2>3. j # 0 /\ s[j] = o => j # n
    BY <1>1, <1>5, <2>2 DEF Waiting
  <2>4. j # 0 => t[j] = s[j]
    BY <1>1, <2>2
  <2>5. j # 0 /\ s[j] = o => t[j + 1] = s[j + 1]
    <3>1. j # 0 /\ s[j] = o => j + 1 \in 1 .. n
      BY <1>1, <2>2, <2>3
    <3> QED BY <1>1, <3>1
  <2> QED BY <1>2, <1>4, <2>1, <2>4, <2>5
<1>6. ASSUME waits PROVE is(n + 2) = x
  <2>1. q[n + 1] = "value"
    BY <1>6, WaitingRole
  <2>2. n > 0 /\ r[n] = "option" /\ s[n] \in O /\ s[n] = o
    BY <1>6 DEF Waiting, O
  <2>3. last(n + 1) = n
    <3>1. IsLast(s, r, O, n + 1, n)
      BY <1>1, <2>2 DEF IsLast
    <3> QED BY <1>1, <3>1, LastOptionIs DEF last
  <2>4. t[n] = o /\ n # 0
    BY <1>1, <2>2
  <2> QED BY <1>1, <1>2, <1>4, <2>1, <2>3, <2>4
<1>7. ASSUME q[n + 1] = "option", x \in DOMAIN joined PROVE is(n + 2) = joined[x]
  <2>1. x # o /\ x \in O
    BY <1>7 DEF O
  <2>2. LastOption(t, q, O, n + 2) = n + 1 /\ n + 1 # 0
    BY <1>1, <1>2, <1>7, <2>1
  <2> QED BY <1>1, <1>4, <2>1, <2>2
<1>8. ASSUME ~waits, ~(q[n + 1] = "option" /\ x \in O) PROVE is(n + 2) = was(n + 1)
  <2>1. n + 1 \in 1 .. n + 1
    BY <1>1
  <2> QED BY <1>2, <1>5, <1>8, <2>1
<1>9. \A i \in 1 .. n : i \in 1 .. n + 1 /\ i # n + 1
  BY <1>1
<1> QED BY <1>1, <1>5, <1>6, <1>7, <1>8, <1>9 DEF SettingGrows, was, is, O

-----------------------------------------------------------------------------
(* The positions of the options, in their order.                           *)
Positions(r, n) == Only([i \in 1 .. n |-> i], {i \in 1 .. n : r[i] = "option"})

(* Only depends on what is kept of the elements there are.                 *)
LEMMA OnlyAgree ==
  ASSUME NEW W, NEW keep, NEW other, \A x \in W : x \in keep <=> x \in other, NEW b \in Seq(W)
  PROVE  Only(b, keep) = Only(b, other)
<1> DEFINE P == {a \in Seq(W) : Only(a, keep) = Only(a, other)}
<1>1. << >> \in P
  BY OnlyNothing
<1>2. ASSUME NEW a \in Seq(W), NEW x \in W, a \in P PROVE Append(a, x) \in P
  <2>1. Append(a, x) \in Seq(W)
    OBVIOUS
  <2>2. Only(Append(a, x), keep) = IF x \in keep THEN Append(Only(a, keep), x) ELSE Only(a, keep)
    BY OnlyMore
  <2>3. Only(Append(a, x), other) = IF x \in other THEN Append(Only(a, other), x) ELSE Only(a, other)
    BY OnlyMore
  <2>4. Only(a, keep) = Only(a, other)
    BY <1>2
  <2>5. Only(Append(a, x), keep) = Only(Append(a, x), other)
    BY <2>2, <2>3, <2>4
  <2> QED BY <2>1, <2>5
<1> HIDE DEF P
<1>3. Seq(W) \subseteq P
  BY <1>1, <1>2, Appending
<1> QED BY <1>3 DEF P

(* Only, of the numbers up to n, is of numbers up to n.                    *)
LEMMA OnlyNumbers ==
  ASSUME NEW n \in Nat, NEW keep
  PROVE  /\ Only([i \in 1 .. n |-> i], keep) \in Seq(1 .. n)
         /\ Only([i \in 1 .. n + 1 |-> i], keep) =
              IF n + 1 \in keep THEN Append(Only([i \in 1 .. n |-> i], keep), n + 1)
              ELSE Only([i \in 1 .. n |-> i], keep)
<1>1. PICK a : a = [i \in 1 .. n |-> i]
  OBVIOUS
<1>2. PICK Z : Z = 1 .. n
  OBVIOUS
<1>3. a \in Seq(Z)
  BY <1>1, <1>2
<1>4. Only(a, keep) \in Seq(Z)
  BY <1>3, OnlyIn
<1>5. PICK k, Y : k = n + 1 /\ Y = 1 .. k /\ k \in Y /\ a \in Seq(Y)
  BY <1>1
<1>6. Only(Append(a, k), keep) = IF k \in keep THEN Append(Only(a, keep), k) ELSE Only(a, keep)
  <2>1. a \in Seq(Y) /\ k \in Y
    BY <1>5
  <2> QED BY <2>1, OnlyMore
<1>7. [i \in 1 .. n + 1 |-> i] = Append(a, k)
  BY <1>1, <1>5
<1> QED BY <1>1, <1>2, <1>4, <1>5, <1>6, <1>7

(* An option appended is the last position, another argument is none.      *)
LEMMA PositionsGrow ==
  ASSUME NEW s, NEW r, NEW n, NEW x, NEW t, NEW q, Grows(s, r, n, x, t, q)
  PROVE  /\ Positions(r, n) \in Seq(1 .. n)
         /\ Positions(q, n + 1) = IF q[n + 1] = "option" THEN Append(Positions(r, n), n + 1)
                                  ELSE Positions(r, n)
<1> DEFINE a == [i \in 1 .. n |-> i]
           keep == {i \in 1 .. n : r[i] = "option"}
           more == {i \in 1 .. n + 1 : q[i] = "option"}
<1>1. n \in Nat /\ \A i \in 1 .. n : q[i] = r[i]
  BY DEF Grows
<1>2. /\ Only(a, keep) \in Seq(1 .. n)
      /\ Positions(q, n + 1) =
           IF n + 1 \in more THEN Append(Only(a, more), n + 1) ELSE Only(a, more)
  BY <1>1, OnlyNumbers DEF Positions
<1>3. Only(a, more) = Only(a, keep)
  <2>1. PICK Z : Z = 1 .. n /\ a \in Seq(Z)
    BY <1>1
  <2>2. \A i \in Z : i \in more <=> i \in keep
    BY <1>1, <2>1
  <2>3. PICK b, k, m : b = a /\ k = keep /\ m = more
    OBVIOUS
  <2>4. b \in Seq(Z) /\ \A i \in Z : i \in m <=> i \in k
    BY <2>1, <2>2, <2>3
  <2>5. Only(b, m) = Only(b, k)
    BY <2>4, OnlyAgree
  <2> QED BY <2>3, <2>5
<1>4. n + 1 \in more <=> q[n + 1] = "option"
  BY <1>1
<1> HIDE DEF more
<1> QED BY <1>2, <1>3, <1>4 DEF Positions

-----------------------------------------------------------------------------
(* A driver that reads its arguments from left to right.                   *)
KindOf(st, x) ==
  IF st.option # "" THEN "value" ELSE IF st.ended THEN "input"
  ELSE IF x = "--" THEN "end" ELSE IF x \in Dashed THEN "option" ELSE "input"

Drive0 == [ended |-> FALSE, option |-> "", inputs |-> {}, language |-> "none",
           output |-> "", options |-> << >>]
DriveStep(st, n, x) ==
  LET kind == KindOf(st, x)
      set(value, option, joined) ==
        IF kind = "value" /\ st.option = option THEN x
        ELSE IF kind = "option" /\ x \in DOMAIN joined THEN joined[x] ELSE value
  IN [ended |-> st.ended \/ kind = "end",
      option |-> IF kind = "option" /\ x \in TakesValue THEN x ELSE "",
      inputs |-> st.inputs \cup
                   {p \in {<<n, Denotes(x), st.language>>} : kind = "input"},
      language |-> set(st.language, "-x", joined_language),
      output |-> set(st.output, "-o", joined_output),
      options |-> IF kind = "value" THEN Append(st.options, <<st.option, x>>)
                  ELSE IF kind = "option" /\ x \notin TakesValue THEN Append(st.options, <<x>>)
                  ELSE st.options]

(* What st holds of the n arguments s, whose roles are r.                  *)
EndRead(s, r, n, st) ==
  /\ st.ended <=> \E j \in 1 .. n : r[j] = "end"
  /\ st.option = IF Waiting(s, r, n) THEN s[n] ELSE ""
InputsRead(s, r, n, st) ==
  st.inputs = {<<i, Denotes(s[i]), Named(s, r, i)>> : i \in {j \in 1 .. n : r[j] = "input"}}
SettingsRead(s, r, n, st) ==
  /\ st.option # "-x" => st.language = Named(s, r, n + 1)
  /\ st.option # "-o" => st.output = Written(s, r, n + 1)
OptionsOf(s, o) == [k \in DOMAIN o |-> OptionAt(s, o[k])]
(* The positions whose option is known: it does not wait for its value.    *)
Settled(s, n) == {i \in 1 .. n : i < n \/ s[i] \notin TakesValue}
OptionsRead(s, r, n, st) ==
  \E o \in Seq(Settled(s, n)) :
    /\ st.options = OptionsOf(s, o)
    /\ Positions(r, n) = IF st.option = "" THEN o ELSE Append(o, n)
Reads(s, r, n, st) ==
  EndRead(s, r, n, st) /\ InputsRead(s, r, n, st) /\ SettingsRead(s, r, n, st) /\ OptionsRead(s, r, n, st)

(* The options that take a value, those with a joined one and -- differ.   *)
LEMMA OptionNames ==
  /\ "" \notin TakesValue /\ "-x" \in TakesValue /\ "-o" \in TakesValue
  /\ "-x" \notin DOMAIN joined_language /\ "-o" \notin DOMAIN joined_output
  /\ TakesValue \subseteq Dashed /\ DOMAIN joined_language \subseteq Dashed
  /\ DOMAIN joined_output \subseteq Dashed /\ "--" \notin TakesValue
  /\ DOMAIN joined_language \cap TakesValue = {} /\ DOMAIN joined_output \cap TakesValue = {}
BY DEF TakesValue, VALUE_OPTIONS, DROP_VALUES, Dashed, joined_language, joined_output

(* The kind that the driver gives an argument is its role.                 *)
LEMMA KindIsRole ==
  ASSUME NEW s, NEW r, NEW n, NEW x, NEW t, NEW q, Grows(s, r, n, x, t, q),
         NEW st, EndRead(s, r, n, st)
  PROVE  KindOf(st, x) = q[n + 1]
<1>1. st.option = (IF Waiting(s, r, n) THEN s[n] ELSE "")
      /\ (st.ended <=> \E j \in 1 .. n : r[j] = "end")
  BY DEF EndRead
<1>2. Waiting(s, r, n) => s[n] \in TakesValue
  BY DEF Waiting
<1>3. Waiting(s, r, n) => s[n] # ""
  BY <1>2, OptionNames
<1>4. /\ Waiting(s, r, n) => q[n + 1] = "value"
      /\ ~Waiting(s, r, n) =>
           q[n + 1] = IF \E j \in 1 .. n : r[j] = "end" THEN "input"
                      ELSE IF x = "--" THEN "end"
                      ELSE IF x \in Dashed THEN "option" ELSE "input"
  BY WaitingRole
<1>5. Waiting(s, r, n) <=> st.option # ""
  BY <1>1, <1>3
<1>6. CASE Waiting(s, r, n)
  BY <1>4, <1>5, <1>6 DEF KindOf
<1>7. CASE ~Waiting(s, r, n)
  BY <1>1, <1>4, <1>5, <1>7 DEF KindOf
<1> QED BY <1>6, <1>7

(* It knows the option that waits for the next argument.                   *)
Awaits(s, r, n, q, st) ==
  /\ Waiting(s, r, n) => st.option = s[n] /\ st.option \in TakesValue /\ q[n + 1] = "value"
  /\ ~Waiting(s, r, n) => st.option = "" /\ q[n + 1] # "value"

(* The option that it awaits a value for is the one that waits.            *)
LEMMA OptionWaits ==
  ASSUME NEW s, NEW r, NEW n, NEW x, NEW t, NEW q, Grows(s, r, n, x, t, q),
         NEW st, EndRead(s, r, n, st)
  PROVE  Awaits(s, r, n, q, st)
<1>1. st.option = (IF Waiting(s, r, n) THEN s[n] ELSE "")
  BY DEF EndRead
<1>2. Waiting(s, r, n) => s[n] \in TakesValue
  BY DEF Waiting
<1>3. /\ Waiting(s, r, n) => q[n + 1] = "value"
      /\ ~Waiting(s, r, n) =>
           q[n + 1] = IF \E j \in 1 .. n : r[j] = "end" THEN "input"
                      ELSE IF x = "--" THEN "end"
                      ELSE IF x \in Dashed THEN "option" ELSE "input"
  BY WaitingRole
<1>4. ~Waiting(s, r, n) => q[n + 1] # "value"
  BY <1>3
<1> QED BY <1>1, <1>2, <1>3, <1>4 DEF Awaits

(* Each step of the driver keeps what it holds: -- and the option, ...     *)
LEMMA EndGrows ==
  ASSUME NEW s, NEW r, NEW n, NEW x, NEW t, NEW q, Grows(s, r, n, x, t, q),
         NEW st, EndRead(s, r, n, st)
  PROVE  EndRead(t, q, n + 1, DriveStep(st, n + 1, x))
<1>1. KindOf(st, x) = q[n + 1]
  BY KindIsRole
<1>2. (\E j \in 1 .. n + 1 : q[j] = "end") <=> (\E j \in 1 .. n : r[j] = "end") \/ q[n + 1] = "end"
  BY DEF Grows
<1>3. t[n + 1] = x
  BY DEF Grows
<1>4. Waiting(t, q, n + 1) <=> q[n + 1] = "option" /\ x \in TakesValue
  BY WaitingRole
<1> QED BY <1>1, <1>2, <1>3, <1>4 DEF EndRead, DriveStep

(* ... the language and the output in force, ...                           *)
LEMMA SettingsReadGrow ==
  ASSUME NEW s, NEW r, NEW n, NEW x, NEW t, NEW q, Grows(s, r, n, x, t, q),
         NEW st, EndRead(s, r, n, st), SettingsRead(s, r, n, st)
  PROVE  SettingsRead(t, q, n + 1, DriveStep(st, n + 1, x))
<1>1. KindOf(st, x) = q[n + 1]
  BY KindIsRole
<1>2. SettingGrows(s, r, n, x, t, q, "-x", joined_language, "none")
  BY OptionNames, SettingsGrow
<1>3. SettingGrows(s, r, n, x, t, q, "-o", joined_output, "")
  BY OptionNames, SettingsGrow
<1>4. (n + 1) + 1 = n + 2
  BY DEF Grows
<1>5. /\ Waiting(s, r, n) => st.option = s[n] /\ st.option # "" /\ q[n + 1] = "value"
      /\ ~Waiting(s, r, n) => st.option = "" /\ q[n + 1] # "value"
  <2>1. /\ Waiting(s, r, n) => st.option = s[n] /\ st.option \in TakesValue /\ q[n + 1] = "value"
        /\ ~Waiting(s, r, n) => st.option = "" /\ q[n + 1] # "value"
    <3>1. Awaits(s, r, n, q, st)
      BY OptionWaits
    <3> QED BY <3>1 DEF Awaits
  <2>2. Waiting(s, r, n) => st.option # ""
    BY <2>1, OptionNames
  <2> QED BY <2>1, <2>2
<1>6. PICK d : d = DriveStep(st, n + 1, x)
  OBVIOUS
<1>7. d.option # "-x" => d.language = Named(t, q, n + 2)
  BY <1>1, <1>2, <1>5, <1>6, OptionNames DEF DriveStep, SettingGrows, Named, SettingsRead
<1>8. d.option # "-o" => d.output = Written(t, q, n + 2)
  BY <1>1, <1>3, <1>5, <1>6, OptionNames DEF DriveStep, SettingGrows, Written, SettingsRead
<1> QED BY <1>4, <1>6, <1>7, <1>8 DEF SettingsRead

(* ... the inputs with their languages, ...                                *)
LEMMA InputsGrow ==
  ASSUME NEW s, NEW r, NEW n, NEW x, NEW t, NEW q, Grows(s, r, n, x, t, q),
         NEW st, EndRead(s, r, n, st), SettingsRead(s, r, n, st), InputsRead(s, r, n, st)
  PROVE  InputsRead(t, q, n + 1, DriveStep(st, n + 1, x))
<1>1. KindOf(st, x) = q[n + 1]
  BY KindIsRole
<1>2. SettingGrows(s, r, n, x, t, q, "-x", joined_language, "none")
  BY OptionNames, SettingsGrow
<1>3. /\ n \in Nat /\ t[n + 1] = x
      /\ \A i \in 1 .. n : t[i] = s[i] /\ q[i] = r[i]
  BY DEF Grows
<1>4. \A i \in 1 .. n : Named(t, q, i) = Named(s, r, i)
  BY <1>2 DEF SettingGrows, Named
<1>5. q[n + 1] = "input" => Named(t, q, n + 1) = Named(s, r, n + 1) /\ st.option = ""
  BY <1>2, WaitingRole DEF SettingGrows, Named, EndRead
<1>6. q[n + 1] = "input" => st.language = Named(t, q, n + 1)
  BY <1>5 DEF SettingsRead
<1> DEFINE old == {j \in 1 .. n : r[j] = "input"}
           new == {j \in 1 .. n + 1 : q[j] = "input"}
           was(i) == <<i, Denotes(s[i]), Named(s, r, i)>>
           is(i) == <<i, Denotes(t[i]), Named(t, q, i)>>
<1>7. \A i \in old : i \in new /\ is(i) = was(i)
  BY <1>3, <1>4
<1>8. \A i \in new : i \in old \/ (i = n + 1 /\ q[n + 1] = "input")
  BY <1>3
<1>9. q[n + 1] = "input" => n + 1 \in new /\ is(n + 1) = <<n + 1, Denotes(x), st.language>>
  BY <1>3, <1>6
<1> HIDE DEF old, new, was, is
<1>10. {is(i) : i \in new} =
         {was(i) : i \in old} \cup
         {p \in {<<n + 1, Denotes(x), st.language>>} : q[n + 1] = "input"}
  BY <1>7, <1>8, <1>9
<1>11. st.inputs = {was(i) : i \in old}
  BY DEF InputsRead, old, was
<1>12. DriveStep(st, n + 1, x).inputs = {is(i) : i \in new}
  BY <1>1, <1>10, <1>11 DEF DriveStep
<1> QED BY <1>12 DEF InputsRead, is, new

(* Options of one position more.                                           *)
LEMMA OptionsOfMore ==
  ASSUME NEW t, NEW W, NEW o \in Seq(W), NEW p \in W
  PROVE  OptionsOf(t, Append(o, p)) = Append(OptionsOf(t, o), OptionAt(t, p))
<1>1. PICK m, l : m = Len(o) /\ l = Append(o, p)
  OBVIOUS
<1>2. m \in Nat /\ DOMAIN o = 1 .. m /\ DOMAIN l = 1 .. m + 1 /\ l[m + 1] = p
      /\ \A i \in 1 .. m : l[i] = o[i]
  BY <1>1
<1>3. PICK Z : Z = {OptionAt(t, i) : i \in W}
  OBVIOUS
<1>4. PICK a : a = OptionsOf(t, o)
  OBVIOUS
<1>5. \A i \in 1 .. m : o[i] \in W /\ OptionAt(t, o[i]) \in Z
  BY <1>2, <1>3
<1>6. a \in Seq(Z) /\ Len(a) = m /\ \A i \in 1 .. m : a[i] = OptionAt(t, o[i])
  <2>1. a = [i \in 1 .. m |-> OptionAt(t, o[i])]
    BY <1>2, <1>4 DEF OptionsOf
  <2> QED BY <1>2, <1>5, <2>1
<1>7. PICK z : z = OptionAt(t, p)
  OBVIOUS
<1>8. z \in Z
  BY <1>3, <1>7
<1>9. Append(a, z) = [i \in 1 .. m + 1 |-> IF i = m + 1 THEN z ELSE a[i]]
  <2>1. PICK b : b = Append(a, z)
    OBVIOUS
  <2>2. a \in Seq(Z) /\ z \in Z
    BY <1>6, <1>8
  <2>3. b \in Seq(Z) /\ Len(b) = Len(a) + 1 /\ b[Len(a) + 1] = z
        /\ \A i \in 1 .. Len(a) : b[i] = a[i]
    BY <2>1, <2>2
  <2>4. b = [i \in 1 .. Len(b) |-> b[i]]
    BY <2>3
  <2> QED BY <1>2, <1>6, <2>1, <2>3, <2>4
<1>10. OptionsOf(t, l) = [i \in 1 .. m + 1 |-> OptionAt(t, l[i])]
  BY <1>2 DEF OptionsOf
<1>11. \A i \in 1 .. m + 1 : OptionAt(t, l[i]) = IF i = m + 1 THEN z ELSE a[i]
  BY <1>2, <1>6, <1>7
<1> QED BY <1>1, <1>4, <1>7, <1>9, <1>10, <1>11

(* An argument appended leaves the settled options as they were.           *)
LEMMA OptionsOfSame ==
  ASSUME NEW s, NEW r, NEW n, NEW x, NEW t, NEW q, Grows(s, r, n, x, t, q),
         NEW o \in Seq(Settled(s, n))
  PROVE  /\ OptionsOf(t, o) = OptionsOf(s, o)
         /\ o \in Seq(Settled(t, n + 1))
<1>1. n \in Nat /\ \A i \in 1 .. n : t[i] = s[i]
  BY DEF Grows
<1>2. ASSUME NEW i \in Settled(s, n)
      PROVE  i \in Settled(t, n + 1) /\ OptionAt(t, i) = OptionAt(s, i)
  <2>1. i \in 1 .. n /\ (i < n \/ s[i] \notin TakesValue)
    BY DEF Settled
  <2>2. t[i] = s[i] /\ i < n + 1 /\ (i < n => i + 1 \in 1 .. n)
    BY <1>1, <2>1
  <2>3. i < n => t[i + 1] = s[i + 1]
    BY <1>1, <2>2
  <2>4. i \in Settled(t, n + 1)
    BY <1>1, <2>1, <2>2 DEF Settled
  <2> QED BY <2>1, <2>2, <2>3, <2>4 DEF OptionAt
<1>3. PICK S, T : S = Settled(s, n) /\ T = Settled(t, n + 1)
  OBVIOUS
<1>4. o \in Seq(S) /\ \A i \in S : i \in T /\ OptionAt(t, i) = OptionAt(s, i)
  BY <1>2, <1>3
<1>5. \A k \in DOMAIN o : o[k] \in S
  BY <1>4
<1>6. OptionsOf(t, o) = OptionsOf(s, o)
  BY <1>4, <1>5 DEF OptionsOf
<1>7. o \in Seq(T)
  BY <1>4, <1>5
<1> QED BY <1>3, <1>6, <1>7

(* ... and the options with their values.                                  *)
LEMMA OptionsGrow ==
  ASSUME NEW s, NEW r, NEW n, NEW x, NEW t, NEW q, Grows(s, r, n, x, t, q),
         NEW st, EndRead(s, r, n, st), OptionsRead(s, r, n, st)
  PROVE  OptionsRead(t, q, n + 1, DriveStep(st, n + 1, x))
<1>1. PICK o \in Seq(Settled(s, n)) :
        /\ st.options = OptionsOf(s, o)
        /\ Positions(r, n) = IF st.option = "" THEN o ELSE Append(o, n)
  BY DEF OptionsRead
<1>2. PICK d, m : d = DriveStep(st, n + 1, x) /\ m = n + 1
  OBVIOUS
<1>3. KindOf(st, x) = q[m]
  BY <1>2, KindIsRole
<1>4. OptionsOf(t, o) = st.options /\ o \in Seq(Settled(t, m))
  <2>1. OptionsOf(t, o) = OptionsOf(s, o) /\ o \in Seq(Settled(t, n + 1))
    <3>1. o \in Seq(Settled(s, n))
      OBVIOUS
    <3> QED BY <3>1, OptionsOfSame
  <2> QED BY <1>1, <1>2, <2>1
<1>5. Positions(q, m) = IF q[m] = "option" THEN Append(Positions(r, n), m) ELSE Positions(r, n)
  BY <1>2, PositionsGrow
<1>6. /\ Waiting(s, r, n) => st.option = s[n] /\ st.option \in TakesValue /\ q[m] = "value"
      /\ ~Waiting(s, r, n) => st.option = "" /\ q[m] # "value"
  <2>1. Awaits(s, r, n, q, st)
    BY OptionWaits
  <2> QED BY <1>2, <2>1 DEF Awaits
<1>7. Waiting(s, r, n) => st.option # ""
  BY <1>6, OptionNames
<1>8. /\ n \in Nat /\ t[m] = x /\ \A i \in 1 .. n : t[i] = s[i]
  BY <1>2 DEF Grows
<1>9. CASE Waiting(s, r, n)
  <2>1. n \in 1 .. n /\ n < m
    BY <1>2, <1>8, <1>9 DEF Waiting
  <2>2. n \in Settled(t, m)
    BY <1>2, <1>8, <2>1 DEF Settled
  <2>3. OptionAt(t, n) = <<st.option, x>>
    BY <1>2, <1>6, <1>8, <1>9, <2>1 DEF OptionAt
  <2>4. OptionsOf(t, Append(o, n)) = Append(st.options, <<st.option, x>>)
    BY <1>4, <2>2, <2>3, OptionsOfMore
  <2>5. Append(o, n) \in Seq(Settled(t, m))
    BY <1>4, <2>2
  <2>6. d.option = "" /\ d.options = Append(st.options, <<st.option, x>>)
    BY <1>2, <1>3, <1>6, <1>9 DEF DriveStep
  <2>7. Positions(q, m) = Append(o, n)
    BY <1>1, <1>5, <1>6, <1>7, <1>9
  <2>8. OptionsRead(t, q, m, d)
    BY <2>4, <2>5, <2>6, <2>7 DEF OptionsRead
  <2> QED BY <1>2, <2>8
<1>10. CASE ~Waiting(s, r, n) /\ q[m] = "option" /\ x \in TakesValue
  <2>1. d.option = x /\ d.options = st.options
    BY <1>2, <1>3, <1>10 DEF DriveStep
  <2>2. Positions(q, m) = Append(o, m) /\ x # ""
    BY <1>1, <1>5, <1>6, <1>10, OptionNames
  <2>3. OptionsRead(t, q, m, d)
    BY <1>4, <2>1, <2>2 DEF OptionsRead
  <2> QED BY <1>2, <2>3
<1>11. CASE ~Waiting(s, r, n) /\ q[m] = "option" /\ x \notin TakesValue
  <2>1. d.option = "" /\ d.options = Append(st.options, <<x>>)
    BY <1>2, <1>3, <1>11 DEF DriveStep
  <2>2. m \in Settled(t, m)
    BY <1>2, <1>8, <1>11 DEF Settled
  <2>3. OptionAt(t, m) = <<x>>
    BY <1>8, <1>11 DEF OptionAt
  <2>4. OptionsOf(t, Append(o, m)) = Append(st.options, <<x>>)
    BY <1>4, <2>2, <2>3, OptionsOfMore
  <2>5. Append(o, m) \in Seq(Settled(t, m))
    BY <1>4, <2>2
  <2>6. Positions(q, m) = Append(o, m)
    BY <1>1, <1>5, <1>6, <1>11
  <2>7. OptionsRead(t, q, m, d)
    BY <2>1, <2>4, <2>5, <2>6 DEF OptionsRead
  <2> QED BY <1>2, <2>7
<1>12. CASE ~Waiting(s, r, n) /\ q[m] # "option"
  <2>1. d.option = "" /\ d.options = st.options
    BY <1>2, <1>3, <1>6, <1>12 DEF DriveStep
  <2>2. Positions(q, m) = o
    BY <1>1, <1>5, <1>6, <1>12
  <2>3. OptionsRead(t, q, m, d)
    BY <1>4, <2>1, <2>2 DEF OptionsRead
  <2> QED BY <1>2, <2>3
<1> QED BY <1>9, <1>10, <1>11, <1>12

(* So it holds what was read, whatever the next argument is.               *)
LEMMA DriveReads ==
  ASSUME NEW s, NEW r, NEW n, NEW x, NEW t, NEW q, Grows(s, r, n, x, t, q),
         NEW st, Reads(s, r, n, st)
  PROVE  Reads(t, q, n + 1, DriveStep(st, n + 1, x))
<1>1. EndRead(s, r, n, st) /\ InputsRead(s, r, n, st) /\ SettingsRead(s, r, n, st) /\ OptionsRead(s, r, n, st)
  BY DEF Reads
<1>2. EndRead(t, q, n + 1, DriveStep(st, n + 1, x))
  BY <1>1, EndGrows
<1>3. InputsRead(t, q, n + 1, DriveStep(st, n + 1, x))
  BY <1>1, InputsGrow
<1>4. SettingsRead(t, q, n + 1, DriveStep(st, n + 1, x))
  BY <1>1, SettingsReadGrow
<1>5. OptionsRead(t, q, n + 1, DriveStep(st, n + 1, x))
  BY <1>1, OptionsGrow
<1> QED BY <1>2, <1>3, <1>4, <1>5 DEF Reads

(* st is what the driver has read of the arguments s.                      *)
Driven(s, st) == s \in Seq(Text) /\ Reads(s, Roles(s), Len(s), st)

(* A driver that has read s has, one step later, read one more.            *)
LEMMA DrivenMore ==
  ASSUME NEW s, NEW st, Driven(s, st), NEW x \in Text
  PROVE  Driven(Append(s, x), DriveStep(st, Len(s) + 1, x))
<1>1. PICK n, t, r, q : n = Len(s) /\ t = Append(s, x) /\ r = Roles(s) /\ q = Roles(t)
  OBVIOUS
<1>2. s \in Seq(Text) /\ Reads(s, r, n, st)
  BY <1>1 DEF Driven
<1>3. Grows(s, r, n, x, t, q)
  BY <1>1, <1>2, Growing
<1>4. Reads(t, q, n + 1, DriveStep(st, n + 1, x))
  BY <1>2, <1>3, DriveReads
<1>5. t \in Seq(Text) /\ Len(t) = n + 1
  BY <1>3 DEF Grows
<1> QED BY <1>1, <1>4, <1>5 DEF Driven

(* It begins with nothing read.                                            *)
LEMMA DrivenNothing == Driven(<< >>, Drive0)
<1>1. PICK s, r : s = << >> /\ r = Roles(s)
  OBVIOUS
<1>2. s \in Seq(Text) /\ DOMAIN s = {} /\ Len(s) = 0 /\ 1 .. 0 = {}
  BY <1>1
<1>3. EndRead(s, r, 0, Drive0)
  BY <1>2 DEF EndRead, Waiting, Drive0
<1>4. InputsRead(s, r, 0, Drive0)
  BY <1>2 DEF InputsRead, Drive0
<1>5. \A O : LastOption(s, r, O, 1) = 0
  <2>1. ASSUME NEW O PROVE LastOption(s, r, O, 1) = 0
    <3>1. PICK i : i = 1 /\ i \in Nat \ {0}
      OBVIOUS
    <3>2. IsLast(s, r, O, i, 0)
      BY <1>2, <3>1 DEF IsLast
    <3>3. s \in Seq(Text)
      BY <1>2
    <3>4. 0 = LastOption(s, r, O, i)
      BY <3>1, <3>2, <3>3, LastOptionIs
    <3> QED BY <3>1, <3>4
  <2> QED BY <2>1
<1>6. SettingsRead(s, r, 0, Drive0)
  <2>1. 0 + 1 = 1
    OBVIOUS
  <2>2. Named(s, r, 1) = "none" /\ Written(s, r, 1) = ""
    BY <1>5 DEF Named, Written, Setting
  <2> QED BY <2>1, <2>2 DEF SettingsRead, Drive0
<1>7. OptionsRead(s, r, 0, Drive0)
  <2>1. Positions(r, 0) = << >>
    <3>1. [i \in 1 .. 0 |-> i] = << >>
      BY <1>2
    <3> QED BY <3>1, OnlyNothing DEF Positions
  <2>2. OptionsOf(s, << >>) = << >> /\ << >> \in Seq(Settled(s, 0))
    BY DEF OptionsOf
  <2> QED BY <2>1, <2>2 DEF OptionsRead, Drive0
<1> QED BY <1>1, <1>2, <1>3, <1>4, <1>6, <1>7 DEF Driven, Reads

-----------------------------------------------------------------------------
(* Only keeps only what is kept, ...                                       *)
LEMMA OnlyKept ==
  ASSUME NEW W, NEW keep, NEW b \in Seq(W)
  PROVE  Only(b, keep) \in Seq(W \cap keep)
<1> DEFINE P == {a \in Seq(W) : Only(a, keep) \in Seq(W \cap keep)}
<1>1. << >> \in P
  <2>1. << >> \in Seq(W) /\ << >> \in Seq(W \cap keep)
    OBVIOUS
  <2>2. Only(<< >>, keep) = << >>
    BY OnlyNothing
  <2> QED BY <2>1, <2>2
<1>2. ASSUME NEW a \in Seq(W), NEW x \in W, a \in P PROVE Append(a, x) \in P
  <2>1. Append(a, x) \in Seq(W)
    OBVIOUS
  <2>2. Only(Append(a, x), keep) = IF x \in keep THEN Append(Only(a, keep), x) ELSE Only(a, keep)
    BY OnlyMore
  <2>3. Only(a, keep) \in Seq(W \cap keep)
    BY <1>2
  <2>4. Only(Append(a, x), keep) \in Seq(W \cap keep)
    BY <2>2, <2>3
  <2> QED BY <2>1, <2>4
<1> HIDE DEF P
<1>3. Seq(W) \subseteq P
  BY <1>1, <1>2, Appending
<1> QED BY <1>3 DEF P

(* ... and everything if all is.                                           *)
LEMMA OnlyAll ==
  ASSUME NEW W, NEW keep, W \subseteq keep, NEW b \in Seq(W)
  PROVE  Only(b, keep) = b
<1> DEFINE P == {a \in Seq(W) : Only(a, keep) = a}
<1>1. << >> \in P
  BY OnlyNothing
<1>2. ASSUME NEW a \in Seq(W), NEW x \in W, a \in P PROVE Append(a, x) \in P
  <2>1. Append(a, x) \in Seq(W)
    OBVIOUS
  <2>2. Only(Append(a, x), keep) = IF x \in keep THEN Append(Only(a, keep), x) ELSE Only(a, keep)
    BY OnlyMore
  <2>3. Only(a, keep) = a
    BY <1>2
  <2>4. Only(Append(a, x), keep) = Append(a, x)
    BY <2>2, <2>3
  <2> QED BY <2>1, <2>4
<1> HIDE DEF P
<1>3. Seq(W) \subseteq P
  BY <1>1, <1>2, Appending
<1> QED BY <1>3 DEF P

(* The positions of a sequence.                                            *)
LEMMA Lengths ==
  ASSUME NEW W, NEW s \in Seq(W) PROVE Len(s) \in Nat /\ DOMAIN s = 1 .. Len(s)
OBVIOUS

(* What a command means that has one input.                                *)
Spoken(compiler, language) ==
  IF language # "none" THEN language
  ELSE IF compiler \in {"c++", "clang++"} THEN "c++" ELSE "c"
Means(command, options, output, input) ==
  LET meaning == Meaning(command) IN
  /\ meaning.options = options /\ meaning.output = output
  /\ Range(meaning.inputs) = {input} /\ Cardinality(DOMAIN meaning.inputs) = 1

(* A command that a driver has read, and found one input in, means that.   *)
LEMMA MeaningIs ==
  ASSUME NEW command, NEW st, Driven(Tail(command), st), st.option = "",
         NEW p, NEW path, NEW language, st.inputs = {<<p, path, language>>}
  PROVE  Means(command, st.options, st.output, <<path, Spoken(command[1], language)>>)
<1>1. PICK s, r, n : s = Tail(command) /\ r = Roles(s) /\ n = Len(s)
  OBVIOUS
<1>2. s \in Seq(Text) /\ Reads(s, r, n, st)
  BY <1>1 DEF Driven
<1>3. n \in Nat /\ DOMAIN s = 1 .. n
  <2>1. s \in Seq(Text)
    BY <1>2
  <2>2. Len(s) \in Nat /\ DOMAIN s = 1 .. Len(s)
    BY <2>1, Lengths
  <2> QED BY <1>1, <2>2
<1> DEFINE I == {i \in DOMAIN s : r[i] = "input"}
           inputs == [i \in I |-> <<Denotes(s[i]), Spoken(command[1], Named(s, r, i))>>]
<1>4. Meaning(command).inputs = inputs
  BY <1>1 DEF Meaning, Spoken
<1>5. Meaning(command).output = Written(s, r, n + 1)
  BY <1>1 DEF Meaning
<1>6. Meaning(command).options = OptionsOf(s, Positions(r, n))
  BY <1>1, <1>3 DEF Meaning, OptionsOf, Positions
<1>7. st.output = Written(s, r, n + 1)
  <2>1. SettingsRead(s, r, n, st)
    BY <1>2 DEF Reads
  <2> QED BY <2>1 DEF SettingsRead
<1>8. st.options = OptionsOf(s, Positions(r, n))
  <2>1. OptionsRead(s, r, n, st)
    BY <1>2 DEF Reads
  <2> QED BY <2>1 DEF OptionsRead
<1>9. {<<p, path, language>>} = {<<i, Denotes(s[i]), Named(s, r, i)>> : i \in I}
  <2>1. InputsRead(s, r, n, st)
    BY <1>2 DEF Reads
  <2> QED BY <1>3, <2>1 DEF InputsRead
<1>10. I = {p} /\ Denotes(s[p]) = path /\ Named(s, r, p) = language
  <2>1. \A i \in I : <<i, Denotes(s[i]), Named(s, r, i)>> = <<p, path, language>>
    BY <1>9
  <2>2. \E i \in I : <<p, path, language>> = <<i, Denotes(s[i]), Named(s, r, i)>>
    BY <1>9
  <2> HIDE DEF I
  <2> QED BY <2>1, <2>2
<1>11. DOMAIN inputs = {p} /\ Range(inputs) = {<<path, Spoken(command[1], language)>>}
  <2> HIDE DEF I
  <2> QED BY <1>10 DEF Range
<1>12. Cardinality({p}) = 1
  BY FS_Singleton
<1> HIDE DEF inputs
<1> QED BY <1>4, <1>5, <1>6, <1>7, <1>8, <1>11, <1>12 DEF Means

-----------------------------------------------------------------------------
(* The options that a rewritten command keeps.                             *)
Kept == {o \in Seq(Text) : ~Diverts(o) /\ ~Selects(o)}

(* One way to the state of the driver, in terms of the parts of a command: *)
(* p is what command_parts and sc what original_output holds of arguments  *)
(* of which a driver has read D, and of those kept it has read E.          *)
SourceRead(file, p, D) ==
  IF p.source = "" THEN D.inputs = {}
  ELSE p.source = file /\ \E n : D.inputs = {<<n, file, p.source_language>>}
Ready(E, language) ==
  /\ E.option = "" /\ ~E.ended /\ E.inputs = {} /\ E.language = language /\ E.output = ""
Neutral(E) == Ready(E, "none")
SameState(file, p, sc, D) ==
  /\ p.file = file /\ p.option = D.option /\ p.positional = D.ended /\ p.language = D.language
  /\ sc.option = D.option /\ sc.ended = D.ended /\ sc.output = D.output
  /\ D.option \in TakesValue \cup {""} /\ (D.ended => D.option = "")
KeepsOptions(D, E) ==
  D.options \in Seq(Seq(Text)) /\ E.options = Only(D.options, Kept)
Tracks(file, p, sc, D, E) ==
  /\ p \in Parts /\ sc \in Scans /\ ~p.refused
  /\ SameState(file, p, sc, D) /\ SourceRead(file, p, D)
  /\ KeepsOptions(D, E) /\ Neutral(E) /\ Driven(p.kept, E)

Files == {"u.c", "-u.c"}

(* The classes of options: of each argument only one case applies.         *)
LEMMA OptionClasses ==
  \A x \in Dashed :
    /\ x = "--" => /\ x \notin TakesValue /\ x \notin DOMAIN joined_language
                   /\ x \notin DOMAIN joined_output /\ x \notin DROP_FLAGS /\ x \notin UNSUPPORTED
    /\ x \in TakesValue => /\ x \notin DOMAIN joined_language /\ x \notin DOMAIN joined_output
                           /\ x \notin DROP_FLAGS /\ x \notin UNSUPPORTED /\ x # "--"
    /\ x \in DOMAIN joined_language => /\ x \notin DOMAIN joined_output /\ x \notin DROP_FLAGS
                                       /\ x \notin UNSUPPORTED
    /\ x \in DOMAIN joined_output => x \notin DROP_FLAGS /\ x \notin UNSUPPORTED
    /\ x \in DROP_FLAGS => x \notin UNSUPPORTED
    /\ x \in TakesValue <=> x \in DROP_VALUES \cup VALUE_OPTIONS \cup {"-x"}
BY DEF Dashed, TakesValue, VALUE_OPTIONS, DROP_VALUES, DROP_FLAGS, UNSUPPORTED,
       joined_language, joined_output

(* command_parts, original_output and the driver stay in step.             *)
LEMMA SameStateGrows ==
  ASSUME NEW file \in Files, NEW p, NEW sc, NEW D, NEW E, Tracks(file, p, sc, D, E),
         NEW n, NEW x \in Text
  PROVE  PartStep(p, x).refused \/ SameState(file, PartStep(p, x), OutputStep(sc, x), DriveStep(D, n, x))
<1> SUFFICES ASSUME ~PartStep(p, x).refused
             PROVE  SameState(file, PartStep(p, x), OutputStep(sc, x), DriveStep(D, n, x))
  OBVIOUS
<1>1. /\ p \in Parts /\ sc \in Scans /\ ~p.refused
      /\ p.file = file /\ p.option = D.option /\ p.positional = D.ended /\ p.language = D.language
      /\ sc.option = D.option /\ sc.ended = D.ended /\ sc.output = D.output
      /\ D.option \in TakesValue \cup {""} /\ (D.ended => D.option = "")
  BY DEF Tracks, SameState
<1>2. PICK d : d = DriveStep(D, n, x)
  OBVIOUS
<1>3. PICK k : k = KindOf(D, x)
  OBVIOUS
<1>4. /\ d.ended = (D.ended \/ k = "end")
      /\ d.option = IF k = "option" /\ x \in TakesValue THEN x ELSE ""
      /\ d.language = IF k = "value" /\ D.option = "-x" THEN x
                      ELSE IF k = "option" /\ x \in DOMAIN joined_language
                           THEN joined_language[x] ELSE D.language
      /\ d.output = IF k = "value" /\ D.option = "-o" THEN x
                    ELSE IF k = "option" /\ x \in DOMAIN joined_output
                         THEN joined_output[x] ELSE D.output
  BY <1>2, <1>3 DEF DriveStep
<1>5. PICK q, sd : q = PartStep(p, x) /\ sd = OutputStep(sc, x)
  OBVIOUS
<1>6. CASE D.option # ""
  <2>1. k = "value" /\ ~D.ended
    BY <1>1, <1>3, <1>6 DEF KindOf
  <2>2. q = ValuePart(p, x)
    BY <1>1, <1>5, <1>6 DEF PartStep
  <2>3. q.file = file /\ q.option = "" /\ q.positional = FALSE
        /\ q.language = IF D.option = "-x" THEN x ELSE D.language
    <3>1. PICK next : next = [p EXCEPT !.option = ""]
      OBVIOUS
    <3>2. next.file = file /\ next.option = "" /\ next.positional = FALSE /\ next.language = D.language
          /\ next \in Parts
      <4>1. "" \in Text
        BY DEF Text
      <4> QED BY <1>1, <2>1, <3>1, <4>1 DEF Parts
    <3>3. q = CASE D.option = "-o" -> [next EXCEPT !.output = x]
                [] D.option = "-x" -> [next EXCEPT !.language = x]
                [] D.option \in VALUE_OPTIONS ->
                     IF D.option = "-Xclang" /\ unsafe_forwarded_option(x) THEN Refuse(next)
                     ELSE [next EXCEPT !.kept = @ \o <<D.option, x>>]
                [] OTHER -> next
      BY <1>1, <2>2, <3>1 DEF ValuePart
    <3>4. "-x" \notin VALUE_OPTIONS /\ "-o" \notin VALUE_OPTIONS
      BY DEF VALUE_OPTIONS
    <3>5. CASE D.option = "-o"
      <4>1. q = [next EXCEPT !.output = x]
        BY <3>3, <3>4, <3>5
      <4> QED BY <3>2, <3>5, <4>1 DEF Parts
    <3>6. CASE D.option = "-x"
      <4>1. q = [next EXCEPT !.language = x]
        BY <3>3, <3>4, <3>6
      <4> QED BY <3>2, <3>6, <4>1 DEF Parts
    <3>7. CASE D.option \in VALUE_OPTIONS
      <4>1. q = Refuse(next) \/ q = [next EXCEPT !.kept = @ \o <<D.option, x>>]
        BY <3>3, <3>4, <3>7
      <4> QED BY <3>2, <3>4, <3>7, <4>1 DEF Parts, Refuse
    <3>8. CASE D.option \notin VALUE_OPTIONS \cup {"-o", "-x"}
      <4>1. q = next
        BY <3>3, <3>8
      <4> QED BY <3>2, <3>8, <4>1
    <3> QED BY <3>5, <3>6, <3>7, <3>8
  <2>4. sd.option = "" /\ sd.ended = FALSE
        /\ sd.output = IF D.option = "-o" THEN x ELSE D.output
    BY <1>1, <1>5, <1>6, <2>1 DEF OutputStep, Scans
  <2>5. SameState(file, q, sd, d)
    BY <1>1, <1>4, <2>1, <2>3, <2>4 DEF SameState
  <2> QED BY <1>2, <1>5, <2>5
<1>7. CASE D.option = "" /\ (D.ended \/ x \notin Dashed)
  <2>1. k = "input"
    BY <1>3, <1>7 DEF KindOf, Dashed
  <2>2. q = InputPart(p, x)
    BY <1>1, <1>5, <1>7 DEF PartStep
  <2>3. q.file = file /\ q.option = "" /\ q.positional = D.ended /\ q.language = D.language
    BY <1>1, <1>7, <2>2 DEF InputPart, Parts, Refuse
  <2>4. sd = sc
    <3>1. x \notin Dashed => x # "--" /\ x \notin TakesValue /\ x \notin DOMAIN joined_output
      BY OptionNames DEF Dashed
    <3> QED BY <1>1, <1>5, <1>7, <3>1 DEF OutputStep, TakesValue
  <2>5. SameState(file, q, sd, d)
    <3>1. D.ended \in BOOLEAN
      BY <1>1 DEF Scans
    <3>2. d.ended = D.ended /\ d.option = "" /\ d.language = D.language /\ d.output = D.output
      BY <1>4, <2>1, <3>1
    <3> QED BY <1>1, <1>7, <2>3, <2>4, <3>2 DEF SameState
  <2> QED BY <1>2, <1>5, <2>5
<1>8. CASE D.option = "" /\ ~D.ended /\ x = "--"
  <2>1. k = "end"
    BY <1>3, <1>8 DEF KindOf
  <2>0. "--" \in Dashed
    BY DEF Dashed
  <2>2. q = [p EXCEPT !.positional = TRUE]
    BY <1>1, <1>5, <1>8, <2>0, OptionClasses DEF PartStep, OptionPart
  <2>3. q.file = file /\ q.option = "" /\ q.positional = TRUE /\ q.language = D.language
    BY <1>1, <1>8, <2>2 DEF Parts
  <2>4. sd.option = "" /\ sd.ended = TRUE /\ sd.output = D.output
    BY <1>1, <1>5, <1>8 DEF OutputStep, Scans
  <2>5. SameState(file, q, sd, d)
    BY <1>1, <1>4, <1>8, <2>1, <2>3, <2>4 DEF SameState
  <2> QED BY <1>2, <1>5, <2>5
<1>9. CASE D.option = "" /\ ~D.ended /\ x \in Dashed /\ x # "--"
  <2>1. k = "option"
    BY <1>3, <1>9 DEF KindOf
  <2>2. q = OptionPart(p, x)
    BY <1>1, <1>5, <1>9 DEF PartStep
  <2>3. q.file = file /\ q.positional = FALSE
        /\ q.option = (IF x \in TakesValue THEN x ELSE "")
        /\ q.language = IF x \in DOMAIN joined_language THEN joined_language[x] ELSE D.language
    <3>1. x \in TakesValue <=> x \in DROP_VALUES \cup VALUE_OPTIONS \cup {"-x"}
      BY DEF TakesValue
    <3>2. CASE x \in TakesValue
      <4>1. q = [p EXCEPT !.option = x]
        BY <1>9, <2>2, <3>1, <3>2, OptionClasses DEF OptionPart
      <4>2. x \notin DOMAIN joined_language
        BY <3>2, OptionNames
      <4> QED BY <1>1, <1>9, <3>2, <4>1, <4>2 DEF Parts
    <3>3. CASE x \notin TakesValue /\ x \in DOMAIN joined_language
      <4>1. q = [p EXCEPT !.language = joined_language[x]]
        BY <1>9, <2>2, <3>1, <3>3, OptionClasses DEF OptionPart
      <4> QED BY <1>1, <1>9, <3>3, <4>1 DEF Parts
    <3>4. CASE x \notin TakesValue /\ x \notin DOMAIN joined_language
      BY <1>1, <1>9, <2>2, <3>1, <3>4 DEF OptionPart, Parts, Refuse
    <3> QED BY <3>2, <3>3, <3>4
  <2>4. sd.ended = FALSE
        /\ sd.option = (IF x \in TakesValue THEN x ELSE "")
        /\ sd.output = IF x \in DOMAIN joined_output THEN joined_output[x] ELSE D.output
    <3>1. x \in TakesValue <=> x \in DROP_VALUES \cup VALUE_OPTIONS \cup {"-x"}
      BY DEF TakesValue
    <3>2. x \in TakesValue => x \notin DOMAIN joined_output
      BY OptionNames
    <3> QED BY <1>1, <1>5, <1>9, <3>1, <3>2 DEF OutputStep, Scans
  <2>5. x # "" => d.option = IF x \in TakesValue THEN x ELSE ""
    BY <1>4, <2>1
  <2>6. SameState(file, q, sd, d)
    BY <1>1, <1>4, <1>9, <2>1, <2>3, <2>4 DEF SameState
  <2> QED BY <1>2, <1>5, <2>6
<1> QED BY <1>6, <1>7, <1>8, <1>9

-----------------------------------------------------------------------------
(* One and two elements make a sequence.                                   *)
LEMMA Tuples ==
  ASSUME NEW W, NEW a \in W, NEW b \in W PROVE <<a>> \in Seq(W) /\ <<a, b>> \in Seq(W)
OBVIOUS

(* An argument is for command_parts what it is for a driver.               *)
PartOfKind(D, p, x) ==
  \/ KindOf(D, x) = "value" /\ D.option \in TakesValue /\ PartStep(p, x) = ValuePart(p, x)
  \/ KindOf(D, x) = "input" /\ D.option = "" /\ PartStep(p, x) = InputPart(p, x)
  \/ KindOf(D, x) = "end" /\ D.option = "" /\ PartStep(p, x) = [p EXCEPT !.positional = TRUE]
  \/ /\ KindOf(D, x) = "option" /\ D.option = "" /\ x \in Dashed /\ x # "--"
     /\ PartStep(p, x) = OptionPart(p, x)

(* In step, both take an argument for the same.                            *)
LEMMA KindOfPart ==
  ASSUME NEW file, NEW p, NEW sc, NEW D, NEW E, Tracks(file, p, sc, D, E), NEW x \in Text
  PROVE  PartOfKind(D, p, x)
<1>1. /\ p \in Parts /\ ~p.refused
      /\ p.option = D.option /\ p.positional = D.ended
      /\ D.option \in TakesValue \cup {""} /\ (D.ended => D.option = "")
  BY DEF Tracks, SameState
<1>2. "--" \in Dashed
  BY DEF Dashed
<1>3. CASE D.option # ""
  BY <1>1, <1>3 DEF PartOfKind, KindOf, PartStep
<1>4. CASE D.option = "" /\ D.ended
  BY <1>1, <1>4 DEF PartOfKind, KindOf, PartStep
<1>5. CASE D.option = "" /\ ~D.ended /\ x = "--"
  <2>1. OptionPart(p, x) = [p EXCEPT !.positional = TRUE]
    BY <1>2, <1>5, OptionClasses DEF OptionPart
  <2> QED BY <1>1, <1>2, <1>5, <2>1 DEF PartOfKind, KindOf, PartStep
<1>6. CASE D.option = "" /\ ~D.ended /\ x # "--"
  BY <1>1, <1>6 DEF PartOfKind, KindOf, PartStep
<1> QED BY <1>3, <1>4, <1>5, <1>6

(* What becomes of the value of an option, ...                             *)
LEMMA ValueParts ==
  ASSUME NEW p \in Parts, p.option \in TakesValue, NEW x \in Text, ~ValuePart(p, x).refused
  PROVE  LET q == ValuePart(p, x) IN
         /\ q.source = p.source /\ q.source_language = p.source_language
         /\ q.kept = IF <<p.option, x>> \in Kept THEN p.kept \o <<p.option, x>> ELSE p.kept
<1>1. PICK q, next, o : q = ValuePart(p, x) /\ next = [p EXCEPT !.option = ""] /\ o = p.option
  OBVIOUS
<1>2. /\ next.source = p.source /\ next.source_language = p.source_language
      /\ next.kept = p.kept /\ next \in Parts
  <2>1. "" \in Text
    BY DEF Text
  <2> QED BY <1>1, <2>1 DEF Parts
<1>3. q = CASE o = "-o" -> [next EXCEPT !.output = x]
            [] o = "-x" -> [next EXCEPT !.language = x]
            [] o \in VALUE_OPTIONS ->
                 IF o = "-Xclang" /\ unsafe_forwarded_option(x) THEN Refuse(next)
                 ELSE [next EXCEPT !.kept = @ \o <<o, x>>]
            [] OTHER -> next
  BY <1>1 DEF ValuePart
<1>4. ~q.refused /\ o \in TakesValue /\ "-x" \notin VALUE_OPTIONS /\ "-o" \notin VALUE_OPTIONS
  BY <1>1 DEF VALUE_OPTIONS
<1>5. o \in Text /\ <<o, x>> \in Seq(Text)
  <2>1. o \in Text
    BY <1>1 DEF Parts
  <2> QED BY <2>1, Tuples
<1>6. <<o, x>> \in Kept <=> /\ o \notin DROP_VALUES \cup DROP_FLAGS \cup DOMAIN joined_output
                            /\ ~(o = "-Xclang" /\ unsafe_forwarded_option(x))
                            /\ o \notin {"-x"} \cup DOMAIN joined_language
  BY <1>5 DEF Kept, Diverts, Selects
<1>7. /\ o \in VALUE_OPTIONS <=> o \notin DROP_VALUES \cup {"-x"}
      /\ o \notin DROP_FLAGS /\ o \notin DOMAIN joined_output /\ o \notin DOMAIN joined_language
      /\ "-o" \in DROP_VALUES
  BY <1>4 DEF TakesValue, VALUE_OPTIONS, DROP_VALUES, DROP_FLAGS, joined_output, joined_language
<1>8. CASE o = "-o"
  <2>1. q = [next EXCEPT !.output = x]
    BY <1>3, <1>4, <1>8
  <2> QED BY <1>1, <1>2, <1>6, <1>7, <1>8, <2>1 DEF Parts
<1>9. CASE o = "-x"
  <2>1. q = [next EXCEPT !.language = x]
    BY <1>3, <1>4, <1>9
  <2> QED BY <1>1, <1>2, <1>6, <1>9, <2>1 DEF Parts
<1>10. CASE o \in VALUE_OPTIONS
  <2>0. Refuse(next).refused
    BY <1>2 DEF Refuse, Parts
  <2>1. ~(o = "-Xclang" /\ unsafe_forwarded_option(x)) /\ q = [next EXCEPT !.kept = @ \o <<o, x>>]
    BY <1>3, <1>4, <1>10, <2>0
  <2>2. q.source = next.source /\ q.source_language = next.source_language /\ q.kept = p.kept \o <<o, x>>
    BY <1>2, <2>1 DEF Parts
  <2> QED BY <1>1, <1>2, <1>6, <1>7, <1>10, <2>1, <2>2
<1>11. CASE o \notin VALUE_OPTIONS \cup {"-o", "-x"}
  <2>1. q = next
    BY <1>3, <1>11
  <2> QED BY <1>1, <1>2, <1>6, <1>7, <1>11, <2>1
<1> QED BY <1>8, <1>9, <1>10, <1>11

(* ... and of an option.                                                   *)
LEMMA OptionParts ==
  ASSUME NEW p \in Parts, NEW x \in Dashed, x # "--", ~OptionPart(p, x).refused
  PROVE  LET q == OptionPart(p, x) IN
         /\ q.source = p.source /\ q.source_language = p.source_language
         /\ q.kept = IF x \notin TakesValue /\ <<x>> \in Kept THEN Append(p.kept, x) ELSE p.kept
<1>1. PICK q : q = OptionPart(p, x)
  OBVIOUS
<1>2. <<x>> \in Seq(Text)
  <2>1. x \in Text
    BY DEF Text
  <2> QED BY <2>1, Tuples
<1>3. x \notin TakesValue =>
        (<<x>> \in Kept <=> /\ x \notin DROP_FLAGS \cup DOMAIN joined_output
                            /\ x \notin DOMAIN joined_language)
  <2>1. <<x>>[1] = x
    OBVIOUS
  <2>2. "-Xclang" \in TakesValue /\ "-x" \in TakesValue /\ DROP_VALUES \subseteq TakesValue
    BY DEF TakesValue, VALUE_OPTIONS
  <2> QED BY <1>2, <2>1, <2>2 DEF Kept, Diverts, Selects
<1>4. CASE x \in TakesValue
  <2>1. q = [p EXCEPT !.option = x]
    BY <1>1, <1>4, OptionClasses DEF OptionPart
  <2> QED BY <1>1, <1>4, <2>1 DEF Parts
<1>5. CASE x \in DOMAIN joined_language
  <2>1. q = [p EXCEPT !.language = joined_language[x]] /\ x \notin TakesValue
    BY <1>1, <1>5, OptionClasses DEF OptionPart
  <2> QED BY <1>1, <1>3, <1>5, <2>1 DEF Parts
<1>6. CASE x \in DOMAIN joined_output
  <2>1. q = [p EXCEPT !.output = joined_output[x]] /\ x \notin TakesValue
    BY <1>1, <1>6, OptionClasses DEF OptionPart
  <2> QED BY <1>1, <1>3, <1>6, <2>1 DEF Parts
<1>7. CASE x \in DROP_FLAGS
  <2>1. q = p /\ x \notin TakesValue
    BY <1>1, <1>7, OptionClasses DEF OptionPart
  <2> QED BY <1>1, <1>3, <1>7, <2>1 DEF Parts
<1>8. CASE x \in UNSUPPORTED
  <2>1. q = Refuse(p)
    BY <1>1, <1>8, OptionClasses DEF OptionPart
  <2> QED BY <1>1, <2>1 DEF Parts, Refuse
<1>9. CASE /\ x \notin TakesValue /\ x \notin DOMAIN joined_language /\ x \notin DOMAIN joined_output
           /\ x \notin DROP_FLAGS /\ x \notin UNSUPPORTED
  <2>1. q = [p EXCEPT !.kept = Append(@, x)]
    BY <1>1, <1>9, OptionClasses DEF OptionPart
  <2> QED BY <1>1, <1>3, <1>9, <2>1 DEF Parts
<1> QED BY <1>4, <1>5, <1>6, <1>7, <1>8, <1>9

(* One source is found, by both.                                           *)
LEMMA SourceGrows ==
  ASSUME NEW file \in Files, NEW p, NEW sc, NEW D, NEW E, Tracks(file, p, sc, D, E),
         NEW n, NEW x \in Text, ~PartStep(p, x).refused
  PROVE  SourceRead(file, PartStep(p, x), DriveStep(D, n, x))
<1>1. /\ p \in Parts /\ p.file = file /\ p.language = D.language /\ p.option = D.option
      /\ SourceRead(file, p, D)
  BY DEF Tracks, SameState
<1>2. PICK d, q : d = DriveStep(D, n, x) /\ q = PartStep(p, x)
  OBVIOUS
<1>3. d.inputs = D.inputs \cup {i \in {<<n, Denotes(x), D.language>>} : KindOf(D, x) = "input"}
  BY <1>2 DEF DriveStep
<1>4. ASSUME KindOf(D, x) # "input", q.source = p.source, q.source_language = p.source_language
      PROVE  SourceRead(file, q, d)
  <2>1. d.inputs = D.inputs
    BY <1>3, <1>4
  <2> QED BY <1>1, <1>4, <2>1 DEF SourceRead
<1>5. CASE KindOf(D, x) = "value" /\ D.option \in TakesValue /\ q = ValuePart(p, x)
  BY <1>1, <1>2, <1>4, <1>5, ValueParts
<1>6. CASE KindOf(D, x) = "input" /\ q = InputPart(p, x)
  <2>0. Refuse(p).refused
    BY <1>1 DEF Refuse, Parts
  <2>1. x = file /\ p.source = "" /\ q = [p EXCEPT !.source = x, !.source_language = p.language]
    BY <1>1, <1>2, <1>6, <2>0 DEF InputPart
  <2>2. D.inputs = {} /\ Denotes(x) = file /\ file # ""
    BY <1>1, <2>1 DEF SourceRead, Files, Denotes
  <2>3. d.inputs = {<<n, file, D.language>>}
    BY <1>3, <1>6, <2>2
  <2>4. q.source = file /\ q.source_language = D.language
    BY <1>1, <2>1 DEF Parts
  <2>5. SourceRead(file, q, d)
    BY <2>2, <2>3, <2>4 DEF SourceRead
  <2> QED BY <1>2, <2>5
<1>7. CASE KindOf(D, x) = "end" /\ q = [p EXCEPT !.positional = TRUE]
  <2>1. q.source = p.source /\ q.source_language = p.source_language
    BY <1>1, <1>7 DEF Parts
  <2> QED BY <1>2, <1>4, <1>7, <2>1
<1>8. CASE KindOf(D, x) = "option" /\ x \in Dashed /\ x # "--" /\ q = OptionPart(p, x)
  BY <1>1, <1>2, <1>4, <1>8, OptionParts
<1>9. \/ KindOf(D, x) = "value" /\ D.option \in TakesValue /\ q = ValuePart(p, x)
      \/ KindOf(D, x) = "input" /\ q = InputPart(p, x)
      \/ KindOf(D, x) = "end" /\ q = [p EXCEPT !.positional = TRUE]
      \/ KindOf(D, x) = "option" /\ x \in Dashed /\ x # "--" /\ q = OptionPart(p, x)
  <2>1. PartOfKind(D, p, x)
    BY KindOfPart
  <2> QED BY <1>2, <2>1 DEF PartOfKind
<1> QED BY <1>5, <1>6, <1>7, <1>8, <1>9

-----------------------------------------------------------------------------
(* An option by itself, and one with its value, leave a driver as it was.  *)
Flag(x) ==
  x \in Dashed /\ x # "--" /\ x \notin TakesValue /\ x \notin DOMAIN joined_language /\ x \notin DOMAIN joined_output
(* An option by itself is read at once, ...                                *)
LEMMA FlagIsRead ==
  ASSUME NEW E, NEW l, Ready(E, l), NEW n, NEW x, Flag(x)
  PROVE  /\ Ready(DriveStep(E, n, x), l)
         /\ DriveStep(E, n, x).options = Append(E.options, <<x>>)
<1>1. KindOf(E, x) = "option"
  BY DEF KindOf, Flag, Ready
<1>2. PICK F : F = DriveStep(E, n, x)
  OBVIOUS
<1>3. /\ F.ended = (E.ended \/ FALSE) /\ F.option = "" /\ F.language = E.language /\ F.output = E.output
      /\ F.inputs = E.inputs /\ F.options = Append(E.options, <<x>>)
  BY <1>1, <1>2 DEF DriveStep, Flag
<1> QED BY <1>2, <1>3 DEF Ready

(* ... and one with its value in two steps.                                *)
LEMMA ValueIsRead ==
  ASSUME NEW E, NEW l, Ready(E, l), NEW n, NEW o \in TakesValue, o \notin {"-x", "-o"}, NEW m, NEW x
  PROVE  LET F == DriveStep(DriveStep(E, n, o), m, x)
         IN Ready(F, l) /\ F.options = Append(E.options, <<o, x>>)
<1>1. KindOf(E, o) = "option"
  BY OptionNames DEF KindOf, Ready
<1>2. PICK F : F = DriveStep(E, n, o)
  OBVIOUS
<1>3. o \notin DOMAIN joined_language /\ o \notin DOMAIN joined_output /\ o # ""
  BY OptionNames
<1>4. /\ F.ended = (E.ended \/ FALSE) /\ F.option = o /\ F.language = E.language /\ F.output = E.output
      /\ F.inputs = E.inputs /\ F.options = E.options
  BY <1>1, <1>2, <1>3 DEF DriveStep
<1>5. KindOf(F, x) = "value"
  BY <1>3, <1>4 DEF KindOf
<1>6. PICK G : G = DriveStep(F, m, x)
  OBVIOUS
<1>7. /\ G.ended = (F.ended \/ FALSE) /\ G.option = "" /\ G.language = F.language /\ G.output = F.output
      /\ G.inputs = F.inputs /\ G.options = Append(F.options, <<o, x>>)
  BY <1>4, <1>5, <1>6 DEF DriveStep
<1> QED BY <1>2, <1>4, <1>6, <1>7 DEF Ready

(* A driver that is ready can read b, and finds one option more than E.   *)
Extends(b, E, l, option) ==
  \E F : Driven(b, F) /\ Ready(F, l) /\ F.options = Append(E.options, option)

LEMMA DrivenFlag ==
  ASSUME NEW a, NEW E, NEW l, Driven(a, E), Ready(E, l), NEW x \in Text, Flag(x)
  PROVE  Extends(Append(a, x), E, l, <<x>>)
<1>1. PICK F : F = DriveStep(E, Len(a) + 1, x)
  OBVIOUS
<1>2. Driven(Append(a, x), F)
  BY <1>1, DrivenMore
<1>3. Ready(F, l) /\ F.options = Append(E.options, <<x>>)
  BY <1>1, FlagIsRead
<1> QED BY <1>2, <1>3 DEF Extends

LEMMA DrivenPair ==
  ASSUME NEW a, NEW E, NEW l, Driven(a, E), Ready(E, l),
         NEW o \in TakesValue, o \notin {"-x", "-o"}, NEW x \in Text
  PROVE  Extends(Append(Append(a, o), x), E, l, <<o, x>>)
<1>0. o \in Text
  BY DEF Text, TakesValue, Dashed
<1>1. PICK F : F = DriveStep(E, Len(a) + 1, o)
  OBVIOUS
<1>2. Driven(Append(a, o), F)
  BY <1>0, <1>1, DrivenMore
<1>3. PICK b : b = Append(a, o)
  OBVIOUS
<1>4. PICK G : G = DriveStep(F, Len(b) + 1, x)
  OBVIOUS
<1>5. Driven(Append(b, x), G)
  BY <1>2, <1>3, <1>4, DrivenMore
<1>6. Ready(G, l) /\ G.options = Append(E.options, <<o, x>>)
  BY <1>1, <1>4, ValueIsRead
<1> QED BY <1>3, <1>5, <1>6 DEF Extends

(* The options that are kept are those the driver has read of them.        *)
LEMMA KeepsGrow ==
  ASSUME NEW file \in Files, NEW p, NEW sc, NEW D, NEW E, Tracks(file, p, sc, D, E),
         NEW n, NEW x \in Text, ~PartStep(p, x).refused
  PROVE  \E F : /\ KeepsOptions(DriveStep(D, n, x), F) /\ Neutral(F)
                /\ Driven(PartStep(p, x).kept, F)
<1>1. /\ p \in Parts /\ p.option = D.option
      /\ D.options \in Seq(Seq(Text)) /\ E.options = Only(D.options, Kept)
      /\ Neutral(E) /\ Driven(p.kept, E) /\ p.kept \in Seq(Text)
  BY DEF Tracks, SameState, KeepsOptions, Parts
<1>2. PICK d, q : d = DriveStep(D, n, x) /\ q = PartStep(p, x)
  OBVIOUS
<1>3. d.options = IF KindOf(D, x) = "value" THEN Append(D.options, <<D.option, x>>)
                  ELSE IF KindOf(D, x) = "option" /\ x \notin TakesValue THEN Append(D.options, <<x>>)
                  ELSE D.options
  BY <1>2 DEF DriveStep
<1>4. ASSUME q.kept = p.kept, d.options = D.options
      PROVE  \E F : KeepsOptions(d, F) /\ Neutral(F) /\ Driven(q.kept, F)
  BY <1>1, <1>4 DEF KeepsOptions
<1>5. ASSUME NEW option \in Seq(Text), d.options = Append(D.options, option), NEW F, Neutral(F), Driven(q.kept, F),
             F.options = IF option \in Kept THEN Append(E.options, option) ELSE E.options
      PROVE  \E G : KeepsOptions(d, G) /\ Neutral(G) /\ Driven(q.kept, G)
  <2>1. D.options \in Seq(Seq(Text))
    BY <1>1
  <2>2. PICK W, b : W = Seq(Text) /\ b = D.options /\ b \in Seq(W) /\ option \in W
    BY <2>1
  <2>3. Append(b, option) \in Seq(W)
    BY <2>2
  <2>4. Only(Append(b, option), Kept) =
          IF option \in Kept THEN Append(Only(b, Kept), option) ELSE Only(b, Kept)
    <3>1. b \in Seq(W) /\ option \in W
      BY <2>2
    <3> QED BY <3>1, OnlyMore
  <2>5. KeepsOptions(d, F)
    BY <1>1, <1>5, <2>2, <2>3, <2>4 DEF KeepsOptions
  <2> QED BY <1>5, <2>5
<1>6. CASE KindOf(D, x) = "value" /\ D.option \in TakesValue /\ q = ValuePart(p, x)
  <2>1. PICK o : o = D.option
    OBVIOUS
  <2>2. o \in TakesValue /\ o \in Text
    BY <1>6, <2>1 DEF Text, TakesValue, Dashed
  <2>3. <<o, x>> \in Seq(Text)
    BY <2>2, Tuples
  <2>4. q.kept = IF <<o, x>> \in Kept THEN p.kept \o <<o, x>> ELSE p.kept
    BY <1>1, <1>2, <1>6, <2>1, ValueParts
  <2>5. d.options = Append(D.options, <<o, x>>)
    BY <1>3, <1>6, <2>1
  <2>6. CASE <<o, x>> \in Kept
    <3>1. o \notin {"-x", "-o"}
      BY <2>6 DEF Kept, Selects, Diverts, DROP_VALUES
    <3>2. PICK F : /\ Driven(Append(Append(p.kept, o), x), F) /\ Neutral(F)
                   /\ F.options = Append(E.options, <<o, x>>)
      <4>1. PICK a : a = p.kept
        OBVIOUS
      <4>2. Driven(a, E) /\ Ready(E, "none")
        BY <1>1, <4>1 DEF Neutral
      <4>3. o \in TakesValue
        BY <2>2
      <4>4. Extends(Append(Append(a, o), x), E, "none", <<o, x>>)
        BY <3>1, <4>2, <4>3, DrivenPair
      <4> QED BY <4>1, <4>4 DEF Extends, Neutral
    <3>3. p.kept \o <<o, x>> = Append(Append(p.kept, o), x)
      BY <1>1, <2>2
    <3> QED BY <1>2, <1>5, <2>3, <2>4, <2>5, <2>6, <3>2, <3>3
  <2>7. CASE <<o, x>> \notin Kept
    BY <1>1, <1>2, <1>5, <2>3, <2>4, <2>5, <2>7
  <2> QED BY <2>6, <2>7
<1>7. CASE KindOf(D, x) = "input" /\ q = InputPart(p, x)
  <2>1. q.kept = p.kept
    BY <1>1, <1>7 DEF InputPart, Refuse, Parts
  <2> QED BY <1>2, <1>3, <1>4, <1>7, <2>1
<1>8. CASE KindOf(D, x) = "end" /\ q = [p EXCEPT !.positional = TRUE]
  <2>1. q.kept = p.kept
    BY <1>1, <1>8 DEF Parts
  <2> QED BY <1>2, <1>3, <1>4, <1>8, <2>1
<1>9. CASE KindOf(D, x) = "option" /\ x \in Dashed /\ x # "--" /\ q = OptionPart(p, x)
  <2>1. q.kept = IF x \notin TakesValue /\ <<x>> \in Kept THEN Append(p.kept, x) ELSE p.kept
    BY <1>1, <1>2, <1>9, OptionParts
  <2>2. CASE x \in TakesValue
    BY <1>2, <1>3, <1>4, <1>9, <2>1, <2>2
  <2>3. CASE x \notin TakesValue /\ <<x>> \in Kept
    <3>1. Flag(x)
      <4>1. <<x>>[1] = x
        OBVIOUS
      <4> QED BY <1>9, <2>3, <4>1 DEF Kept, Selects, Diverts, Flag
    <3>2. PICK F : Driven(Append(p.kept, x), F) /\ Neutral(F) /\ F.options = Append(E.options, <<x>>)
      <4>1. Extends(Append(p.kept, x), E, "none", <<x>>)
        BY <1>1, <3>1, DrivenFlag DEF Neutral
      <4> QED BY <4>1 DEF Extends, Neutral
    <3>3. <<x>> \in Seq(Text)
      BY Tuples
    <3> QED BY <1>2, <1>3, <1>5, <1>9, <2>1, <2>3, <3>2, <3>3
  <2>4. CASE x \notin TakesValue /\ <<x>> \notin Kept
    <3>3. <<x>> \in Seq(Text)
      BY Tuples
    <3> QED BY <1>1, <1>2, <1>3, <1>5, <1>9, <2>1, <2>4, <3>3
  <2> QED BY <2>2, <2>3, <2>4
<1>10. \/ KindOf(D, x) = "value" /\ D.option \in TakesValue /\ q = ValuePart(p, x)
       \/ KindOf(D, x) = "input" /\ q = InputPart(p, x)
       \/ KindOf(D, x) = "end" /\ q = [p EXCEPT !.positional = TRUE]
       \/ KindOf(D, x) = "option" /\ x \in Dashed /\ x # "--" /\ q = OptionPart(p, x)
  <2>1. PartOfKind(D, p, x)
    BY KindOfPart
  <2> QED BY <1>2, <2>1 DEF PartOfKind
<1> QED BY <1>6, <1>7, <1>8, <1>9, <1>10

-----------------------------------------------------------------------------
(* What command_parts and original_output know of arguments that are not   *)
(* refused, a driver knows.                                                *)
Tracked(file, a) ==
  Read(file, a).refused \/ \E D, E : Driven(a, D) /\ Tracks(file, Read(file, a), Scan(a), D, E)

(* A refusal is for good.                                                  *)
LEMMA RefusedStays == ASSUME NEW p, p.refused, NEW x PROVE PartStep(p, x).refused
BY DEF PartStep

(* They stay in step, and the driver of the kept arguments with them.      *)
LEMMA TracksGrow ==
  ASSUME NEW file \in Files, NEW p, NEW sc, NEW D, NEW E, Tracks(file, p, sc, D, E),
         NEW n, NEW x \in Text, ~PartStep(p, x).refused
  PROVE  \E F : Tracks(file, PartStep(p, x), OutputStep(sc, x), DriveStep(D, n, x), F)
<1>1. PICK d, q, sd : d = DriveStep(D, n, x) /\ q = PartStep(p, x) /\ sd = OutputStep(sc, x)
  OBVIOUS
<1>2. q \in Parts /\ sd \in Scans
  <2>1. p \in Parts /\ sc \in Scans
    BY DEF Tracks
  <2> QED BY <1>1, <2>1, PartsTyped, ScanTyped
<1>3. SameState(file, q, sd, d)
  BY <1>1, SameStateGrows
<1>4. SourceRead(file, q, d)
  BY <1>1, SourceGrows
<1>5. PICK F : KeepsOptions(d, F) /\ Neutral(F) /\ Driven(q.kept, F)
  BY <1>1, KeepsGrow
<1>6. Tracks(file, q, sd, d, F)
  BY <1>1, <1>2, <1>3, <1>4, <1>5 DEF Tracks
<1> QED BY <1>1, <1>6

(* So they are in step at the end of all arguments.                        *)
LEMMA AllTracked ==
  ASSUME NEW file \in Files PROVE \A a \in Seq(Text) : Tracked(file, a)
<1> DEFINE P == {a \in Seq(Text) : Tracked(file, a)}
<1>0. file \in Text /\ Parts0(file) \in Parts
  <2>1. file \in Text
    BY DEF Files, Text, Dashed
  <2> QED BY <2>1, PartsTyped
<1>1. << >> \in P
  <2>1. PICK p, sc : p = Parts0(file) /\ sc = Scan0
    OBVIOUS
  <2>2. Read(file, << >>) = p /\ Scan(<< >>) = sc
    BY <1>0, <2>1, ReadSteps, ScanSteps
  <2>3. p \in Parts /\ sc \in Scans
    BY <1>0, <2>1, ScanTyped
  <2>4. SameState(file, p, sc, Drive0) /\ SourceRead(file, p, Drive0) /\ Neutral(Drive0)
    BY <2>1 DEF Parts0, Scan0, Drive0, SameState, SourceRead, Neutral, Ready
  <2>5. KeepsOptions(Drive0, Drive0)
    <3>1. Only(<< >>, Kept) = << >>
      BY OnlyNothing
    <3> QED BY <3>1 DEF KeepsOptions, Drive0
  <2>6. p.kept = << >> /\ ~p.refused
    BY <2>1 DEF Parts0
  <2>7. Driven(<< >>, Drive0)
    BY DrivenNothing
  <2>8. Tracks(file, p, sc, Drive0, Drive0)
    BY <2>3, <2>4, <2>5, <2>6, <2>7 DEF Tracks
  <2>9. Tracked(file, << >>)
    BY <2>2, <2>7, <2>8 DEF Tracked
  <2>10. << >> \in Seq(Text)
    OBVIOUS
  <2> QED BY <2>9, <2>10
<1>2. ASSUME NEW a \in Seq(Text), NEW x \in Text, a \in P PROVE Append(a, x) \in P
  <2>1. PICK b, p, sc, q, sd : /\ b = Append(a, x) /\ p = Read(file, a) /\ sc = Scan(a)
                               /\ q = Read(file, b) /\ sd = Scan(b)
    OBVIOUS
  <2>2. q = PartStep(p, x)
    BY <1>0, <2>1, ReadSteps
  <2>3. sd = OutputStep(sc, x)
    BY <2>1, ScanSteps
  <2>4. Tracked(file, a)
    BY <1>2
  <2>8. Tracked(file, b)
    <3>5. CASE p.refused
      BY <2>1, <2>2, <3>5, RefusedStays DEF Tracked
    <3>6. CASE ~p.refused /\ ~q.refused
      <4>1. PICK D, E : Driven(a, D) /\ Tracks(file, p, sc, D, E)
        BY <2>1, <2>4, <3>6 DEF Tracked
      <4>2. PICK d : d = DriveStep(D, Len(a) + 1, x)
        OBVIOUS
      <4>3. Driven(b, d)
        <5>1. Driven(a, D)
          BY <4>1
        <5> QED BY <2>1, <4>2, <5>1, DrivenMore
      <4>4. \E F : Tracks(file, q, sd, d, F)
        <5>1. Tracks(file, p, sc, D, E) /\ ~PartStep(p, x).refused
          BY <2>2, <3>6, <4>1
        <5>2. \E F : Tracks(file, PartStep(p, x), OutputStep(sc, x), DriveStep(D, Len(a) + 1, x), F)
          BY <5>1, TracksGrow
        <5> QED BY <2>2, <2>3, <4>2, <5>2
      <4> QED BY <2>1, <4>3, <4>4 DEF Tracked
    <3>7. CASE q.refused
      BY <2>1, <3>7 DEF Tracked
    <3> QED BY <3>5, <3>6, <3>7
  <2>9. b \in Seq(Text)
    BY <2>1
  <2> QED BY <2>1, <2>8, <2>9
<1> HIDE DEF P
<1>3. Seq(Text) \subseteq P
  BY <1>1, <1>2, Appending
<1> QED BY <1>3 DEF P

-----------------------------------------------------------------------------
(* The end of the rewritten command, and the language before it.           *)
Sources == {"u.c", "./-u.c"}
WithOptions(a) ==
  Append(Append(Append(Append(Append(a, "-Xclang"), "-no-opaque-pointers"), "-g"),
                "-emit-llvm"), "-c")
WithOutput(a, source) == Append(Append(Append(a, source), "-o"), "unit.bc")
OptionsEnd(options) ==
  Append(Append(Append(Append(options, <<"-Xclang", "-no-opaque-pointers">>), <<"-g">>),
                <<"-emit-llvm">>), <<"-c">>)

(* A driver reads b, has kept the options o and found no input.            *)
HasRead(b, l, o) == \E F : Driven(b, F) /\ Ready(F, l) /\ F.options = o

(* What is read with an option more, and with one and its value.           *)
LEMMA MoreIsRead ==
  ASSUME NEW b, NEW l, NEW o, HasRead(b, l, o)
  PROVE  /\ \A x \in Text : Flag(x) => HasRead(Append(b, x), l, Append(o, <<x>>))
         /\ \A v \in TakesValue : v \notin {"-x", "-o"} =>
              \A x \in Text : HasRead(Append(Append(b, v), x), l, Append(o, <<v, x>>))
<1>1. PICK E : Driven(b, E) /\ Ready(E, l) /\ E.options = o
  BY DEF HasRead
<1>2. ASSUME NEW x \in Text, Flag(x) PROVE HasRead(Append(b, x), l, Append(o, <<x>>))
  <2>1. Driven(b, E) /\ Ready(E, l)
    BY <1>1
  <2>2. Extends(Append(b, x), E, l, <<x>>)
    BY <1>2, <2>1, DrivenFlag
  <2> QED BY <1>1, <2>2 DEF Extends, HasRead
<1>3. ASSUME NEW v \in TakesValue, v \notin {"-x", "-o"}, NEW x \in Text
      PROVE  HasRead(Append(Append(b, v), x), l, Append(o, <<v, x>>))
  <2>1. Driven(b, E) /\ Ready(E, l)
    BY <1>1
  <2>2. Extends(Append(Append(b, v), x), E, l, <<v, x>>)
    BY <1>3, <2>1, DrivenPair
  <2> QED BY <1>1, <2>2 DEF Extends, HasRead
<1> QED BY <1>2, <1>3

(* The options at the end of the command, and their kinds.                 *)
LEMMA EndNames ==
  /\ "-Xclang" \in TakesValue /\ "-Xclang" \notin {"-x", "-o"} /\ "-no-opaque-pointers" \in Text
  /\ \A x \in {"-g", "-emit-llvm", "-c"} : x \in Text /\ Flag(x)
  /\ "-x" \in TakesValue /\ "-o" \in TakesValue /\ "-x" # "" /\ "-o" # ""
  /\ "-x" \in Text /\ "-o" \in Text /\ "unit.bc" \in Text /\ Sources \subseteq Text
BY DEF TakesValue, Text, Dashed, Flag, VALUE_OPTIONS, DROP_VALUES, DROP_FLAGS, UNSUPPORTED,
       joined_language, joined_output, Sources

(* The options added before the source are read as options.                *)
LEMMA OptionsAreRead ==
  ASSUME NEW b, NEW l, NEW o, HasRead(b, l, o)
  PROVE  HasRead(WithOptions(b), l, OptionsEnd(o))
<1>1. PICK b1, o1 : b1 = Append(Append(b, "-Xclang"), "-no-opaque-pointers")
                    /\ o1 = Append(o, <<"-Xclang", "-no-opaque-pointers">>)
  OBVIOUS
<1>2. HasRead(b1, l, o1)
  BY <1>1, EndNames, MoreIsRead
<1>3. PICK b2, o2 : b2 = Append(b1, "-g") /\ o2 = Append(o1, <<"-g">>)
  OBVIOUS
<1>4. HasRead(b2, l, o2)
  BY <1>2, <1>3, EndNames, MoreIsRead
<1>5. PICK b3, o3 : b3 = Append(b2, "-emit-llvm") /\ o3 = Append(o2, <<"-emit-llvm">>)
  OBVIOUS
<1>6. HasRead(b3, l, o3)
  BY <1>4, <1>5, EndNames, MoreIsRead
<1>7. HasRead(Append(b3, "-c"), l, Append(o3, <<"-c">>))
  BY <1>6, EndNames, MoreIsRead
<1> QED BY <1>1, <1>3, <1>5, <1>7 DEF WithOptions, OptionsEnd

(* A language given is the one in force.                                   *)
LEMMA LanguageIsRead ==
  ASSUME NEW b, NEW o, HasRead(b, "none", o), NEW l \in Text
  PROVE  HasRead(Append(Append(b, "-x"), l), l, Append(o, <<"-x", l>>))
<1>1. PICK E : Driven(b, E) /\ Ready(E, "none") /\ E.options = o
  BY DEF HasRead
<1>2. PICK F, c : F = DriveStep(E, Len(b) + 1, "-x") /\ c = Append(b, "-x")
  OBVIOUS
<1>3. Driven(c, F)
  <2>1. Driven(b, E)
    BY <1>1
  <2> QED BY <1>2, <2>1, EndNames, DrivenMore
<1>4. PICK G : G = DriveStep(F, Len(c) + 1, l)
  OBVIOUS
<1>5. Driven(Append(c, l), G)
  BY <1>3, <1>4, DrivenMore
<1>6. KindOf(E, "-x") = "option"
  <2>1. "-x" \in Dashed /\ "-x" # "--"
    BY DEF Dashed
  <2> QED BY <1>1, <2>1 DEF KindOf, Ready
<1>7. /\ F.ended = (E.ended \/ FALSE) /\ F.option = "-x" /\ F.output = E.output
      /\ F.inputs = E.inputs /\ F.options = E.options
  <2>1. "-x" \notin DOMAIN joined_output
    BY EndNames, OptionNames
  <2> QED BY <1>2, <1>6, <2>1, EndNames DEF DriveStep
<1>8. KindOf(F, l) = "value"
  BY <1>7, EndNames DEF KindOf
<1>9. /\ G.ended = (F.ended \/ FALSE) /\ G.option = "" /\ G.language = l /\ G.output = F.output
      /\ G.inputs = F.inputs /\ G.options = Append(F.options, <<"-x", l>>)
  BY <1>4, <1>7, <1>8 DEF DriveStep
<1>10. Ready(G, l) /\ G.options = Append(o, <<"-x", l>>)
  BY <1>1, <1>7, <1>9 DEF Ready
<1> QED BY <1>2, <1>5, <1>10 DEF HasRead

(* The driver has read b: its options o, one input and the output unit.bc. *)
IsRead(b, o, path, l) ==
  \E G : /\ Driven(b, G) /\ G.option = "" /\ G.options = o /\ G.output = "unit.bc"
         /\ \E m : G.inputs = {<<m, path, l>>}

(* The source is the input, and unit.bc the output.                        *)
LEMMA OutputIsRead ==
  ASSUME NEW b, NEW l, NEW o, HasRead(b, l, o), NEW source \in Sources
  PROVE  IsRead(WithOutput(b, source), Append(o, <<"-o", "unit.bc">>), Denotes(source), l)
<1>1. PICK E : Driven(b, E) /\ Ready(E, l) /\ E.options = o
  BY DEF HasRead
<1>2. PICK F, c, n : F = DriveStep(E, n, source) /\ c = Append(b, source) /\ n = Len(b) + 1
  OBVIOUS
<1>3. Driven(c, F)
  <2>1. Driven(b, E) /\ source \in Text
    BY <1>1, EndNames
  <2> QED BY <1>2, <2>1, DrivenMore
<1>4. PICK G, d : G = DriveStep(F, Len(c) + 1, "-o") /\ d = Append(c, "-o")
  OBVIOUS
<1>5. Driven(d, G)
  BY <1>3, <1>4, EndNames, DrivenMore
<1>6. PICK H : H = DriveStep(G, Len(d) + 1, "unit.bc")
  OBVIOUS
<1>7. Driven(Append(d, "unit.bc"), H)
  BY <1>5, <1>6, EndNames, DrivenMore
<1>8. KindOf(E, source) = "input"
  <2>1. source \notin Dashed /\ source # "--"
    BY DEF Dashed, Sources, VALUE_OPTIONS, DROP_VALUES, DROP_FLAGS, UNSUPPORTED
  <2> QED BY <1>1, <2>1 DEF KindOf, Ready
<1>9. /\ F.ended = (E.ended \/ FALSE) /\ F.option = "" /\ F.options = o
      /\ F.inputs = {<<n, Denotes(source), l>>}
  BY <1>1, <1>2, <1>8 DEF DriveStep, Ready
<1>10. KindOf(F, "-o") = "option"
  <2>1. "-o" \in Dashed /\ "-o" # "--"
    BY DEF Dashed, DROP_VALUES
  <2>2. ~F.ended
    BY <1>1, <1>9 DEF Ready
  <2> QED BY <1>9, <2>1, <2>2 DEF KindOf
<1>11. G.option = "-o" /\ G.options = o /\ G.inputs = F.inputs
  BY <1>4, <1>9, <1>10, EndNames DEF DriveStep
<1>12. KindOf(G, "unit.bc") = "value"
  BY <1>11, EndNames DEF KindOf
<1>13. H.option = "" /\ H.options = Append(o, <<"-o", "unit.bc">>) /\ H.inputs = G.inputs /\ H.output = "unit.bc"
  BY <1>6, <1>11, <1>12 DEF DriveStep
<1> QED BY <1>2, <1>4, <1>7, <1>9, <1>11, <1>13 DEF IsRead, WithOutput

-----------------------------------------------------------------------------
(* The command of compile_command, argument by argument.                   *)
LEMMA Ends5 ==
  ASSUME NEW W, NEW s \in Seq(W), NEW x1 \in W, NEW x2 \in W, NEW x3 \in W, NEW x4 \in W, NEW x5 \in W
  PROVE  s \o <<x1, x2, x3, x4, x5>> = Append(Append(Append(Append(Append(s, x1), x2), x3), x4), x5)
OBVIOUS

LEMMA Ends3 ==
  ASSUME NEW W, NEW s \in Seq(W), NEW x1 \in W, NEW x2 \in W, NEW x3 \in W
  PROVE  s \o <<x1, x2, x3>> = Append(Append(Append(s, x1), x2), x3)
OBVIOUS

LEMMA Ends2 ==
  ASSUME NEW W, NEW s \in Seq(W), NEW x1 \in W, NEW x2 \in W
  PROVE  s \o <<x1, x2>> = Append(Append(s, x1), x2)
OBVIOUS

LEMMA AppendBehind ==
  ASSUME NEW W, NEW c \in W, NEW s \in Seq(W), NEW x \in W
  PROVE  Append(<<c>> \o s, x) = <<c>> \o Append(s, x)
OBVIOUS

LEMMA TailBehind ==
  ASSUME NEW W, NEW c \in W, NEW s \in Seq(W)
  PROVE  Tail(<<c>> \o s) = s /\ (<<c>> \o s)[1] = c
OBVIOUS

LEMMA SeqOfMore ==
  ASSUME NEW V, NEW W, V \subseteq W, NEW a \in Seq(V) PROVE a \in Seq(W)
OBVIOUS

Inserted(t, i) == SubSeq(t, 1, Len(t) - 5) \o i \o SubSeq(t, Len(t) - 5 + 1, Len(t))

(* What is inserted is before the last five.                               *)
LEMMA InsertBefore ==
  ASSUME NEW W, NEW s \in Seq(W), s # << >>, NEW e \in Seq(W), Len(e) = 5, NEW i \in Seq(W)
  PROVE  Inserted(s \o e, i) = (s \o i) \o e
<1>0. Len(s) \in Nat /\ Len(s) # 0
  <2>1. s \in Seq(W) /\ s # << >>
    OBVIOUS
  <2> QED BY <2>1, EmptySeq, LenProperties
<1>9. PICK t, k : t = s \o e /\ k = Len(s)
  OBVIOUS
<1>1. t = s \o e /\ k = Len(s) /\ k \in Nat /\ k > 0
  BY <1>0, <1>9
<1>2. t \in Seq(W) /\ Len(t) = k + 5 /\ Len(t) - 5 = k
  <2>1. s \o e \in Seq(W) /\ Len(s \o e) = Len(s) + Len(e)
    BY ConcatProperties
  <2> QED BY <1>1, <2>1
<1>3. SubSeq(t, 1, k) = s
  <2>1. SubSeq(s \o e, 1, k) = SubSeq(s, 1, k)
    <3>1. 1 \in 1 .. Len(s) /\ k \in 1 .. Len(s)
      BY <1>1
    <3> QED BY <3>1, SubSeqOfConcat1
  <2>2. SubSeq(s, 1, k) = s
    BY <1>1, SubSeqFull
  <2> QED BY <1>1, <2>1, <2>2
<1>4. SubSeq(t, k + 1, k + 5) = e
  <2>1. SubSeq(s \o e, k + 1, k + 5) = SubSeq(e, (k + 1) - Len(s), (k + 5) - Len(s))
    <3>1. k + 1 \in Len(s) + 1 .. Len(s) + Len(e) /\ k + 5 \in Len(s) + 1 .. Len(s) + Len(e)
      BY <1>1
    <3> QED BY <3>1, SubSeqOfConcat2
  <2>2. (k + 1) - Len(s) = 1 /\ (k + 5) - Len(s) = Len(e)
    BY <1>1
  <2>3. SubSeq(e, 1, Len(e)) = e
    BY SubSeqFull
  <2> QED BY <1>1, <2>1, <2>2, <2>3
<1> QED BY <1>1, <1>2, <1>3, <1>4 DEF Inserted

All == Text \cup {"clang", "clang++"}

CommandOf(c, kept, s, source) ==
  Inserted(((<<c>> \o kept) \o s) \o <<"-emit-llvm", "-c", source, "-o", "unit.bc">>, TypedPointers)
HasParts(command, c, kept, s, source) ==
  Tail(command) = WithOutput(WithOptions(kept \o s), source) /\ command[1] = c

(* The command has these parts.                                            *)
LEMMA CommandIs ==
  ASSUME NEW c \in {"clang", "clang++"}, NEW kept \in Seq(Text), NEW s \in Seq(Text), NEW source \in Sources
  PROVE  HasParts(CommandOf(c, kept, s, source), c, kept, s, source)
<1>1. PICK b, W : b = kept \o s /\ W = All
  OBVIOUS
<1>2. /\ c \in W /\ b \in Seq(W) /\ kept \in Seq(W) /\ s \in Seq(W)
      /\ "-emit-llvm" \in W /\ "-c" \in W /\ source \in W /\ "-o" \in W /\ "unit.bc" \in W
      /\ "-Xclang" \in W /\ "-no-opaque-pointers" \in W /\ "-g" \in W
  <2>1. Text \subseteq W /\ c \in W
    BY <1>1 DEF All
  <2>2. b \in Seq(Text)
    BY <1>1, ConcatProperties
  <2>3. "-Xclang" \in Text
    BY DEF Text, Dashed, VALUE_OPTIONS
  <2>4. \A a \in Seq(Text) : a \in Seq(W)
    BY <2>1, SeqOfMore
  <2> QED BY <2>1, <2>2, <2>3, <2>4, EndNames
<1>3. PICK e : e = <<"-emit-llvm", "-c", source, "-o", "unit.bc">>
  OBVIOUS
<1>4. e \in Seq(W) /\ Len(e) = 5 /\ TypedPointers \in Seq(W)
  BY <1>2, <1>3 DEF TypedPointers
<1>5. PICK h : h = <<c>> \o b
  OBVIOUS
<1>6. (<<c>> \o kept) \o s = h
  <2>1. <<c>> \in Seq(W) /\ kept \in Seq(W) /\ s \in Seq(W)
    BY <1>2, Tuples
  <2> QED BY <1>1, <1>5, <2>1, ConcatAssociative
<1>7. h \in Seq(W) /\ h # << >>
  BY <1>2, <1>5
<1>8. Inserted(h \o e, TypedPointers) = (h \o TypedPointers) \o e
  BY <1>4, <1>7, InsertBefore
<1>9. h \o TypedPointers = Append(Append(Append(h, "-Xclang"), "-no-opaque-pointers"), "-g")
  BY <1>2, <1>7, Ends3 DEF TypedPointers
<1>10. PICK g, b1 : /\ g = h \o TypedPointers
                    /\ b1 = Append(Append(Append(b, "-Xclang"), "-no-opaque-pointers"), "-g")
  OBVIOUS
<1>11. b1 \in Seq(W) /\ g = <<c>> \o b1
  <2>1. PICK d1 : d1 = Append(b, "-Xclang")
    OBVIOUS
  <2>2. d1 \in Seq(W) /\ Append(h, "-Xclang") = <<c>> \o d1
    BY <1>2, <1>5, <2>1, AppendBehind
  <2>3. PICK d2 : d2 = Append(d1, "-no-opaque-pointers")
    OBVIOUS
  <2>4. d2 \in Seq(W) /\ Append(<<c>> \o d1, "-no-opaque-pointers") = <<c>> \o d2
    <3>1. c \in W /\ d1 \in Seq(W) /\ "-no-opaque-pointers" \in W
      BY <1>2, <2>2
    <3> QED BY <2>3, <3>1, AppendBehind
  <2>5. Append(d2, "-g") \in Seq(W) /\ Append(<<c>> \o d2, "-g") = <<c>> \o Append(d2, "-g")
    <3>1. c \in W /\ d2 \in Seq(W) /\ "-g" \in W
      BY <1>2, <2>4
    <3>2. Append(d2, "-g") \in Seq(W)
      BY <3>1, AppendProperties
    <3> QED BY <3>1, <3>2, AppendBehind
  <2> QED BY <1>9, <1>10, <2>1, <2>2, <2>3, <2>4, <2>5
<1>12. /\ b1 \o e \in Seq(W) /\ (<<c>> \o b1) \o e = <<c>> \o (b1 \o e)
       /\ b1 \o e = Append(Append(Append(Append(Append(b1, "-emit-llvm"), "-c"), source), "-o"), "unit.bc")
  <2>1. <<c>> \in Seq(W)
    BY <1>2, Tuples
  <2>2. b1 \o e \in Seq(W) /\ (<<c>> \o b1) \o e = <<c>> \o (b1 \o e)
    BY <1>4, <1>11, <2>1, ConcatAssociative, ConcatProperties
  <2>3. b1 \o e = Append(Append(Append(Append(Append(b1, "-emit-llvm"), "-c"), source), "-o"), "unit.bc")
    <3>1. /\ b1 \in Seq(W) /\ "-emit-llvm" \in W /\ "-c" \in W /\ source \in W
          /\ "-o" \in W /\ "unit.bc" \in W
      BY <1>2, <1>11
    <3>2. b1 \o <<"-emit-llvm", "-c", source, "-o", "unit.bc">> =
            Append(Append(Append(Append(Append(b1, "-emit-llvm"), "-c"), source), "-o"), "unit.bc")
      BY <3>1, Ends5
    <3> QED BY <1>3, <3>2
  <2> QED BY <2>2, <2>3
<1>13. b1 \o e = WithOutput(WithOptions(b), source)
  BY <1>10, <1>12 DEF WithOutput, WithOptions
<1>14. Tail(<<c>> \o (b1 \o e)) = b1 \o e /\ (<<c>> \o (b1 \o e))[1] = c
  BY <1>2, <1>12, TailBehind
<1> QED BY <1>1, <1>3, <1>6, <1>8, <1>10, <1>11, <1>12, <1>13, <1>14 DEF CommandOf, HasParts

-----------------------------------------------------------------------------
(* The options that analyze and bitcode_command add.                       *)
Added == << <<"-Xclang", "-no-opaque-pointers">>, <<"-g">> >>
Ending == << <<"-emit-llvm">>, <<"-c">>, <<"-o", "unit.bc">> >>

Owned(W, b, keep) == Range(b) \subseteq W /\ Only(b, keep \cap Range(b)) = Only(b, keep)

(* Only what a sequence holds matters to Only.                             *)
LEMMA OnlyOwn ==
  ASSUME NEW W, NEW b \in Seq(W), NEW keep PROVE Owned(W, b, keep)
<1>1. PICK R : R = Range(b)
  OBVIOUS
<1>2. DOMAIN b = 1 .. Len(b) /\ Len(b) \in Nat /\ \A i \in DOMAIN b : b[i] \in W
  OBVIOUS
<1>3. R \subseteq W /\ b \in Seq(R)
  BY <1>1, <1>2 DEF Range
<1>4. \A o \in R : o \in keep \cap R <=> o \in keep
  OBVIOUS
<1>5. Only(b, keep \cap R) = Only(b, keep)
  <2>1. b \in Seq(R)
    BY <1>3
  <2> QED BY <1>4, <2>1, OnlyAgree
<1> QED BY <1>1, <1>3, <1>5 DEF Owned

Selection(W, keep, a, k) == keep \subseteq W /\ a \in Seq(W) /\ k \in Seq(W) /\ Only(a, keep) = k

(* A kept element more is kept.                                            *)
LEMMA OnlyLonger ==
  ASSUME NEW W, NEW keep, NEW a, NEW k, Selection(W, keep, a, k), NEW x \in keep
  PROVE  Selection(W, keep, Append(a, x), Append(k, x))
<1>1. keep \subseteq W /\ x \in W /\ a \in Seq(W) /\ k \in Seq(W) /\ Only(a, keep) = k
  BY DEF Selection
<1>2. Only(Append(a, x), keep) = IF x \in keep THEN Append(Only(a, keep), x) ELSE Only(a, keep)
  <2>1. x \in W /\ a \in Seq(W)
    BY <1>1
  <2> QED BY <2>1, OnlyMore
<1> QED BY <1>1, <1>2 DEF Selection

(* Without -x and -o, the options are those kept, those added and the      *)
(* ending.                                                                 *)
LEMMA OptionsOfEnd ==
  ASSUME NEW kept \in Seq(Kept), NEW options, NEW l \in Text,
         options = kept \/ options = Append(kept, <<"-x", l>>),
         NEW all, all = Append(OptionsEnd(options), <<"-o", "unit.bc">>)
  PROVE  Only(all, {o \in Range(all) : ~Selects(o)}) = kept \o Added \o Ending
<1>1. PICK W, keep : W = Seq(Text) /\ keep = {o \in W : ~Selects(o)}
  OBVIOUS
<1>2. Kept \subseteq keep /\ keep \subseteq W /\ kept \in Seq(Kept)
  BY <1>1 DEF Kept
<1>3. kept \in Seq(keep) /\ kept \in Seq(W)
  BY <1>2, SeqOfMore
<1>4. <<"-x", l>> \in W /\ <<"-x", l>> \notin keep
  <2>1. "-x" \in Text /\ <<"-x", l>>[1] = "-x"
    BY EndNames
  <2>2. <<"-x", l>> \in Seq(Text)
    BY <2>1, Tuples
  <2> QED BY <1>1, <2>1, <2>2 DEF Selects
<1>5. options \in Seq(W) /\ Only(options, keep) = kept
  <2>1. Only(kept, keep) = kept
    <3>1. keep \subseteq keep /\ kept \in Seq(keep)
      BY <1>3
    <3> QED BY <3>1, OnlyAll
  <2>2. PICK x : x = <<"-x", l>>
    OBVIOUS
  <2>3. Append(kept, x) \in Seq(W)
    <3>1. kept \in Seq(W) /\ x \in W
      BY <1>3, <1>4, <2>2
    <3> QED BY <3>1
  <2>4. Only(Append(kept, x), keep) = IF x \in keep THEN Append(Only(kept, keep), x) ELSE Only(kept, keep)
    <3>1. kept \in Seq(W) /\ x \in W
      BY <1>3, <1>4, <2>2
    <3> QED BY <3>1, OnlyMore
  <2> QED BY <1>3, <1>4, <2>1, <2>2, <2>3, <2>4
<1>6. PICK x1, x2, x3, x4, x5 :
        /\ x1 = <<"-Xclang", "-no-opaque-pointers">> /\ x2 = <<"-g">>
        /\ x3 = <<"-emit-llvm">> /\ x4 = <<"-c">> /\ x5 = <<"-o", "unit.bc">>
  OBVIOUS
<1>7. x1 \in keep /\ x2 \in keep /\ x3 \in keep /\ x4 \in keep /\ x5 \in keep
  <2>1. x1 \in Seq(Text) /\ x2 \in Seq(Text) /\ x3 \in Seq(Text) /\ x4 \in Seq(Text) /\ x5 \in Seq(Text)
    <3>1. /\ "-Xclang" \in Text /\ "-no-opaque-pointers" \in Text /\ "-g" \in Text /\ "-emit-llvm" \in Text
          /\ "-c" \in Text /\ "-o" \in Text /\ "unit.bc" \in Text
      BY EndNames DEF Text, Dashed, VALUE_OPTIONS
    <3> QED BY <1>6, <3>1, Tuples
  <2>2. x1[1] = "-Xclang" /\ x2[1] = "-g" /\ x3[1] = "-emit-llvm" /\ x4[1] = "-c" /\ x5[1] = "-o"
    BY <1>6
  <2>3. \A y \in {"-Xclang", "-g", "-emit-llvm", "-c", "-o"} : y # "-x" /\ y \notin DOMAIN joined_language
    BY DEF joined_language
  <2> QED BY <1>1, <2>1, <2>2, <2>3 DEF Selects
<1>9. PICK a1, a2, a3, a4, k1, k2, k3, k4 :
        /\ a1 = Append(options, x1) /\ a2 = Append(a1, x2) /\ a3 = Append(a2, x3) /\ a4 = Append(a3, x4)
        /\ k1 = Append(kept, x1) /\ k2 = Append(k1, x2) /\ k3 = Append(k2, x3) /\ k4 = Append(k3, x4)
  OBVIOUS
<1>10. Selection(W, keep, a1, k1)
  <2>1. Selection(W, keep, options, kept) /\ x1 \in keep
    BY <1>2, <1>7, <1>3, <1>5 DEF Selection
  <2> QED BY <1>9, <2>1, OnlyLonger
<1>11. Selection(W, keep, a2, k2)
  <2>1. Selection(W, keep, a1, k1) /\ x2 \in keep
    BY <1>2, <1>7, <1>10
  <2> QED BY <1>9, <2>1, OnlyLonger
<1>12. Selection(W, keep, a3, k3)
  <2>1. Selection(W, keep, a2, k2) /\ x3 \in keep
    BY <1>2, <1>7, <1>11
  <2> QED BY <1>9, <2>1, OnlyLonger
<1>13. Selection(W, keep, a4, k4)
  <2>1. Selection(W, keep, a3, k3) /\ x4 \in keep
    BY <1>2, <1>7, <1>12
  <2> QED BY <1>9, <2>1, OnlyLonger
<1>14. all = Append(a4, x5)
  BY <1>6, <1>9 DEF OptionsEnd
<1>15. Selection(W, keep, all, Append(k4, x5))
  <2>1. Selection(W, keep, a4, k4) /\ x5 \in keep
    BY <1>2, <1>7, <1>13
  <2> QED BY <1>14, <2>1, OnlyLonger
<1>16. kept \o Added \o Ending = Append(k4, x5)
  <2>1. Added = <<x1, x2>> /\ Ending = <<x3, x4, x5>>
    BY <1>6 DEF Added, Ending
  <2>2. x1 \in W /\ x2 \in W /\ x3 \in W /\ x4 \in W /\ x5 \in W /\ kept \in Seq(W)
    BY <1>2, <1>3, <1>7
  <2>3. kept \o <<x1, x2>> = k2
    BY <1>9, <2>2, Ends2
  <2>4. k2 \in Seq(W)
    BY <1>11 DEF Selection
  <2>5. k2 \o <<x3, x4, x5>> = Append(k4, x5)
    BY <1>9, <2>2, <2>4, Ends3
  <2> QED BY <2>1, <2>3, <2>5
<1>17. Range(all) \subseteq W /\ Only(all, keep \cap Range(all)) = Only(all, keep)
  <2>1. all \in Seq(W)
    BY <1>15 DEF Selection
  <2>2. Owned(W, all, keep)
    BY <2>1, OnlyOwn
  <2> QED BY <2>2 DEF Owned
<1>18. {o \in Range(all) : ~Selects(o)} = keep \cap Range(all)
  BY <1>1, <1>17
<1> QED BY <1>15, <1>16, <1>17, <1>18 DEF Selection

-----------------------------------------------------------------------------
(* A unit that load_entry accepts.                                         *)
Loaded(unit) ==
  /\ unit.source \in Files
  /\ unit.arguments \in Seq(Text) /\ unit.arguments # << >> /\ Head(unit.arguments) \in Compilers
  /\ unit.output = original_output(unit.arguments).output
  /\ original_output(unit.arguments).option = ""
  /\ ~command_parts(unit).refused

(* Of its arguments a driver knows what command_parts knows.               *)
Understood(unit, D, E) ==
  LET parts == command_parts(unit) IN
  /\ Driven(Tail(unit.arguments), D) /\ Driven(parts.kept, E)
  /\ D.option = "" /\ \E n : D.inputs = {<<n, unit.source, parts.source_language>>}
  /\ D.output = unit.output
  /\ KeepsOptions(D, E) /\ Neutral(E)
  /\ parts.source = unit.source /\ parts.source_language \in Text /\ parts.kept \in Seq(Text)

(* A driver reads the arguments of a unit as command_parts does.           *)
LEMMA UnitsAreUnderstood ==
  ASSUME NEW unit, Loaded(unit) PROVE \E D, E : Understood(unit, D, E)
<1>1. PICK file, args, a : file = unit.source /\ args = unit.arguments /\ a = Tail(args)
  OBVIOUS
<1>2. PICK p, sc : p = Read(file, a) /\ sc = Scan(a)
  OBVIOUS
<1>3. file \in Files /\ args \in Seq(Text) /\ args # << >>
  BY <1>1 DEF Loaded
<1>4. a \in Seq(Text)
  BY <1>1, <1>3, HeadTailProperties
<1>5. original_output(args) = sc
  BY <1>1, <1>2 DEF original_output, Scan, Scan0
<1>6. command_parts(unit) = IF p.option # "" \/ p.source = "" THEN Refuse(p) ELSE p
  BY <1>1, <1>2 DEF command_parts, Read, Parts0
<1>7. p \in Parts
  <2>1. Parts0(file) \in Parts
    <3>1. file \in Text
      BY <1>3 DEF Files, Text, Dashed
    <3> QED BY <3>1, PartsTyped
  <2> QED BY <1>2, <1>4, <2>1, ReadSteps
<1>8. ~p.refused /\ p.option = "" /\ p.source # "" /\ command_parts(unit) = p
  <2>1. Refuse(p).refused
    BY <1>7 DEF Refuse, Parts
  <2>2. ~command_parts(unit).refused
    BY DEF Loaded
  <2> QED BY <1>6, <2>1, <2>2
<1>9. PICK D, E : Driven(a, D) /\ Tracks(file, p, sc, D, E)
  <2>1. Tracked(file, a)
    BY <1>3, <1>4, AllTracked
  <2> QED BY <1>2, <1>8, <2>1 DEF Tracked
<1>10. D.option = "" /\ D.output = sc.output /\ KeepsOptions(D, E) /\ Neutral(E) /\ Driven(p.kept, E)
  BY <1>8, <1>9 DEF Tracks, SameState
<1>11. p.source = file /\ \E n : D.inputs = {<<n, file, p.source_language>>}
  BY <1>8, <1>9 DEF Tracks, SourceRead
<1>12. p.source_language \in Text /\ p.kept \in Seq(Text)
  BY <1>7 DEF Parts
<1>13. D.output = unit.output
  BY <1>1, <1>5, <1>10 DEF Loaded
<1> QED BY <1>1, <1>8, <1>9, <1>10, <1>11, <1>12, <1>13 DEF Understood

IsTranslation(unit, command) ==
  /\ Denotes(unit.source) \in {i[1] : i \in Range(Meaning(command).inputs)}
  /\ SameTranslation(unit, command, "unit.bc", Added)

(* The command compiled for a unit translates it.                          *)
LEMMA RewritingIsFaithful ==
  ASSUME NEW unit, Loaded(unit), ~compile_command(unit, "unit.bc").refused
  PROVE  IsTranslation(unit, compile_command(unit, "unit.bc").command)
<1>1. PICK file, args, p, l : /\ file = unit.source /\ args = unit.arguments
                              /\ p = command_parts(unit) /\ l = p.source_language
  OBVIOUS
<1>2. PICK D, E : Understood(unit, D, E)
  BY UnitsAreUnderstood
<1>3. /\ Driven(Tail(args), D) /\ Driven(p.kept, E)
      /\ D.option = "" /\ \E n : D.inputs = {<<n, file, l>>} /\ D.output = unit.output
      /\ KeepsOptions(D, E) /\ Neutral(E)
      /\ p.source = file /\ l \in Text /\ p.kept \in Seq(Text)
  BY <1>1, <1>2 DEF Understood
<1>4. file \in Files /\ args[1] \in Compilers /\ Head(args) = args[1]
  <2>1. args \in Seq(Text) /\ args # << >>
    BY <1>1 DEF Loaded
  <2>2. Head(args) = args[1]
    BY <2>1, HeadTailProperties
  <2> QED BY <1>1, <2>2 DEF Loaded
<1> DEFINE cpp == IF l # "none" THEN l = "c++" ELSE args[1] = "c++"
           c == IF cpp THEN "clang++" ELSE "clang"
           source == IF file = "-u.c" THEN "./-u.c" ELSE file
           x == IF l # "none" THEN <<"-x", l>> ELSE << >>
           command == compile_command(unit, "unit.bc").command
<1>5. command = CommandOf(c, p.kept, x, source)
  <2>1. Head(unit.arguments) = args[1]
    BY <1>1, <1>4
  <2>2. bitcode_command(unit, "unit.bc").command =
          ((<<c>> \o p.kept) \o x) \o <<"-emit-llvm", "-c", source, "-o", "unit.bc">>
    BY <1>1, <1>3, <2>1 DEF bitcode_command
  <2>3. command = Inserted(bitcode_command(unit, "unit.bc").command, TypedPointers)
    BY DEF compile_command, Inserted, bitcode_command
  <2> QED BY <2>2, <2>3 DEF CommandOf
<1>6. source \in Sources /\ Denotes(source) = file /\ Denotes(file) = file
  BY <1>4 DEF Files, Sources, Denotes
<1>7. c \in {"clang", "clang++"} /\ x \in Seq(Text)
  <2>1. <<"-x", l>> \in Seq(Text)
    BY <1>3, EndNames, Tuples
  <2> QED BY <2>1
<1>8. Tail(command) = WithOutput(WithOptions(p.kept \o x), source) /\ command[1] = c
  <2>1. p.kept \in Seq(Text)
    BY <1>3
  <2>2. PICK d, k, y, v : d = c /\ k = p.kept /\ y = x /\ v = source
    OBVIOUS
  <2>3. d \in {"clang", "clang++"} /\ k \in Seq(Text) /\ y \in Seq(Text) /\ v \in Sources
    BY <1>6, <1>7, <2>1, <2>2
  <2>4. HasParts(CommandOf(d, k, y, v), d, k, y, v)
    BY <2>3, CommandIs
  <2> HIDE DEF c, x, source, command
  <2> QED BY <1>5, <2>2, <2>4 DEF HasParts
<1> DEFINE o == IF l # "none" THEN Append(E.options, <<"-x", l>>) ELSE E.options
           all == Append(OptionsEnd(o), <<"-o", "unit.bc">>)
<1>9. HasRead(p.kept, "none", E.options)
  BY <1>3 DEF HasRead, Neutral
<1>10. HasRead(p.kept \o x, l, o)
  <2>1. CASE l # "none"
    <3>1. PICK b : b = p.kept
      OBVIOUS
    <3>2. b \in Seq(Text) /\ "-x" \in Text /\ l \in Text
      BY <1>3, <3>1, EndNames
    <3>3. b \o <<"-x", l>> = Append(Append(b, "-x"), l)
      BY <3>2, Ends2
    <3>4. HasRead(b, "none", E.options)
      BY <1>9, <3>1
    <3>5. HasRead(Append(Append(b, "-x"), l), l, Append(E.options, <<"-x", l>>))
      BY <3>2, <3>4, LanguageIsRead
    <3> QED BY <2>1, <3>1, <3>3, <3>5
  <2>2. CASE l = "none"
    <3>1. p.kept \o << >> = p.kept
      BY <1>3, ConcatEmptySeq
    <3> QED BY <1>9, <2>2, <3>1
  <2> QED BY <2>1, <2>2
<1>11. IsRead(Tail(command), all, file, l)
  <2> HIDE DEF x, o, source, command
  <2>1. PICK b, b1 : b = p.kept \o x /\ b1 = WithOptions(b)
    OBVIOUS
  <2>2. HasRead(b1, l, OptionsEnd(o))
    BY <1>10, <2>1, OptionsAreRead
  <2>3. IsRead(WithOutput(b1, source), Append(OptionsEnd(o), <<"-o", "unit.bc">>), Denotes(source), l)
    BY <1>6, <2>2, OutputIsRead
  <2> QED BY <1>6, <1>8, <2>1, <2>3
<1>12. Means(command, all, "unit.bc", <<file, Spoken(c, l)>>)
  <2> HIDE DEF command, c, all
  <2>1. PICK G, m : /\ Driven(Tail(command), G) /\ G.option = "" /\ G.options = all
                    /\ G.output = "unit.bc" /\ G.inputs = {<<m, file, l>>}
    BY <1>11 DEF IsRead
  <2>2. Means(command, G.options, G.output, <<file, Spoken(command[1], l)>>)
    <3>1. Driven(Tail(command), G) /\ G.option = "" /\ G.inputs = {<<m, file, l>>}
      BY <2>1
    <3> QED BY <3>1, MeaningIs
  <2> QED BY <1>8, <2>1, <2>2
<1>13. Means(args, D.options, unit.output, <<file, Spoken(args[1], l)>>)
  <2>1. PICK m : Driven(Tail(args), D) /\ D.option = "" /\ D.inputs = {<<m, file, l>>}
    BY <1>3
  <2>2. Means(args, D.options, D.output, <<file, Spoken(args[1], l)>>)
    BY <2>1, MeaningIs
  <2> QED BY <1>3, <2>2
<1>14. Spoken(c, l) = Spoken(args[1], l)
  BY <1>4 DEF Spoken, Compilers
<1>15. Only(D.options, {i \in Range(D.options) : ~Diverts(i) /\ ~Selects(i)}) = E.options
  <2>1. D.options \in Seq(Seq(Text)) /\ E.options = Only(D.options, Kept)
    BY <1>3 DEF KeepsOptions
  <2>2. PICK b, W : b = D.options /\ W = Seq(Text)
    OBVIOUS
  <2>3. Owned(W, b, Kept)
    <3>1. b \in Seq(W)
      BY <2>1, <2>2
    <3> QED BY <3>1, OnlyOwn
  <2>4. {i \in Range(b) : ~Diverts(i) /\ ~Selects(i)} = Kept \cap Range(b)
    BY <2>2, <2>3 DEF Owned, Kept
  <2> QED BY <2>1, <2>2, <2>3, <2>4 DEF Owned
<1>16. Only(all, {i \in Range(all) : ~Selects(i)}) = E.options \o Added \o Ending
  <2>1. PICK W, b : W = Seq(Text) /\ b = D.options
    OBVIOUS
  <2>2. b \in Seq(W) /\ E.options = Only(b, Kept)
    BY <1>3, <2>1 DEF KeepsOptions
  <2>3. Only(b, Kept) \in Seq(W \cap Kept)
    BY <2>2, OnlyKept
  <2>4. W \cap Kept = Kept
    BY <2>1 DEF Kept
  <2>5. PICK kept : kept = E.options /\ kept \in Seq(Kept)
    BY <2>2, <2>3, <2>4
  <2>6. o = kept \/ o = Append(kept, <<"-x", l>>)
    BY <2>5
  <2>7. PICK options, every : options = o /\ every = Append(OptionsEnd(options), <<"-o", "unit.bc">>)
    OBVIOUS
  <2>8. kept \in Seq(Kept) /\ l \in Text /\ (options = kept \/ options = Append(kept, <<"-x", l>>))
    BY <1>3, <2>5, <2>6, <2>7
  <2>9. Only(every, {i \in Range(every) : ~Selects(i)}) = kept \o Added \o Ending
    <3> HIDE DEF o, all
    <3> QED BY <2>7, <2>8, OptionsOfEnd
  <2> QED BY <2>5, <2>7, <2>9
<1> HIDE DEF command, all, c, o, x, source
<1>17. SameTranslation(unit, command, "unit.bc", Added)
  <2>1. PICK input : input = <<file, Spoken(args[1], l)>>
    OBVIOUS
  <2>2. /\ Meaning(command).options = all /\ Meaning(command).output = "unit.bc"
        /\ Range(Meaning(command).inputs) = {input} /\ Cardinality(DOMAIN Meaning(command).inputs) = 1
    BY <1>12, <1>14, <2>1 DEF Means
  <2>3. /\ Meaning(unit.arguments).options = D.options /\ Meaning(unit.arguments).output = unit.output
        /\ Range(Meaning(unit.arguments).inputs) = {input}
    BY <1>1, <1>13, <2>1 DEF Means
  <2> QED BY <1>15, <1>16, <2>2, <2>3 DEF SameTranslation, Ending
<1>18. Range(Meaning(command).inputs) = {<<file, Spoken(c, l)>>}
  BY <1>12 DEF Means
<1>19. Denotes(unit.source) \in {i[1] : i \in Range(Meaning(command).inputs)}
  BY <1>1, <1>6, <1>18
<1> QED BY <1>17, <1>19 DEF IsTranslation, command

-----------------------------------------------------------------------------
(* f flattens the first i of some sequences to f[i], as FlattenSeq does.   *)
Flattens(a, f) ==
  f = [i \in 1 .. Len(a) |-> IF i = 1 THEN a[i] ELSE f[i - 1] \o a[i]]

(* What is flattened is a sequence of the same elements.                   *)
LEMMA FlattensTyped ==
  ASSUME NEW W, NEW a \in Seq(Seq(W)), NEW f, Flattens(a, f)
  PROVE  \A i \in 1 .. Len(a) : f[i] \in Seq(W)
<1>1. PICK n, V : n = Len(a) /\ V = Seq(W)
  OBVIOUS
<1>2. n \in Nat /\ \A i \in 1 .. n : a[i] \in V
  <2>1. a \in Seq(V)
    BY <1>1
  <2>2. Len(a) \in Nat /\ \A i \in 1 .. Len(a) : a[i] \in V
    BY <2>1
  <2> QED BY <1>1, <2>2
<1>3. \A i \in 1 .. n : f[i] = IF i = 1 THEN a[i] ELSE f[i - 1] \o a[i]
  BY <1>1 DEF Flattens
<1> DEFINE P == {k \in Nat : k \in 1 .. n => f[k] \in V}
<1>4. 0 \in P
  OBVIOUS
<1>5. ASSUME NEW k \in Nat, k \in P PROVE k + 1 \in P
  <2> SUFFICES ASSUME k + 1 \in 1 .. n PROVE f[k + 1] \in V
    OBVIOUS
  <2>1. CASE k = 0
    BY <1>2, <1>3, <2>1
  <2>2. CASE k > 0
    <3>1. k \in 1 .. n /\ k + 1 # 1 /\ (k + 1) - 1 = k
      BY <1>2, <2>2
    <3>2. f[k + 1] = f[k] \o a[k + 1]
      BY <1>3, <3>1
    <3>3. f[k] \in Seq(W) /\ a[k + 1] \in Seq(W)
      BY <1>1, <1>2, <1>5, <3>1
    <3> QED BY <1>1, <3>2, <3>3, ConcatProperties
  <2> QED BY <2>1, <2>2
<1> HIDE DEF P
<1>6. Nat \subseteq P
  BY <1>4, <1>5, Counting
<1>7. \A i \in 1 .. n : i \in Nat
  BY <1>2
<1> QED BY <1>1, <1>6, <1>7 DEF P

(* With one sequence more, there is such a function again.                 *)
LEMMA FlattensMore ==
  ASSUME NEW W, NEW a \in Seq(W), NEW x \in W, NEW f, Flattens(a, f)
  PROVE  \E g : Flattens(Append(a, x), g)
<1>1. PICK n, b : n = Len(a) /\ b = Append(a, x)
  OBVIOUS
<1>2. n \in Nat /\ Len(b) = n + 1 /\ b[n + 1] = x /\ \A i \in 1 .. n : b[i] = a[i]
  BY <1>1
<1>3. f = [i \in 1 .. n |-> IF i = 1 THEN a[i] ELSE f[i - 1] \o a[i]]
  BY <1>1 DEF Flattens
<1>4. PICK g : g = [i \in 1 .. n + 1 |-> IF i = n + 1 THEN (IF n = 0 THEN x ELSE f[n] \o x) ELSE f[i]]
  OBVIOUS
<1>5. (\A i \in 1 .. n : g[i] = f[i]) /\ g[n + 1] = IF n = 0 THEN x ELSE f[n] \o x
  BY <1>2, <1>4
<1>6. ASSUME NEW i \in 1 .. n + 1 PROVE g[i] = IF i = 1 THEN b[i] ELSE g[i - 1] \o b[i]
  <2>1. CASE i = n + 1
    <3>1. n = 0 => i = 1
      BY <2>1
    <3>2. n # 0 => i # 1 /\ i - 1 = n /\ g[n] = f[n]
      BY <1>2, <1>5, <2>1
    <3> QED BY <1>2, <1>5, <2>1, <3>1, <3>2
  <2>2. CASE i # n + 1
    <3>1. i \in 1 .. n
      BY <1>2, <2>2
    <3>2. i # 1 => i - 1 \in 1 .. n
      BY <1>2, <3>1
    <3>3. f[i] = IF i = 1 THEN a[i] ELSE f[i - 1] \o a[i]
      BY <1>3, <3>1
    <3> QED BY <1>2, <1>5, <3>1, <3>2, <3>3
  <2> QED BY <2>1, <2>2
<1>7. g = [i \in 1 .. n + 1 |-> IF i = 1 THEN b[i] ELSE g[i - 1] \o b[i]]
  <2>1. g = [i \in 1 .. n + 1 |-> g[i]]
    BY <1>4
  <2> QED BY <1>6, <2>1
<1>8. Flattens(b, g)
  BY <1>2, <1>7 DEF Flattens
<1> QED BY <1>1, <1>8

(* So FlattenSeq of sequences is a sequence.                               *)
LEMMA FlattenTyped ==
  ASSUME NEW W, NEW a \in Seq(Seq(W)) PROVE FlattenSeq(a) \in Seq(W)
<1>1. PICK V : V = Seq(W)
  OBVIOUS
<1> DEFINE P == {b \in Seq(V) : \E f : Flattens(b, f)}
<1>2. << >> \in P
  <2>1. << >> \in Seq(V) /\ Len(<< >>) = 0
    OBVIOUS
  <2>2. Flattens(<< >>, [i \in {} |-> i])
    BY <2>1 DEF Flattens
  <2> QED BY <2>1, <2>2
<1>3. ASSUME NEW b \in Seq(V), NEW x \in V, b \in P PROVE Append(b, x) \in P
  <2>1. PICK f : Flattens(b, f)
    BY <1>3
  <2>2. \E g : Flattens(Append(b, x), g)
    BY <2>1, FlattensMore
  <2>3. Append(b, x) \in Seq(V)
    OBVIOUS
  <2> QED BY <2>2, <2>3
<1> HIDE DEF P
<1>4. Seq(V) \subseteq P
  BY <1>2, <1>3, Appending
<1>5. a \in P
  BY <1>1, <1>4
<1>6. PICK f : Flattens(a, f)
  BY <1>5 DEF P
<1> DEFINE h == CHOOSE g : Flattens(a, g)
<1>7. Flattens(a, h)
  BY <1>6
<1>8. FlattenSeq(a) = IF Len(a) = 0 THEN a ELSE h[Len(a)]
  BY DEF FlattenSeq, Flattens
<1> HIDE DEF h
<1>9. CASE Len(a) = 0
  <2>1. a = << >>
    BY <1>9, EmptySeq
  <2>2. << >> \in Seq(W)
    OBVIOUS
  <2> QED BY <1>8, <1>9, <2>1, <2>2
<1>10. CASE Len(a) # 0
  <2>1. Len(a) \in 1 .. Len(a)
    BY <1>10, LenProperties
  <2>2. \A i \in 1 .. Len(a) : h[i] \in Seq(W)
    BY <1>7, FlattensTyped
  <2> QED BY <1>8, <1>10, <2>1, <2>2
<1> QED BY <1>9, <1>10

-----------------------------------------------------------------------------
(* The contents of response files: those of a stack depend on those of the *)
(* stacks with one file more, and none is deeper than MaxNesting.          *)
Piece(f, stack, argument) ==
  IF argument \notin DOMAIN Responses THEN <<argument>>
  ELSE IF argument \in Range(stack) \/ Len(stack) >= MaxNesting THEN <<Recursive>>
  ELSE f[Append(stack, argument)]
Inside(f, stack) ==
  FlattenSeq([i \in DOMAIN Responses[Last(stack)] |-> Piece(f, stack, Responses[Last(stack)][i])])
AreContents(f) == f = [stack \in Seq(DOMAIN Responses) |-> Inside(f, stack)]

(* Contents depend only on those one file deeper.                          *)
LEMMA InsideAgrees ==
  ASSUME NEW f, NEW g, NEW stack \in Seq(DOMAIN Responses),
         \A x \in DOMAIN Responses : ~(Len(stack) >= MaxNesting) => f[Append(stack, x)] = g[Append(stack, x)]
  PROVE  Inside(f, stack) = Inside(g, stack)
<1>1. \A argument : Piece(f, stack, argument) = Piece(g, stack, argument)
  BY DEF Piece
<1>2. [i \in DOMAIN Responses[Last(stack)] |-> Piece(f, stack, Responses[Last(stack)][i])] =
      [i \in DOMAIN Responses[Last(stack)] |-> Piece(g, stack, Responses[Last(stack)][i])]
  BY <1>1, Zenon
<1> QED BY <1>2 DEF Inside

(* So they exist: those of the deepest stacks first.                       *)
LEMMA ContentsExist == AreContents(contents)
<1> DEFINE S == Seq(DOMAIN Responses)
           deep(k, stack) == Len(stack) + k >= MaxNesting
           right(k, f) == /\ f = [stack \in S |-> f[stack]]
                          /\ \A stack \in S : deep(k, stack) => f[stack] = Inside(f, stack)
           P == {k \in Nat : \E f : right(k, f)}
<1>0. \A stack \in S : Len(stack) \in Nat
  OBVIOUS
<1>1. 0 \in P
  <2>1. PICK g : g = [stack \in S |-> 0]
    OBVIOUS
  <2>2. PICK f : f = [stack \in S |-> Inside(g, stack)]
    OBVIOUS
  <2>3. ASSUME NEW stack \in S, deep(0, stack) PROVE f[stack] = Inside(f, stack)
    <3>1. Len(stack) >= MaxNesting
      BY <1>0, <2>3 DEF MaxNesting
    <3>2. Inside(f, stack) = Inside(g, stack)
      BY <3>1, InsideAgrees
    <3> QED BY <2>2, <3>2
  <2>4. f = [stack \in S |-> f[stack]]
    BY <2>2
  <2>5. right(0, f)
    BY <2>3, <2>4
  <2> QED BY <2>5
<1>2. ASSUME NEW k \in Nat, k \in P PROVE k + 1 \in P
  <2>1. PICK g : right(k, g)
    BY <1>2
  <2>2. PICK f : f = [stack \in S |-> Inside(g, stack)]
    OBVIOUS
  <2>3. \A stack \in S : deep(k, stack) => f[stack] = g[stack]
    BY <2>1, <2>2
  <2>4. ASSUME NEW stack \in S, deep(k + 1, stack) PROVE f[stack] = Inside(f, stack)
    <3>1. ASSUME NEW x \in DOMAIN Responses PROVE f[Append(stack, x)] = g[Append(stack, x)]
      <4>1. Append(stack, x) \in S /\ Len(Append(stack, x)) = Len(stack) + 1
        OBVIOUS
      <4>2. deep(k, Append(stack, x))
        BY <1>0, <2>4, <4>1 DEF MaxNesting
      <4> QED BY <2>3, <4>1, <4>2
    <3>2. Inside(f, stack) = Inside(g, stack)
      BY <3>1, InsideAgrees
    <3> QED BY <2>2, <3>2
  <2>5. f = [stack \in S |-> f[stack]]
    BY <2>2
  <2>6. right(k + 1, f)
    BY <2>4, <2>5
  <2> QED BY <2>6
<1> HIDE DEF P
<1>3. MaxNesting \in P
  BY <1>1, <1>2, Counting DEF MaxNesting
<1>4. PICK f : right(MaxNesting, f)
  BY <1>3 DEF P
<1>5. \A stack \in S : f[stack] = Inside(f, stack)
  BY <1>0, <1>4 DEF MaxNesting
<1>6. f = [stack \in S |-> Inside(f, stack)]
  BY <1>4, <1>5
<1>7. AreContents(f)
  BY <1>6 DEF AreContents
<1>8. contents = CHOOSE g : AreContents(g)
  BY DEF contents, AreContents, Inside, Piece
<1> QED BY <1>7, <1>8

(* Response files hold strings.                                            *)
LEMMA TextOfResponses ==
  \A f \in DOMAIN Responses : Responses[f] \in Seq(STRING)
BY ResponsesAssumption

LEMMA StringsAreText == STRING \subseteq Text /\ Recursive \in Text
BY DEF Text

LEMMA Elements == ASSUME NEW W, NEW s \in Seq(W), NEW i \in DOMAIN s PROVE s[i] \in W
OBVIOUS

(* The contents of a stack are arguments.                                  *)
LEMMA ContentsTyped ==
  ASSUME NEW stack \in Seq(DOMAIN Responses), stack # << >>
  PROVE  contents[stack] \in Seq(Text)
<1> DEFINE S == Seq(DOMAIN Responses)
           deep(k, s) == Len(s) + k >= MaxNesting
           P == {k \in Nat : \A s \in S : s # << >> /\ deep(k, s) => contents[s] \in Seq(Text)}
<1>0. \A s \in S : Len(s) \in Nat
  OBVIOUS
<1>1. ASSUME NEW s \in S, s # << >>,
             \A x \in DOMAIN Responses : ~(Len(s) >= MaxNesting) => contents[Append(s, x)] \in Seq(Text)
      PROVE  contents[s] \in Seq(Text)
  <2>1. contents[s] = Inside(contents, s)
    BY ContentsExist DEF AreContents
  <2>2. Last(s) \in DOMAIN Responses
    BY <1>1, LenProperties, EmptySeq, ElementOfSeq DEF Last
  <2>3. PICK c : c = Responses[Last(s)]
    OBVIOUS
  <2>4. c \in Seq(STRING)
    BY <2>2, <2>3, TextOfResponses
  <2>5. ASSUME NEW i \in DOMAIN c PROVE Piece(contents, s, c[i]) \in Seq(Text)
    <3>1. c[i] \in Text /\ Recursive \in Text
      <4>1. c[i] \in STRING
        BY <2>4, Elements
      <4> QED BY <4>1, StringsAreText
    <3>2. <<c[i]>> \in Seq(Text) /\ <<Recursive>> \in Seq(Text)
      BY <3>1, Tuples
    <3> QED BY <1>1, <3>2 DEF Piece
  <2>6. PICK W : W = Seq(Text)
    OBVIOUS
  <2>7. [i \in DOMAIN c |-> Piece(contents, s, c[i])] \in Seq(W)
    <3>1. DOMAIN c = 1 .. Len(c) /\ Len(c) \in Nat
      BY <2>4, Lengths
    <3> QED BY <2>5, <2>6, <3>1
  <2>8. FlattenSeq([i \in DOMAIN c |-> Piece(contents, s, c[i])]) \in Seq(Text)
    BY <2>6, <2>7, FlattenTyped
  <2> QED BY <2>1, <2>3, <2>8 DEF Inside
<1>2. 0 \in P
  <2>1. ASSUME NEW s \in S, s # << >>, deep(0, s) PROVE contents[s] \in Seq(Text)
    <3>1. Len(s) >= MaxNesting
      BY <1>0, <2>1 DEF MaxNesting
    <3> QED BY <1>1, <2>1, <3>1
  <2> QED BY <2>1
<1>3. ASSUME NEW k \in Nat, k \in P PROVE k + 1 \in P
  <2>1. ASSUME NEW s \in S, s # << >>, deep(k + 1, s) PROVE contents[s] \in Seq(Text)
    <3>1. ASSUME NEW x \in DOMAIN Responses PROVE contents[Append(s, x)] \in Seq(Text)
      <4>1. PICK t : t = Append(s, x)
        OBVIOUS
      <4>2. t \in S /\ Len(t) = Len(s) + 1 /\ t # << >>
        BY <4>1
      <4>3. deep(k, t)
        BY <1>0, <2>1, <4>2 DEF MaxNesting
      <4> QED BY <1>3, <4>1, <4>2, <4>3
    <3> QED BY <1>1, <2>1, <3>1
  <2> QED BY <2>1
<1> HIDE DEF P
<1>4. MaxNesting \in P
  BY <1>2, <1>3, Counting DEF MaxNesting
<1> QED BY <1>0, <1>4 DEF P, MaxNesting

(* The arguments expanded are arguments.                                   *)
LEMMA ExpandedTyped ==
  ASSUME NEW a \in Seq(STRING) PROVE expand_response_files(a) \in Seq(Text)
<1>1. PICK W : W = Seq(Text)
  OBVIOUS
<1> DEFINE part(i) == IF a[i] \in DOMAIN Responses THEN contents[<<a[i]>>] ELSE <<a[i]>>
<1>2. ASSUME NEW i \in DOMAIN a PROVE part(i) \in W
  <2>1. a[i] \in Text
    <3>1. a[i] \in STRING
      BY Elements
    <3> QED BY <3>1, StringsAreText
  <2>2. <<a[i]>> \in Seq(Text)
    BY <2>1, Tuples
  <2>3. a[i] \in DOMAIN Responses => <<a[i]>> \in Seq(DOMAIN Responses) /\ <<a[i]>> # << >>
    BY Tuples
  <2>4. a[i] \in DOMAIN Responses => contents[<<a[i]>>] \in Seq(Text)
    BY <2>3, ContentsTyped
  <2> QED BY <1>1, <2>2, <2>4
<1>3. DOMAIN a = 1 .. Len(a) /\ Len(a) \in Nat
  BY Lengths
<1>4. [i \in DOMAIN a |-> part(i)] \in Seq(W)
  <2> HIDE DEF part
  <2> QED BY <1>2, <1>3
<1>5. FlattenSeq([i \in DOMAIN a |-> part(i)]) \in Seq(Text)
  <2> HIDE DEF part
  <2> QED BY <1>1, <1>4, FlattenTyped
<1> QED BY <1>5 DEF expand_response_files

-----------------------------------------------------------------------------
(* A nonempty set of positions has a smallest one.                         *)
LEMMA MinOfInterval ==
  ASSUME NEW n \in Nat, NEW s \in SUBSET (1 .. n), s # {} PROVE Min(s) \in s
<1> DEFINE Q == {k \in Nat : \A j \in s : j <= k => \E x \in s : \A y \in s : x <= y}
<1>1. 0 \in Q
  OBVIOUS
<1>2. ASSUME NEW k \in Nat, k \in Q PROVE k + 1 \in Q
  <2> SUFFICES ASSUME NEW j \in s, j <= k + 1 PROVE \E x \in s : \A y \in s : x <= y
    OBVIOUS
  <2>1. CASE \E i \in s : i <= k
    BY <1>2, <2>1
  <2>2. CASE \A i \in s : ~(i <= k)
    <3>1. \A i \in s : i \in Nat /\ j <= i
      BY <2>2
    <3> QED BY <3>1
  <2> QED BY <2>1, <2>2
<1> HIDE DEF Q
<1>3. n \in Q
  BY <1>1, <1>2, Counting
<1>4. \E x \in s : \A y \in s : x <= y
  <2>1. \A j \in s : j <= n => \E x \in s : \A y \in s : x <= y
    BY <1>3 DEF Q
  <2>2. PICK j : j \in s
    OBVIOUS
  <2>3. j <= n
    BY <2>2
  <2> QED BY <2>1, <2>2, <2>3
<1> QED BY <1>4 DEF Min

(* native leaves out launchers and adds nothing.                           *)
LEMMA NativeTyped ==
  ASSUME NEW W, NEW args \in Seq(W) PROVE native(args) \in Seq(W)
<1>1. PICK n, s : n = Len(args) /\ s = {i \in DOMAIN args : args[i] \notin Launchers}
  OBVIOUS
<1>2. n \in Nat /\ DOMAIN args = 1 .. n /\ \A i \in 1 .. n : args[i] \in W
  <2>1. Len(args) \in Nat /\ DOMAIN args = 1 .. Len(args)
    BY Lengths
  <2> QED BY <1>1, <2>1, Elements
<1>3. CASE s = {}
  BY <1>1, <1>3 DEF native
<1>4. CASE s # {}
  <2>1. s \in SUBSET (1 .. n)
    BY <1>1, <1>2
  <2>2. PICK m : m = Min(s)
    OBVIOUS
  <2>3. m \in 1 .. n
    BY <1>2, <1>4, <2>1, <2>2, MinOfInterval
  <2>4. \A i \in m .. n : args[i] \in W
    BY <1>2, <2>3
  <2>5. SubSeq(args, m, n) \in Seq(W)
    <3>1. m \in Int /\ n \in Int
      BY <1>2, <2>3
    <3> QED BY <2>4, <3>1, SubSeqProperties
  <2> QED BY <1>1, <1>4, <2>2, <2>5 DEF native
<1> QED BY <1>3, <1>4

(* The arguments of a unit do not depend on the number it is loaded under. *)
LEMMA LoadedUnit ==
  ASSUME NEW index, NEW entry, entry.file \in Files, entry.command \in Seq(STRING),
         ~load_entry(index, entry).refused
  PROVE  /\ Loaded(load_entry(index, entry).unit)
         /\ load_entry(index, entry).unit.source = entry.file
         /\ \A k : load_entry(k, entry).unit.arguments = load_entry(index, entry).unit.arguments
<1>1. PICK command : command = native(entry.command)
  OBVIOUS
<1> DEFINE args == IF command = << >> THEN command
                   ELSE <<Head(command)>> \o expand_response_files(Tail(command))
           unit(k) == [index |-> k, source |-> entry.file, arguments |-> args,
                       output |-> IF args = << >> THEN "" ELSE original_output(args).output]
           refused(k) == \/ args = << >> \/ {Recursive, Missing} \cap Range(args) # {}
                         \/ original_output(args).option # ""
                         \/ Head(args) \notin Compilers
                         \/ command_parts(unit(k)).refused
<1>2. ASSUME NEW k
      PROVE  load_entry(k, entry).unit = unit(k) /\ (load_entry(k, entry).refused <=> refused(k))
  <2>1. load_entry(k, entry) = [unit |-> unit(k), refused |-> refused(k)]
    BY <1>1 DEF load_entry
  <2> HIDE DEF unit, refused
  <2> QED BY <2>1
<1>3. args \in Seq(Text)
  <2>1. command \in Seq(STRING)
    BY <1>1, NativeTyped
  <2>2. CASE command = << >>
    BY <2>2
  <2>3. CASE command # << >>
    <3>1. Head(command) \in STRING /\ Tail(command) \in Seq(STRING)
      BY <2>1, <2>3, HeadTailProperties
    <3>2. PICK h, e : h = Head(command) /\ e = expand_response_files(Tail(command))
      OBVIOUS
    <3>3. h \in Text /\ e \in Seq(Text)
      BY <3>1, <3>2, StringsAreText, ExpandedTyped
    <3>4. <<h>> \o e \in Seq(Text)
      <4>1. <<h>> \in Seq(Text)
        BY <3>3, Tuples
      <4> QED BY <3>3, <4>1, ConcatProperties
    <3> QED BY <2>3, <3>2, <3>4
  <2> QED BY <2>2, <2>3
<1> HIDE DEF args
<1>4. PICK u : u = load_entry(index, entry).unit
  OBVIOUS
<1>5. u = unit(index) /\ ~refused(index)
  <2> HIDE DEF unit, refused
  <2> QED BY <1>2, <1>4
<1>6. u.source = entry.file /\ u.arguments = args /\ u.output = original_output(args).output
  BY <1>5
<1>7. Loaded(u)
  <2>1. args # << >> /\ original_output(args).option = "" /\ Head(args) \in Compilers
        /\ ~command_parts(u).refused
    BY <1>5
  <2> HIDE DEF unit, refused
  <2> QED BY <1>3, <1>6, <2>1 DEF Loaded
<1>8. \A k : load_entry(k, entry).unit.arguments = args
  <2> TAKE k
  <2>1. load_entry(k, entry).unit = unit(k)
    <3> HIDE DEF unit, refused
    <3> QED BY <1>2
  <2>2. unit(k).arguments = args
    OBVIOUS
  <2> HIDE DEF unit, refused
  <2> QED BY <2>1, <2>2
<1> QED BY <1>4, <1>6, <1>7, <1>8

-----------------------------------------------------------------------------
(* Commands compiled: a unit is one that load_entry made of its own entry, *)
(* under some number, and the command compiled for it translates that      *)
(* entry.                                                                  *)
Taken(u, entries) ==
  /\ u.index \in DOMAIN entries
  /\ \E n : /\ ~load_entry(n, Unwrapped(entries[u.index])).refused
            /\ u.unit = load_entry(n, Unwrapped(entries[u.index])).unit
AllTaken(us, entries) == \E W : us \in Seq(W) /\ \A u \in W : Taken(u, entries)

Faithful(b, entries) ==
  /\ b.unit.source = entries[b.index].file
  /\ b.unit.arguments = load_entry(b.index, Unwrapped(entries[b.index])).unit.arguments
  /\ IsTranslation(b.unit, b.command)
AllFaithful(bs, entries) == \E W : bs \in Seq(W) /\ \A b \in W : Faithful(b, entries)

CommandsInv ==
  /\ pc = "compile" => AllTaken(units, database) /\ AllFaithful(bitcode, database)
  /\ pc # "compile" => bitcode = << >>
CommandsIndInv == TypesIndInv /\ CommandsInv

(* Replacing the wrapper makes a command with the same file.               *)
LEMMA UnwrappedTyped ==
  ASSUME NEW entry \in Commands
  PROVE  /\ Unwrapped(entry).file = entry.file /\ entry.file \in Files
         /\ Unwrapped(entry).command \in Seq(STRING)
<1>1. entry.file \in {"u.c", "-u.c"} /\ entry.command \in Seq(STRING)
  BY DEF Commands
<1>2. PICK c : c = entry.command
  OBVIOUS
<1>3. "c++" \in STRING
  BY WordsAssumption DEF Words, Compilers
<1>4. PICK e, d : e = (IF c[1] = Wrapper THEN "c++" ELSE c[1]) /\ d = [c EXCEPT ![1] = e]
  OBVIOUS
<1>5. d \in Seq(STRING)
  <2>1. c \in Seq(STRING)
    BY <1>1, <1>2
  <2>2. Len(c) \in Nat /\ c \in [1 .. Len(c) -> STRING]
    BY <2>1, LenProperties
  <2>3. CASE 1 \in 1 .. Len(c)
    <3>1. e \in STRING
      BY <1>3, <1>4, <2>2, <2>3
    <3> QED BY <1>4, <2>1, <2>3, <3>1, ExceptSeq
  <2>4. CASE 1 \notin 1 .. Len(c)
    <3>1. d = c
      BY <1>4, <2>2, <2>4
    <3> QED BY <2>1, <3>1
  <2> QED BY <2>3, <2>4
<1>6. Unwrapped(entry) = [entry EXCEPT !.command = d]
  BY <1>2, <1>4 DEF Unwrapped
<1>7. DOMAIN entry = {"file", "command"}
  BY DEF Commands
<1>8. Unwrapped(entry).file = entry.file /\ Unwrapped(entry).command = d
  BY <1>6, <1>7
<1> QED BY <1>1, <1>5, <1>8 DEF Files

(* What is compiled of a unit taken from an entry is faithful to it.       *)
LEMMA TakenIsFaithful ==
  ASSUME NEW entries \in Seq(Commands), NEW u, Taken(u, entries), NEW b,
         ~compile_command(u.unit, "unit.bc").refused,
         b.index = u.index, b.unit = u.unit,
         b.command = compile_command(u.unit, "unit.bc").command
  PROVE  Faithful(b, entries)
<1>1. PICK i, entry, own : i = u.index /\ entry = entries[i] /\ own = Unwrapped(entry)
  OBVIOUS
<1>2. entry \in Commands
  <2>1. i \in DOMAIN entries
    BY <1>1 DEF Taken
  <2> QED BY <1>1, <2>1, ElementOfSeq, LenProperties
<1>3. own.file = entry.file /\ own.file \in Files /\ own.command \in Seq(STRING)
  BY <1>1, <1>2, UnwrappedTyped
<1>4. PICK n : ~load_entry(n, own).refused /\ u.unit = load_entry(n, own).unit
  BY <1>1 DEF Taken
<1>5. /\ Loaded(load_entry(n, own).unit) /\ load_entry(n, own).unit.source = own.file
      /\ \A k : load_entry(k, own).unit.arguments = load_entry(n, own).unit.arguments
  BY <1>3, <1>4, LoadedUnit
<1>6. PICK unit : unit = u.unit
  OBVIOUS
<1>7. Loaded(unit) /\ unit.source = entry.file
      /\ unit.arguments = load_entry(i, own).unit.arguments
  BY <1>3, <1>4, <1>5, <1>6
<1>8. IsTranslation(unit, compile_command(unit, "unit.bc").command)
  BY <1>6, <1>7, RewritingIsFaithful
<1> QED BY <1>1, <1>6, <1>7, <1>8 DEF Faithful

(* The units selected are taken from the entries of their indices.         *)
LEMMA SelectedAreTaken ==
  ASSUME NEW rules, database \in Seq(Commands), ~select_units(rules).refused
  PROVE  AllTaken(select_units(rules).units, database)
<1> DEFINE D == DOMAIN database
           all == [i \in D |-> i]
           indices == Only(all, {i \in D : Selected(database[i], rules)})
           loaded(k) == load_entry(k, Unwrapped(database[indices[k]]))
           taken(k) == [index |-> indices[k], unit |-> loaded(k).unit]
           units_ == [k \in DOMAIN indices |-> taken(k)]
           W == {taken(k) : k \in DOMAIN indices}
<1>1. select_units(rules).units = units_ /\ \A k \in DOMAIN indices : ~loaded(k).refused
  BY DEF select_units
<1>2. indices \in Seq(D)
  <2>1. all \in Seq(D)
    BY LenProperties
  <2> QED BY <2>1, OnlyIn
<1>3. Len(indices) \in Nat /\ DOMAIN indices = 1 .. Len(indices) /\ \A k \in DOMAIN indices : indices[k] \in D
  <2> HIDE DEF indices
  <2> QED BY <1>2, LenProperties, ElementOfSeq
<1> HIDE DEF indices, D
<1>4. units_ \in Seq(W)
  BY <1>3
<1>5. \A u \in W : Taken(u, database)
  <2> SUFFICES ASSUME NEW k \in DOMAIN indices PROVE Taken(taken(k), database)
    OBVIOUS
  <2>1. taken(k).index \in DOMAIN database
    BY <1>3 DEF D
  <2>2. taken(k).index = indices[k] /\ taken(k).unit = loaded(k).unit /\ ~loaded(k).refused
    BY <1>1
  <2> QED BY <2>1, <2>2 DEF Taken
<1> QED BY <1>1, <1>4, <1>5 DEF AllTaken

(* Compiling a unit adds one command, and it is faithful.                  *)
LEMMA CompileStep ==
  ASSUME CommandsIndInv, Compile
  PROVE  CommandsInv'
<1>1. PICK W : units \in Seq(W) /\ \A u \in W : Taken(u, database)
  BY DEF CommandsIndInv, CommandsInv, Compile, AllTaken
<1>2. PICK V : bitcode \in Seq(V) /\ \A b \in V : Faithful(b, database)
  BY DEF CommandsIndInv, CommandsInv, Compile, AllFaithful
<1>3. PICK u, b :
        /\ u = Head(units) /\ b.index = u.index /\ b.unit = u.unit
        /\ b.command = compile_command(u.unit, "unit.bc").command
        /\ ~compile_command(u.unit, "unit.bc").refused
        /\ bitcode' = Append(bitcode, b)
  <2>1. PICK u : u = Head(units)
    OBVIOUS
  <2>2. PICK c : c = compile_command(u.unit, "unit.bc")
    OBVIOUS
  <2>3. PICK b : b = [index |-> u.index, unit |-> u.unit, command |-> c.command]
    OBVIOUS
  <2>4. bitcode' = Append(bitcode, b) /\ ~c.refused
    BY <2>1, <2>2, <2>3 DEF Compile
  <2>5. b.index = u.index /\ b.unit = u.unit /\ b.command = c.command
    BY <2>3
  <2> QED BY <2>1, <2>2, <2>4, <2>5
<1>4. u \in W /\ units' \in Seq(W) /\ database' = database /\ pc = "compile" /\ pc' = "compile"
  BY <1>1, <1>3, HeadTailProperties DEF Compile
<1>5. Faithful(b, database)
  <2>1. database \in Seq(Commands) /\ Taken(u, database)
    BY <1>1, <1>4 DEF CommandsIndInv, TypesIndInv, TypesInv
  <2> QED BY <1>3, <2>1, TakenIsFaithful
<1>6. AllFaithful(bitcode', database)
  <2>1. bitcode \in Seq(V \cup {b})
    BY <1>2
  <2>2. bitcode' \in Seq(V \cup {b})
    BY <1>3, <2>1, AppendProperties
  <2>3. \A a \in V \cup {b} : Faithful(a, database)
    BY <1>2, <1>5
  <2> QED BY <2>2, <2>3 DEF AllFaithful
<1>7. AllTaken(units', database)
  BY <1>1, <1>4 DEF AllTaken
<1> QED BY <1>4, <1>6, <1>7 DEF CommandsInv

(* The invariant holds of the beginning, ...                               *)
LEMMA InitCommands == Init => CommandsIndInv
<1>1. Init => TypesIndInv
  BY InitCompare, EmptySeq DEF Init, TypesIndInv, TypesInv
<1> QED BY <1>1 DEF Init, CommandsIndInv, CommandsInv

(* ... each step keeps it, ...                                             *)
LEMMA NextCommands == CommandsIndInv /\ [Next]_vars => CommandsIndInv'
<1> SUFFICES ASSUME CommandsIndInv, [Next]_vars PROVE CommandsInv'
  BY NextTypes DEF CommandsIndInv
<1>1. CASE AddEntry \/ AddArgument
  BY <1>1 DEF AddEntry, AddArgument, CommandsIndInv, CommandsInv
<1>2. CASE Start
  <2>1. pc = "idle" /\ bitcode' = bitcode /\ bitcode = << >>
    BY <1>2 DEF Start, CommandsIndInv, CommandsInv
  <2>2. PICK rules \in Rules :
          LET selection == select_units(rules) IN
          IF selection.refused THEN pc' = "idle" /\ database' = << >> /\ units' = << >>
          ELSE pc' = "compile" /\ database' = database /\ units' = selection.units
    BY <1>2 DEF Start
  <2>3. CASE select_units(rules).refused
    BY <2>1, <2>2, <2>3 DEF CommandsInv
  <2>4. CASE ~select_units(rules).refused
    <3>1. pc' = "compile" /\ database' = database /\ units' = select_units(rules).units
      BY <2>2, <2>4
    <3>2. AllTaken(units', database')
      <4>1. database \in Seq(Commands)
        BY DEF CommandsIndInv, TypesIndInv, TypesInv
      <4> QED BY <2>4, <3>1, <4>1, SelectedAreTaken
    <3>3. AllFaithful(bitcode', database')
      <4>1. bitcode' \in Seq({})
        BY <2>1, EmptySeq
      <4>2. \A b \in {} : Faithful(b, database')
        OBVIOUS
      <4> QED BY <4>1, <4>2 DEF AllFaithful
    <3> QED BY <3>1, <3>2, <3>3 DEF CommandsInv
  <2> QED BY <2>3, <2>4
<1>3. CASE Compile
  BY <1>3, CompileStep
<1>4. CASE WriteManifest \/ WriteSummary \/ WriteComparison \/ Stop
  BY <1>4 DEF WriteManifest, WriteSummary, WriteComparison, Stop, End, CommandsInv
<1>5. CASE RunAnalyzer \/ ParseLog \/ WriteTable \/ OpenSummary \/ Compare
  <2>1. pc # "compile" /\ pc' # "compile" /\ bitcode' = bitcode
    BY <1>5 DEF RunAnalyzer, ParseLog, WriteTable, OpenSummary, Compare
  <2> QED BY <2>1 DEF CommandsIndInv, CommandsInv
<1>6. CASE UNCHANGED vars
  BY <1>6 DEF vars, CommandsIndInv, CommandsInv
<1> QED BY <1>1, <1>2, <1>3, <1>4, <1>5, <1>6 DEF Next, Analyze

(* ... and it implies that commands are faithful.                          *)
LEMMA CommandsIndImplies == CommandsIndInv => RewriteIsFaithful
<1> SUFFICES ASSUME CommandsIndInv, NEW k \in DOMAIN bitcode
             PROVE  LET b == bitcode[k]
                        own == load_entry(b.index, Unwrapped(database[b.index])).unit
                    IN /\ b.unit.source = database[b.index].file
                       /\ b.unit.arguments = own.arguments
                       /\ Denotes(b.unit.source) \in {i[1] : i \in Range(Meaning(b.command).inputs)}
                       /\ SameTranslation(b.unit, b.command, "unit.bc",
                                          << <<"-Xclang", "-no-opaque-pointers">>, <<"-g">> >>)
  BY DEF RewriteIsFaithful
<1>1. pc = "compile"
  <2>1. DOMAIN << >> = {}
    OBVIOUS
  <2> QED BY <2>1 DEF CommandsIndInv, CommandsInv
<1>2. PICK W : bitcode \in Seq(W) /\ \A b \in W : Faithful(b, database)
  BY <1>1 DEF CommandsIndInv, CommandsInv, AllFaithful
<1>3. PICK b : b = bitcode[k]
  OBVIOUS
<1>4. b \in W
  BY <1>2, <1>3, ElementOfSeq, LenProperties
<1>5. Faithful(b, database)
  BY <1>2, <1>4
<1> QED BY <1>3, <1>5 DEF Faithful, IsTranslation, Added

(* Every command compiled translates the source of its own entry of the    *)
(* database, in the language in force there, with its options and their    *)
(* values, and writes nothing else: for every database and all rules.      *)
THEOREM CommandsAreFaithful == Spec => []RewriteIsFaithful
BY InitCommands, NextCommands, CommandsIndImplies, PTL DEF Spec
=============================================================================
