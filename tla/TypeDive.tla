------------------------------- MODULE TypeDive --------------------------------
(***************************************************************************)
(* typedive.py: one output directory, in which analyze compiles the units  *)
(* of a compilation database, runs TypeDive in three modes and tabulates   *)
(* the candidates it prints, and compare matches them with a trace.        *)
(*                                                                         *)
(* The database is written entry by entry before analyze reads it.  A      *)
(* candidate is a call site of the IR and a function it may call; what the *)
(* analyzer finds, and what of it reaches its log, is chosen.  A traced    *)
(* call is a pair of offsets with a count; Frames is what addr2line says   *)
(* of an offset, innermost frame first.  analyze and compare may stop      *)
(* anywhere, with an error or killed: neither cleans up.                   *)
(***************************************************************************)
EXTENDS CompileCommands

CONSTANTS
  Arguments,      \* arguments of the commands in the database
  MaxSize,        \* bound on the arguments in the database
  Rules,          \* pairs of rules (--include-command, --exclude-command)
  CandidateSets,  \* candidates that the analyzer may find in a mode
  Site,           \* Site[s]: file and line of call site s of the IR
  Function,       \* Function[f]: name and file of function f of the IR
  CallSite,       \* CallSite[c]: site of the IR that offset c comes from
  Entry,          \* Entry[t]: functions of the IR that offset t is the entry of
  Traces,         \* calls per pair of <<module, offset>>
  Binaries        \* Frames of the binaries that a trace may be symbolized with

ASSUME CandidateSetsAssumption ==
  \A c \in CandidateSets : IsFiniteSet(c) /\ c \subseteq (DOMAIN Site) \X (DOMAIN Function)

ModeNames == <<"flta", "one_layer", "mlta">>
Modes == Range(ModeNames)
Module == "app"
Absent == [file |-> "absent"]
Torn == [file |-> "torn"]
Whole(data) == [file |-> "whole", data |-> data]
IsWhole(file) == file.file = "whole"

VARIABLES
  pc,          \* idle, compile, analyze, parse, table, summary, compare
  database,    \* entries; forgotten when nothing reads them any more
  exists,      \* the output directory exists
  units,       \* units still to be compiled, with their original indices
  bitcode,     \* bitcode compiled: index in the database, unit and command
  mode,        \* number of the mode
  log,         \* raw log of the mode
  pairs,       \* parsed log of the mode
  tables,      \* tables[m]: <m>.tsv
  summary,     \* summary.json: Absent, Torn, or the number of pairs by mode
  comparison,  \* comparison.json: Absent, Torn, or the document
  document,    \* document that compare writes
  candidates   \* history: candidates[m], what the analyzer found in all units

vars == <<pc, database, exists, units, bitcode, mode, log, pairs, tables, summary,
          comparison, document, candidates>>
analysis == <<mode, log, pairs, tables, candidates>>
results == <<summary, comparison, document>>

Wrapper == "wrap"    \* --compiler-wrapper wrap=c++
Words == Compilers \cup Launchers \cup {Wrapper} \cup Arguments

ASSUME WordsAssumption == Words \subseteq STRING

Init ==
  /\ pc = "idle" /\ database = << >> /\ exists = FALSE
  /\ units = << >> /\ bitcode = << >>
  /\ mode = 1 /\ log = Absent /\ pairs = {}
  /\ tables = [m \in Modes |-> Absent]
  /\ summary = Absent /\ comparison = Absent /\ document = Absent
  /\ candidates = [m \in Modes |-> {}]

-----------------------------------------------------------------------------
(* The build system writes the database: an entry, then its arguments.     *)
(* MaxSize bounds the arguments, of which a second entry, an unusual       *)
(* source and a compiler other than cc cost one each.                      *)
Weight(entry) ==
  LET extra(condition) == IF condition THEN 1 ELSE 0 IN
  Len(entry.command) + extra(entry.file # "u.c") + extra(entry.command[1] # "cc")

Size(entries) ==
  SumFunction([i \in DOMAIN entries |-> Weight(entries[i])]) - 1

AddEntry ==
  /\ pc = "idle" /\ ~exists
  /\ \E file \in {"u.c", "-u.c"}, compiler \in Compilers \cup Launchers \cup {Wrapper} :
       database' = Append(database, [file |-> file, command |-> <<compiler>>])
  /\ Size(database') <= MaxSize
  /\ UNCHANGED <<pc, exists, units, bitcode, analysis, results>>

AddArgument ==
  /\ pc = "idle" /\ ~exists /\ database # << >> /\ Size(database) < MaxSize
  /\ \E a \in Arguments :
       database' = [database EXCEPT ![Len(database)].command = Append(@, a)]
  /\ UNCHANGED <<pc, exists, units, bitcode, analysis, results>>

-----------------------------------------------------------------------------
(* The commands are read, so the database is forgotten.                    *)
End ==
  /\ pc' = "idle"
  /\ database' = << >> /\ units' = << >> /\ bitcode' = << >>
  /\ log' = Absent /\ pairs' = {} /\ document' = Absent

(* Literal rules on the arguments; excluding wins.                         *)
Selected(entry, rules) ==
  /\ rules[1] = {} \/ Range(entry.command) \cap rules[1] # {}
  /\ Range(entry.command) \cap rules[2] = {}

(* Only a first argument is replaced.                                      *)
Unwrapped(entry) ==
  [entry EXCEPT !.command[1] = IF @ = Wrapper THEN "c++" ELSE @]

select_units(rules) ==
  LET indices == Only([i \in DOMAIN database |-> i],
                      {i \in DOMAIN database : Selected(database[i], rules)})
      loaded == [k \in DOMAIN indices |-> load_entry(k, Unwrapped(database[indices[k]]))]
  IN [refused |-> indices = << >> \/ \E k \in DOMAIN loaded : loaded[k].refused,
      units |-> [k \in DOMAIN indices |-> [index |-> indices[k], unit |-> loaded[k].unit]]]

(* new_output refuses an existing directory; then the database is read.   *)
Start ==
  /\ pc = "idle" /\ ~exists /\ database # << >>
  /\ exists' = TRUE
  /\ \E rules \in Rules :
       LET selection == select_units(rules) IN
       IF selection.refused THEN pc' = "idle" /\ database' = << >> /\ units' = << >>
       ELSE pc' = "compile" /\ database' = database /\ units' = selection.units
  /\ UNCHANGED <<bitcode, analysis, results>>

TypedPointers == <<"-Xclang", "-no-opaque-pointers", "-g">>

(* Inserted before the last five arguments.                                *)
compile_command(unit, output) ==
  LET native_command == bitcode_command(unit, output)
      at == Len(native_command.command) - 5
  IN [native_command EXCEPT
        !.command = SubSeq(@, 1, at) \o TypedPointers \o SubSeq(@, at + 1, Len(@))]

Compile ==
  /\ pc = "compile" /\ units # << >>
  /\ LET compiled == compile_command(Head(units).unit, "unit.bc") IN
     /\ ~compiled.refused
     /\ bitcode' = Append(bitcode, [index |-> Head(units).index, unit |-> Head(units).unit,
                                    command |-> compiled.command])
  /\ units' = Tail(units)
  /\ UNCHANGED <<pc, database, exists, analysis, results>>

(* bitcode.list and manifest.json; what follows depends on neither.        *)
WriteManifest ==
  /\ pc = "compile" /\ units = << >>
  /\ pc' = "analyze" /\ database' = << >> /\ bitcode' = << >>
  /\ UNCHANGED <<exists, units, analysis, results>>

-----------------------------------------------------------------------------
Records(lines) == {lines[i].pair : i \in DOMAIN lines}
SitesOf(ps) == {p[1] : p \in ps}

(* The records that reach the log: a pair may be printed twice, also with  *)
(* another text, and lines that are torn or lost are not there.  There are *)
(* no statistics if the log is cut.                                        *)
Logs(found, unreadable) ==
  LET line == [pair : found, ir : {"text", "other text"}]
  IN [lines : UNION {[1 .. n -> line] : n \in 0 .. Cardinality(found) + 1},
      targets : {Cardinality(found), -1}, calls : {Cardinality(SitesOf(found))},
      unreadable : {unreadable}]

(* A module that cannot be read is left out, and the exit is 0.            *)
RunAnalyzer ==
  /\ pc = "analyze"
  /\ \E all \in CandidateSets : \E found \in {all, {}} :
       /\ candidates' = [candidates EXCEPT ![ModeNames[mode]] = all]
       /\ log' \in Logs(found, found # all)
  /\ pc' = "parse"
  /\ UNCHANGED <<database, exists, units, bitcode, mode, pairs, tables, results>>

Conflict(lines) ==
  \E i, j \in DOMAIN lines : lines[i].pair = lines[j].pair /\ lines[i].ir # lines[j].ir

(* Mutant of parse_log: only the number of call sites is reconciled.       *)
ParseLogSites ==
  /\ ~log.unreadable /\ ~Conflict(log.lines)
  /\ log.targets # -1
  /\ Cardinality(SitesOf(Records(log.lines))) = log.calls

parse_log ==
  /\ ~log.unreadable /\ ~Conflict(log.lines)
  /\ log.targets # -1
  /\ Cardinality(Records(log.lines)) = log.targets
  /\ Cardinality(SitesOf(Records(log.lines))) = log.calls

ParseLog ==
  /\ pc = "parse" /\ parse_log
  /\ pairs' = Records(log.lines)
  /\ log' = Absent
  /\ tables' = [tables EXCEPT ![ModeNames[mode]] = Torn]
  /\ pc' = "table"
  /\ UNCHANGED <<database, exists, units, bitcode, mode, candidates, results>>

(* Mutant of WriteTable: the loop goes on after the last mode.             *)
WriteTableOnceMore ==
  /\ pc = "table"
  /\ tables' = [tables EXCEPT ![ModeNames[mode]] = Whole(pairs)]
  /\ pairs' = {}
  /\ pc' = IF mode < Len(ModeNames) THEN "analyze" ELSE "summary"
  /\ mode' = mode + 1
  /\ UNCHANGED <<database, exists, units, bitcode, log, candidates, results>>

WriteTable ==
  /\ pc = "table"
  /\ tables' = [tables EXCEPT ![ModeNames[mode]] = Whole(pairs)]
  /\ pairs' = {}
  /\ IF mode < Len(ModeNames) THEN pc' = "analyze" /\ mode' = mode + 1
     ELSE pc' = "summary" /\ mode' = mode
  /\ UNCHANGED <<database, exists, units, bitcode, log, candidates, results>>

(* Torn while it is written.                                               *)
OpenSummary ==
  /\ pc = "summary" /\ summary = Absent
  /\ summary' = Torn
  /\ UNCHANGED <<pc, database, exists, units, bitcode, analysis, comparison, document>>

WriteSummary ==
  /\ pc = "summary" /\ summary = Torn
  /\ summary' = Whole([m \in Modes |-> Cardinality(tables[m].data)])
  /\ End
  /\ UNCHANGED <<exists, mode, tables, candidates, comparison>>

-----------------------------------------------------------------------------
(* An edge without source information stands for one pair of offsets.      *)
Resolved(edge) == edge.file # "" /\ edge.line # 0 /\ edge.function # "??"

Internal(trace) ==
  {call \in DOMAIN trace : call[1][1] = Module /\ call[2][1] = Module}

ASSUME TracesAssumption ==
  \A trace \in Traces :
    /\ IsFiniteSet(DOMAIN trace) /\ \A call \in DOMAIN trace : trace[call] \in Nat
    /\ \A call \in Internal(trace) :
         call[1][2] \in DOMAIN CallSite /\ call[2][2] \in DOMAIN Entry

(* The debug information is true: where it has a line it is the line of    *)
(* the call site, where it has a function it has the name and the file of  *)
(* those that begin there, and these are all functions of that name in     *)
(* that file.                                                              *)
ASSUME FramesAssumption ==
  \A frames \in Binaries :
    /\ \A c \in DOMAIN CallSite :
         LET at == Head(frames[c]) IN
         (at.file # "" /\ at.line # 0) => Site[CallSite[c]] = <<at.file, at.line>>
    /\ \A t \in DOMAIN Entry :
         LET at == Last(frames[t])
             named == {f \in DOMAIN Function : Function[f].name = at.function}
         IN (at.function # "??") =>
              /\ Entry[t] # {} /\ Entry[t] \subseteq named
              /\ \A f \in Entry[t] : at.file = "" \/ Function[f].file \in {"", at.file}
              /\ \A f \in named : (at.file # "" /\ Function[f].file = at.file) => f \in Entry[t]

(* Mutant of Attributed: the frames are taken from the other end.          *)
AttributedSwapped(frames, call) ==
  LET c == Last(frames[call[1][2]])
      t == Head(frames[call[2][2]])
  IN [file |-> c.file, line |-> c.line, function |-> t.function, callee_file |-> t.file]

(* symbolize_offsets: the caller is the expression that calls, innermost;  *)
(* the callee is the function that begins there, outermost.                *)
Attributed(frames, call) ==
  LET c == Head(frames[call[1][2]])
      t == Last(frames[call[2][2]])
  IN [file |-> c.file, line |-> c.line, function |-> t.function, callee_file |-> t.file]

(* Mutant of EdgeKey: edges are merged by what is known of their source.   *)
EdgeKeyBySource(frames, call) == [source |-> Attributed(frames, call), only |-> {}]

EdgeKey(frames, call) ==
  LET edge == Attributed(frames, call)
  IN [source |-> edge, only |-> IF Resolved(edge) THEN {} ELSE {call}]

Events(trace, calls) == SumFunctionOnSet(trace, calls)

(* The calls of the trace by edge.                                         *)
Observed(frames, trace) ==
  LET key(call) == EdgeKey(frames, call)
      members(k) == {call \in Internal(trace) : key(call) = k}
  IN {[source |-> k.source,
       runtime_pairs |-> members(k),
       trace_events |-> Events(trace, members(k))] :
      k \in {key(call) : call \in Internal(trace)}}

Matches(edge, pair) ==
  /\ Site[pair[1]] = <<edge.file, edge.line>>
  /\ Function[pair[2]].name = edge.function
  /\ \/ edge.callee_file = "" \/ Function[pair[2]].file = ""
     \/ edge.callee_file = Function[pair[2]].file

compare_pairs(static, dynamic) ==
  LET resolved == {e \in dynamic : Resolved(e.source)}
      found(e) == {p \in static : Matches(e.source, p)}
  IN [covered |-> {[edge |-> e, sites |-> SitesOf(found(e))] :
                     e \in {d \in resolved : found(d) # {}}},
      missing |-> {e \in resolved : found(e) = {}},
      unresolved |-> dynamic \ resolved]

(* Edges that MLTA misses and another mode keeps.                          *)
Removed(modes) ==
  LET baseline == UNION {{c.edge.source : c \in modes[m].covered} : m \in {"flta", "one_layer"}}
  IN {e \in modes["mlta"].missing : e.source \in baseline}

(* Reads summary.json first; exclusive creation of comparison.json last.   *)
Compare ==
  /\ pc = "idle" /\ IsWhole(summary) /\ comparison = Absent
  /\ \E trace \in Traces, frames \in Binaries :
       /\ Internal(trace) # {}
       /\ LET dynamic == Observed(frames, trace)
              modes == [m \in Modes |-> compare_pairs(tables[m].data, dynamic)]
          IN document' = Whole([trace |-> trace, frames |-> frames, modes |-> modes,
                                removed |-> Removed(modes)])
  /\ comparison' = Torn
  /\ pc' = "compare"
  /\ UNCHANGED <<database, exists, units, bitcode, analysis, summary>>

WriteComparison ==
  /\ pc = "compare"
  /\ comparison' = document
  /\ End
  /\ UNCHANGED <<exists, mode, tables, candidates, summary>>

(* An error, or a signal: what is in the directory stays as it is.         *)
Stop ==
  /\ pc # "idle"
  /\ End
  /\ UNCHANGED <<exists, mode, tables, candidates, summary, comparison>>

Analyze ==
  \/ Start \/ Compile \/ WriteManifest \/ RunAnalyzer \/ ParseLog
  \/ WriteTable \/ OpenSummary \/ WriteSummary
Next ==
  \/ AddEntry \/ AddArgument \/ Analyze \/ Compare \/ WriteComparison \/ Stop

Spec == Init /\ [][Next]_vars

-----------------------------------------------------------------------------
(* Types; a directory that does not exist holds nothing.                   *)
TypeOK ==
  /\ pc \in {"idle", "compile", "analyze", "parse", "table", "summary", "compare"}
  /\ exists \in BOOLEAN /\ mode \in DOMAIN ModeNames
  /\ \A i \in DOMAIN database : database[i].command \in Seq(STRING)
  /\ \A m \in Modes : tables[m] \in {Absent, Torn} \/ \E c \in CandidateSets : tables[m].data \subseteq c
  /\ summary \in {Absent, Torn} \/ summary.data \in [Modes -> Nat]
  /\ ~exists => (pc = "idle" /\ summary = Absent /\ comparison = Absent)
  /\ (comparison # Absent) => IsWhole(summary)

(* Every unit that is compiled is compiled as its own entry of the         *)
(* database says: the bitcode named after entry i translates the source of *)
(* entry i in the language in force there, with its options and their      *)
(* values in order, and writes nothing else; and the output by which units *)
(* are selected is the one the driver would write.  "Values of options     *)
(* must never be mistaken for an input or an output option"                *)
(* (scan_project_ir.py, command_parts, bitcode_command; analyze).          *)
RewriteIsFaithful ==
  \A k \in DOMAIN bitcode :
    LET b == bitcode[k]
        own == load_entry(b.index, Unwrapped(database[b.index])).unit
    IN /\ b.unit.source = database[b.index].file
       /\ b.unit.arguments = own.arguments
       /\ Denotes(b.unit.source) \in {i[1] : i \in Range(Meaning(b.command).inputs)}
       /\ SameTranslation(b.unit, b.command, "unit.bc",
                          << <<"-Xclang", "-no-opaque-pointers">>, <<"-g">> >>)

(* A summary.json that can be read vouches for three whole tables, each of *)
(* which holds exactly the candidates found in all units: no line of a log *)
(* lost, torn or printed twice, no module skipped (parse_log, analyze).    *)
TablesAreExact ==
  IsWhole(summary) =>
    \A m \in Modes : /\ tables[m] = Whole(candidates[m])
                     /\ summary.data[m] = Cardinality(candidates[m])

(* The edges of a mode's comparison.                                       *)
EdgesOf(r) == {c.edge : c \in r.covered} \cup r.missing \cup r.unresolved

(* Every call of the trace between functions of the module is in one edge  *)
(* of every mode, an edge is covered, missing or unresolved, and only      *)
(* pairs with the same source information share one (compare_pairs).       *)
EveryCallInOneEdge ==
  IsWhole(comparison) =>
    \A m \in Modes :
      LET r == comparison.data.modes[m] IN
      /\ \A call \in Internal(comparison.data.trace) :
           Cardinality({e \in EdgesOf(r) : call \in e.runtime_pairs}) = 1
      /\ Cardinality(r.covered) + Cardinality(r.missing) + Cardinality(r.unresolved)
           = Cardinality(EdgesOf(r))
      /\ \A e \in r.unresolved : Cardinality(e.runtime_pairs) = 1

(* So a comparison accounts for every such call, and for all its events    *)
(* (compare).                                                              *)
EveryCallIsAccounted ==
  /\ EveryCallInOneEdge
  /\ IsWhole(comparison) =>
       \A m \in Modes :
         SumFunction([e \in EdgesOf(comparison.data.modes[m]) |-> e.trace_events]) =
           Events(comparison.data.trace, Internal(comparison.data.trace))

(* The functions of the IR that the target of a call may be: those that    *)
(* begin there and, if one side has no file, those of the same name.       *)
MayCall(frames, call) ==
  {f \in DOMAIN Function :
     \/ f \in Entry[call[2][2]]
     \/ /\ \E e \in Entry[call[2][2]] : Function[e].name = Function[f].name
        /\ Last(frames[call[2][2]]).file = "" \/ Function[f].file = ""}

(* The candidates on the line of the call site that was really executed.   *)
CandidatesOf(m, frames, call) ==
  {p \in candidates[m] : /\ Site[p[1]] = Site[CallSite[call[1][2]]]
                         /\ p[2] \in MayCall(frames, call)}

(* With debug information, a call that was really executed is covered in a *)
(* mode if and only if the mode has a candidate for it, whose call sites   *)
(* are then listed, however caller and callee were inlined; and it is      *)
(* listed as removed by MLTA if and only if another mode has one and MLTA  *)
(* has none (symbolize_offsets, compare_pairs, compare).                   *)
CandidatesAreFound ==
  IsWhole(comparison) =>
    LET frames == comparison.data.frames
        known(call) == Resolved(Attributed(frames, call))
        has(m, call) == CandidatesOf(m, frames, call) # {}
    IN \A call \in Internal(comparison.data.trace) :
         known(call) =>
           /\ \A m \in Modes :
                {c.sites : c \in {d \in comparison.data.modes[m].covered :
                                    call \in d.edge.runtime_pairs}} =
                  IF has(m, call) THEN {SitesOf(CandidatesOf(m, frames, call))} ELSE {}
           /\ (\E e \in comparison.data.removed : call \in e.runtime_pairs) <=>
                (~has("mlta", call) /\ (has("flta", call) \/ has("one_layer", call)))
=============================================================================
