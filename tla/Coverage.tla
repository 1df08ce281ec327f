------------------------------ MODULE Coverage -------------------------------
(***************************************************************************)
(* From a binary to its coverage: scan.py and elf_addresses.py list the    *)
(* indirect calls of a binary, tests run it under the tracer, report.py    *)
(* reads both and counts.  Each names a callsite in a coordinate of its    *)
(* own: the ELF virtual address (objdump, addr2line), the address in the   *)
(* running process, and the offset in the module, in which they meet.      *)
(*                                                                         *)
(* The tracer is reduced to the rows it leaves (see Tracer), the suite to  *)
(* a CSV with the rows of all tests.                                       *)
(***************************************************************************)
EXTENDS Integers, Sequences, FiniteSetsExt

CONSTANTS
  PageSize,     \* 4096 in the program
  Radix,        \* 16: a number that is cut loses its last digits
  Images,       \* builds of the binary
  LoadBiases,   \* where a position independent binary may be mapped
  Tests,
  LibuvCompat,  \* --libuv-compat
  MaxCalls      \* bound on the calls, and on the rows

ASSUME ConstantsAssumption ==
  /\ PageSize \in Nat \ {0} /\ Radix \in Nat \ {0, 1}
  /\ LoadBiases \subseteq Nat /\ MaxCalls \in Nat

(* An image has the PT_LOAD segments [vaddr, size, align] and, at each     *)
(* address of a call instruction, whether the call is indirect, the names  *)
(* that objdump and addr2line give it (runtime, uv or other) and the       *)
(* directories that hold its source line (source, test, testLike).         *)
(*                                                                         *)
(* elf_image_base refuses a file without segments; code is in a segment.   *)
ASSUME ImagesAssumption ==
  \A i \in Images :
    /\ i.loads # {}
    /\ \A s \in i.loads : s.vaddr \in Nat /\ s.size \in Nat \ {0}
    /\ IsFiniteSet(DOMAIN i.code)
    /\ \A va \in DOMAIN i.code :
         \E s \in i.loads : va \in s.vaddr .. s.vaddr + s.size - 1

VARIABLES
  pc,       \* scan, trace, load, report, done
  image,    \* the binary on disk
  bias,     \* load bias of the processes
  mode,     \* fast, edge
  static,   \* static.json: base, and the instruction text by offset
  rows,     \* rows of suite.csv
  cut,      \* what suite.csv lost at its end: none, target, row
  next,     \* load_dynamic: number of rows read
  executed, \* load_dynamic: callers
  edges,    \* load_dynamic: the rows [caller, target, test] of each edge
  skipped,  \* load_dynamic: number of rows skipped
  outcome,  \* what report.py reports
  calls,    \* history: the indirect calls made, [site, offset, target, test]
  scanned   \* history: the image that was scanned and run

vars == <<pc, image, bias, mode, static, rows, cut, next, executed, edges, skipped,
          outcome, calls, scanned>>
loaded == <<next, executed, edges, skipped>>

None == [kind |-> "none"]
Unreadable == [kind |-> "unreadable"]
Point(p) == pc = p
Goto(p) == pc' = p

-----------------------------------------------------------------------------
(* Addresses.                                                              *)

Page(a) == (a \div PageSize) * PageSize

(* Mutant of ElfImageBase: rounds to the segment's alignment.              *)
AlignedImageBase(loads) == Min({(s.vaddr \div s.align) * s.align : s \in loads})

(* elf_image_base.                                                         *)
ElfImageBase(loads) == Min({Page(s.vaddr) : s \in loads})

(* The pages that the loader maps; DynamoRIO's module starts at the first. *)
MappedPages(loads, at) ==
  {at + Page(a) : a \in UNION {s.vaddr .. s.vaddr + s.size - 1 : s \in loads}}
ModuleStart(loads, at) == Min(MappedPages(loads, at))

(* trace_print_module_offset, for the instruction at an ELF address.       *)
TraceOffset(va) == (va + bias) - ModuleStart(image.loads, bias)

Site(module, offset) == [module |-> module, offset |-> offset]

-----------------------------------------------------------------------------
IndirectCalls(i) == {va \in DOMAIN i.code : i.code[va].indirect}

Init ==
  /\ pc = "scan"
  /\ image \in Images
  /\ bias \in (IF image.pie THEN LoadBiases ELSE {0})
  /\ mode \in {"fast", "edge"}
  /\ static = None
  /\ rows = << >> /\ cut = "none"
  /\ next = 0 /\ executed = {} /\ edges = << >> /\ skipped = 0
  /\ outcome = None
  /\ calls = << >>
  /\ scanned = image

(* Mutant of ScanIndirectCalls: keeps the ELF addresses.                   *)
ScanElfAddresses(i) ==
  [va \in IndirectCalls(i) |-> i.code[va].operand]

(* scan_indirect_calls: the operand's name by the offset of the call.      *)
ScanIndirectCalls(i) ==
  LET base == ElfImageBase(i.loads)
  IN [o \in {va - base : va \in IndirectCalls(i)} |-> i.code[base + o].operand]

Scan ==
  /\ Point("scan")
  /\ static' = [kind |-> "static", base |-> ElfImageBase(image.loads),
                sites |-> ScanIndirectCalls(image)]
  /\ Goto("trace")
  /\ UNCHANGED <<image, bias, mode, rows, cut, loaded, outcome, calls, scanned>>

Row(caller, target, test) ==
  [kind |-> "row", caller |-> caller, target |-> target, test |-> test]

(* A test makes an indirect call, to a function of the binary or of a      *)
(* library.  In fast mode a row has no target, and only the first call     *)
(* of each process is sure to leave one.                                   *)
Call ==
  /\ Point("trace") /\ Len(calls) < MaxCalls /\ Len(rows) < MaxCalls
  /\ \E va \in IndirectCalls(image), to \in {"binary", "library"}, test \in Tests :
       LET caller == Site("binary", TraceOffset(va))
           target == Site(to, 0)
           call == [site |-> va, offset |-> caller.offset, target |-> target, test |-> test]
       IN /\ calls' = Append(calls, call)
          /\ \/ mode = "edge" /\ rows' = Append(rows, Row(caller, target, test))
             \/ mode = "fast" /\ rows' = Append(rows, Row(caller, None, test))
             \/ /\ mode = "fast"
                /\ \E i \in DOMAIN calls : calls[i].site = va /\ calls[i].test = test
                /\ UNCHANGED rows
  /\ UNCHANGED <<pc, image, bias, mode, static, cut, loaded, outcome, scanned>>

(* A library makes an indirect call, at an offset the binary may have too. *)
CallInLibrary ==
  /\ Point("trace") /\ Len(rows) < MaxCalls
  /\ \E va \in IndirectCalls(image), test \in Tests :
       LET at == Site("library", TraceOffset(va))
       IN rows' = Append(rows, Row(at, IF mode = "edge" THEN at ELSE None, test))
  /\ UNCHANGED <<pc, image, bias, mode, static, cut, loaded, outcome, calls, scanned>>

(* An older trace holds a header or something else among its rows.         *)
Damaged ==
  /\ Point("trace") /\ Len(rows) < MaxCalls
  /\ rows' = Append(rows, [kind |-> "damaged"])
  /\ UNCHANGED <<pc, image, bias, mode, static, cut, loaded, outcome, calls, scanned>>

(* The binary is built anew after the scan and the tests.                  *)
Rebuild ==
  /\ Point("trace")
  /\ image' \in Images \ {image}
  /\ Goto("load")
  /\ UNCHANGED <<bias, mode, static, rows, cut, loaded, outcome, calls, scanned>>

(* The writer of suite.csv was stopped inside its last row: the target is *)
(* lost or is no number any more, or the caller's offset lost a digit too. *)
CutRows(row, lost) ==
  IF lost = "row"
  THEN {Row(Site(row.caller.module, row.caller.offset \div Radix), None, row.test)}
  ELSE {Row(row.caller, t, row.test) : t \in {None, IF row.target = None THEN None ELSE Unreadable}}

EndTests ==
  /\ Point("trace")
  /\ \/ UNCHANGED <<rows, cut>>
     \/ /\ rows # << >>
        /\ cut' \in {"target", "row"}
        /\ LET n == Len(rows) IN
           \/ cut' = "row" /\ rows' = SubSeq(rows, 1, n - 1)
           \/ /\ rows[n].kind = "row"
              /\ \E row \in CutRows(rows[n], cut') : rows' = [rows EXCEPT ![n] = row]
  /\ Goto("load")
  /\ UNCHANGED <<image, bias, mode, static, loaded, outcome, calls, scanned>>

-----------------------------------------------------------------------------
(* report.py.                                                              *)

(* Mutant of ReadRow: the target is read before the caller is counted.     *)
ReadRowTargetFirst ==
  /\ Point("load") /\ next < Len(rows)
  /\ next' = next + 1
  /\ LET row == rows[next + 1]
         readable == row.kind = "row" /\ row.target # Unreadable
     IN /\ executed' = executed \cup (IF readable THEN {row.caller} ELSE {})
        /\ edges' = IF readable /\ row.target # None THEN Append(edges, row) ELSE edges
        /\ skipped' = skipped + (IF readable THEN 0 ELSE 1)
  /\ UNCHANGED <<pc, image, bias, mode, static, rows, cut, outcome, calls, scanned>>

(* Mutant of ReadRow: one edge is kept for a callsite and a test.          *)
ReadRowOnce ==
  /\ Point("load") /\ next < Len(rows)
  /\ next' = next + 1
  /\ LET row == rows[next + 1] IN
     IF row.kind = "row"
     THEN /\ executed' = executed \cup {row.caller}
          /\ edges' = IF \/ row.target \in {None, Unreadable}
                         \/ \E i \in DOMAIN edges : edges[i] = row
                      THEN edges ELSE Append(edges, row)
          /\ UNCHANGED skipped
     ELSE /\ skipped' = skipped + 1
          /\ UNCHANGED <<executed, edges>>
  /\ UNCHANGED <<pc, image, bias, mode, static, rows, cut, outcome, calls, scanned>>

(* load_dynamic, for one row: a caller counts with or without a target,    *)
(* and also when the target makes the row a malformed one.                 *)
ReadRow ==
  /\ Point("load") /\ next < Len(rows)
  /\ next' = next + 1
  /\ LET row == rows[next + 1]
         isRow == row.kind = "row"
     IN /\ executed' = executed \cup (IF isRow THEN {row.caller} ELSE {})
        /\ edges' = IF isRow /\ row.target \notin {None, Unreadable}
                    THEN Append(edges, row) ELSE edges
        /\ skipped' = skipped + (IF ~isRow \/ row.target = Unreadable THEN 1 ELSE 0)
  /\ UNCHANGED <<pc, image, bias, mode, static, rows, cut, outcome, calls, scanned>>

(* symbolize: what addr2line says of an offset in the binary on disk.      *)
Symbolize(offset) ==
  LET va == ElfImageBase(image.loads) + offset IN
  IF va \in DOMAIN image.code
  THEN [name |-> image.code[va].name, dirs |-> image.code[va].dirs]
  ELSE [name |-> "other", dirs |-> {}]

(* Mutant of ClassifySite: names come before directories.                  *)
ClassifyByName(symbol, operand) ==
  IF "runtime" \in {symbol.name, operand} THEN "runtime"
  ELSE IF "test" \in symbol.dirs THEN "test"
  ELSE IF "source" \in symbol.dirs THEN "project"
  ELSE IF "testLike" \in symbol.dirs THEN "test"
  ELSE IF LibuvCompat /\ symbol.name = "uv" THEN "project" ELSE "unknown"

(* classify_site, with --project-root.                                     *)
ClassifySite(symbol, operand) ==
  CASE "test" \in symbol.dirs -> "test"
    [] "source" \in symbol.dirs /\ "test" \notin symbol.dirs -> "project"
    [] OTHER ->
       IF "runtime" \in {symbol.name, operand} THEN "runtime"
       ELSE IF "testLike" \in symbol.dirs THEN "test"
       ELSE IF LibuvCompat /\ symbol.name = "uv" THEN "project" ELSE "unknown"

ProjectSites ==
  {Site("binary", o) :
     o \in {x \in DOMAIN static.sites :
              ClassifySite(Symbolize(x), static.sites[x]) = "project"}}

(* Mutant of Covered: modules are not told apart.                          *)
CoveredByOffset == {s \in ProjectSites : \E e \in executed : e.offset = s.offset}

Covered == ProjectSites \cap executed

(* build_edge_export: hits and tests of each target of a callsite.         *)
EdgeExport(s) ==
  LET mine == {i \in DOMAIN edges : edges[i].caller = s}
  IN {[target |-> t,
       hits |-> Cardinality({i \in mine : edges[i].target = t}),
       tests |-> {edges[i].test : i \in {j \in mine : edges[j].target = t}}] :
      t \in {edges[i].target : i \in mine}}

LoadedAll == Point("load") /\ next = Len(rows)

Summary ==
  [kind |-> "summary", raw |-> Cardinality(DOMAIN static.sites),
   project |-> ProjectSites, covered |-> Covered,
   edges |-> [s \in ProjectSites |-> EdgeExport(s)],
   exit |-> IF ProjectSites = {} THEN 2 ELSE 0]

(* Mutant of Report: the binary is not compared with static.json.          *)
ReportUnchecked ==
  /\ LoadedAll
  /\ outcome' = Summary
  /\ Goto("done")
  /\ UNCHANGED <<image, bias, mode, static, rows, cut, loaded, calls, scanned>>

Report ==
  /\ LoadedAll /\ ElfImageBase(image.loads) = static.base
  /\ outcome' = Summary
  /\ Goto("done")
  /\ UNCHANGED <<image, bias, mode, static, rows, cut, loaded, calls, scanned>>

(* The binary is not the one that was scanned.                             *)
Reject ==
  /\ LoadedAll /\ ElfImageBase(image.loads) # static.base
  /\ outcome' = [kind |-> "rejected"]
  /\ Goto("done")
  /\ UNCHANGED <<image, bias, mode, static, rows, cut, loaded, calls, scanned>>

Tracing == Call \/ CallInLibrary \/ Damaged \/ Rebuild \/ EndTests
Reporting == ReadRow \/ Report \/ Reject
Next == Scan \/ Tracing \/ Reporting

Spec == Init /\ [][Next]_vars

-----------------------------------------------------------------------------
(* Types; of the rows read, all but the damaged ones name an executed      *)
(* callsite, and those skipped are counted.                                *)
TypeOK ==
  /\ pc \in {"scan", "trace", "load", "done"}
  /\ {image, scanned} \subseteq Images /\ bias \in LoadBiases \cup {0}
  /\ mode \in {"fast", "edge"} /\ cut \in {"none", "target", "row"}
  /\ (static # None) => (static.base \in Nat /\ DOMAIN static.sites \subseteq Nat)
  /\ Len(rows) <= MaxCalls /\ Len(calls) <= MaxCalls
  /\ next \in 0 .. Len(rows)
  /\ skipped = Cardinality({i \in 1 .. next : rows[i].kind = "damaged" \/ rows[i].target = Unreadable})
  /\ executed = {rows[i].caller : i \in {j \in 1 .. next : rows[j].kind = "row"}}
  /\ outcome.kind \in {"none", "summary", "rejected"}

Reported == outcome.kind = "summary" /\ image = scanned
Address(s) == ElfImageBase(image.loads) + s.offset

(* The ELF addresses that count as project callsites, by what addr2line    *)
(* says of each.                                                           *)
ProjectCalls ==
  {va \in IndirectCalls(scanned) :
     LET c == scanned.code[va] IN ClassifySite(c, c.operand) = "project"}

(* Unless a row lost its caller, the project callsites reported as covered *)
(* are exactly the instructions that some test executed: in fast mode and  *)
(* in edge mode, for any load address, with damaged rows among the others, *)
(* calls of a library at the same offsets and a last row whose target was  *)
(* lost or cannot be read (load_dynamic, main).                            *)
CoverageIsExact ==
  (Reported /\ cut # "row") =>
    {Address(s) : s \in outcome.covered} =
      ProjectCalls \cap {calls[i].site : i \in DOMAIN calls}

(* Every indirect call of the binary that lies in a source directory and   *)
(* in no test directory is in the denominator, whatever its name; coverage *)
(* is undefined only if there is none (classify_site, main's exit).        *)
SourceCallsCount ==
  Reported =>
    /\ outcome.raw = Cardinality(IndirectCalls(scanned))
    /\ LET inSource == {va \in IndirectCalls(scanned) :
                          "source" \in scanned.code[va].dirs /\ "test" \notin scanned.code[va].dirs}
       IN /\ inSource \subseteq {Address(s) : s \in outcome.project}
          /\ (outcome.exit = 2) => (inSource = {} /\ outcome.covered = {})

CallsAt(va) == {i \in DOMAIN calls : calls[i].site = va}

(* From a complete trace in edge mode, the exported targets of a project   *)
(* callsite, with their hits and tests, are those of the calls made; in    *)
(* fast mode there are none (load_dynamic, build_edge_export).             *)
EdgesAreObserved ==
  (Reported /\ cut = "none") =>
    \A s \in outcome.project :
      LET mine == IF mode = "edge" THEN CallsAt(Address(s)) ELSE {}
          to(target) == {i \in mine : calls[i].target = target}
      IN outcome.edges[s] =
           {[target |-> target, hits |-> Cardinality(to(target)),
             tests |-> {calls[i].test : i \in to(target)}] :
              target \in {calls[i].target : i \in mine}}

(* The three coordinates agree: the offset that the tracer wrote for an    *)
(* instruction leads addr2line back to its ELF address in the binary on    *)
(* disk, or the report is refused (elf_image_base, symbolize, main).       *)
AddressesRoundTrip ==
  outcome.kind = "summary" =>
    \A i \in DOMAIN calls : ElfImageBase(image.loads) + calls[i].offset = calls[i].site

(* What README.md:192 says of any report: a callsite is covered if its     *)
(* instruction was executed at least once.                                 *)
CoveredWasExecuted ==
  Reported =>
    {Address(s) : s \in outcome.covered} \subseteq {calls[i].site : i \in DOMAIN calls}
=============================================================================
