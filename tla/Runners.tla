-------------------------------- MODULE Runners --------------------------------
(***************************************************************************)
(* runners/: the names of the tests that a runner discovers, in order, in  *)
(* a file of commands or in what ctest or a test binary prints.            *)
(*                                                                         *)
(* A line is a record of its kind and of what is read from it: a test, the *)
(* suite or case of a googletest binary, "none" (blank, a comment, or a    *)
(* ctest entry without a command), or "error".  A name is a sequence of    *)
(* parts: name_2 and suite.case have two.                                  *)
(***************************************************************************)
EXTENDS Naturals, Sequences, SequencesExt, Functions, TLC

(* commands.py: a name that was seen before gets the next number; the name *)
(* that results is not compared with the others.                           *)
CommandLine(found, line) ==
  IF line.kind # "test" THEN found
  ELSE IF line.name \in DOMAIN found.seen THEN
    LET n == found.seen[line.name] + 1 IN
    [seen |-> [found.seen EXCEPT ![line.name] = n],
     tests |-> Append(found.tests, Append(line.name, n))]
  ELSE [seen |-> line.name :> 0 @@ found.seen, tests |-> Append(found.tests, line.name)]

(* gtest.py: a case belongs to the suite above it.                         *)
ListedLine(found, line) ==
  CASE line.kind = "suite" -> [found EXCEPT !.suite = line.name]
    [] line.kind = "case" /\ found.suite # << >> ->
         [found EXCEPT !.tests = Append(@, found.suite \o line.name)]
    [] OTHER -> found

(* ctest.py and libuv.py take each test as it is listed.                   *)
discover_tests(runner, lines) ==
  CASE runner = "commands" -> FoldLeft(CommandLine, [seen |-> << >>, tests |-> << >>], lines).tests
    [] runner = "gtest" -> FoldLeft(ListedLine, [suite |-> << >>, tests |-> << >>], lines).tests
    [] runner \in {"ctest", "libuv"} ->
         LET tests == SelectSeq(lines, LAMBDA line : line.kind = "test")
         IN [i \in DOMAIN tests |-> tests[i].name]

(* Discovery fails: the file or the output cannot be read, or has no test. *)
DiscoveryFails(runner, lines) ==
  (\E i \in DOMAIN lines : lines[i].kind = "error") \/ discover_tests(runner, lines) = << >>
=============================================================================
