----------------------------- MODULE MCSuiteRun ------------------------------
(***************************************************************************)
(* SuiteRun on small instances: every runner, names that repeat, a name    *)
(* that is that of a repeated one, and listings without tests.             *)
(***************************************************************************)
EXTENDS SuiteRun

Line(kind, name) == [kind |-> kind, name |-> name]
A == Line("test", <<"a">>)
A1 == Line("test", <<"a", 1>>)
None1 == Line("none", << >>)
Suite == Line("suite", <<"a">>)
Case == Line("case", <<1>>)

MCListings ==
  { <<"commands", <<A, A, A1>>>>, <<"commands", <<None1, A1, A, A>>>>,
    <<"commands", <<A, Line("error", << >>)>>>>, <<"gtest", <<Case, Suite, Case>>>>,
    <<"ctest", <<A, None1, A>>>>, <<"libuv", <<None1>>>> }

Symmetry == Permutations(Identities)
=============================================================================
