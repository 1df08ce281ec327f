------------------------------ MODULE MCTypeDive -------------------------------
(***************************************************************************)
(* TypeDive on a small program: two call sites of the IR share a line, two *)
(* functions and a declaration share a name, a call and a function begin   *)
(* with inlined code, and some offsets may have no debug information.      *)
(***************************************************************************)
EXTENDS TypeDive

MCArguments == {"-o", "-MF", "-I", "-Xclang", "-x", "-xnone", "--", "-ob.o", "-c",
                "-cc1", "-O2", "u.c", "-u.c", "c++", "@nested", "@loop", "@missing"}
MCResponses == "@nested" :> <<"-O2", "@tail">> @@ "@tail" :> <<"-c", "-MF">> @@
               "@loop" :> <<"@back">> @@ "@back" :> <<"@loop">>
MCRules == { <<{}, {}>>, <<{"-ob.o"}, {}>>, <<{}, {"-O2"}>> }

MCSite == "s1" :> <<"a.c", 12>> @@ "s2" :> <<"b.c", 7>> @@ "s3" :> <<"a.c", 12>>
MCFunction == "fa" :> [name |-> "f", file |-> "a.c"] @@
              "fb" :> [name |-> "f", file |-> "b.c"] @@
              "fd" :> [name |-> "f", file |-> ""]
MCCandidateSets ==
  { {}, {<<"s1", "fa">>}, {<<"s1", "fb">>}, {<<"s3", "fd">>},
    {<<"s1", "fa">>, <<"s2", "fb">>}, {<<"s1", "fa">>, <<"s3", "fa">>},
    {<<"s2", "fa">>, <<"s2", "fb">>} }

MCCallSite == "c1" :> "s1" @@ "c2" :> "s2" @@ "c3" :> "s3"
MCEntry == "ta" :> {"fa", "fd"} @@ "tb" :> {"fb"}
Frame(function, file, line) == [function |-> function, file |-> file, line |-> line]
Unknown == Frame("??", "", 0)
(* c1 is inlined at b.c:7; g is inlined at the beginning of f in a.c.      *)
Full ==
  "c1" :> <<Frame("inlined", "a.c", 12), Frame("main", "b.c", 7)>> @@
  "c2" :> <<Frame("main", "b.c", 7)>> @@
  "c3" :> <<Frame("other", "a.c", 12)>> @@
  "ta" :> <<Frame("g", "a.h", 3), Frame("f", "a.c", 20)>> @@
  "tb" :> <<Frame("f", "b.c", 2)>>
MCBinaries ==
  { Full, [Full EXCEPT !["c1"] = <<Unknown>>, !["c3"] = <<Unknown>>],
    [Full EXCEPT !["tb"] = <<Frame("f", "", 0)>>, !["ta"] = <<Unknown>>] }

Callers == {Module} \X DOMAIN MCCallSite \cup {<<"lib", "c1">>}
Targets == {Module} \X DOMAIN MCEntry \cup {<<"lib", "ta">>}
MCTraces == {[call \in calls |-> IF call[1][2] = "c1" THEN 1 ELSE 2] :
              calls \in UNION {{{x, y} : y \in Callers \X Targets} : x \in Callers \X Targets}}
=============================================================================
