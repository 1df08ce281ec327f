---------------------------- MODULE CompileCommands ----------------------------
(***************************************************************************)
(* scan_project_ir.py: the command of a compilation database entry is read *)
(* twice, once for its output and once for its parts, and rewritten to a   *)
(* command that leaves bitcode.                                            *)
(*                                                                         *)
(* An argument is one string of a small vocabulary, one for every way in   *)
(* which the code treats arguments: the sets below are its tables.  Paths  *)
(* are compared as spelled, except ./-u.c, which is the file -u.c.         *)
(***************************************************************************)
EXTENDS Naturals, Sequences, SequencesExt, FiniteSetsExt, Functions, TLC

CONSTANT Responses   \* response files: contents of @file by argument

ASSUME ResponsesAssumption == \A f \in DOMAIN Responses : Responses[f] \in Seq(STRING)

VALUE_OPTIONS == {"-I", "-Xclang"}
DROP_VALUES == {"-o", "-MF"}
DROP_FLAGS == {"-c", "-emit-llvm"}
UNSUPPORTED == {"-cc1"}
Dashed == VALUE_OPTIONS \cup DROP_VALUES \cup DROP_FLAGS \cup UNSUPPORTED \cup
          {"-x", "-xnone", "--", "-ob.o", "-O2", "-u.c", "-g",
           "-no-opaque-pointers"}
Compilers == {"cc", "c++"}
Launchers == {"ccache"}

unsafe_forwarded_option(value) == value \in DROP_VALUES \cup DROP_FLAGS \cup UNSUPPORTED

joined_output == [arg \in {"-ob.o"} |-> "b.o"]      \* -oPATH
joined_language == [arg \in {"-xnone"} |-> "none"]   \* -xLANGUAGE

(* The elements of s that are in keep, in their order.                     *)
Only(s, keep) ==
  FoldLeft(LAMBDA kept, x : IF x \in keep THEN Append(kept, x) ELSE kept, << >>, s)

-----------------------------------------------------------------------------
MaxNesting == 32
Recursive == "recursive response file"
Missing == "@missing"   \* names no file

(* The arguments of the response file opened last, with those it names.    *)
contents[stack \in Seq(DOMAIN Responses)] ==
  FlattenSeq([i \in DOMAIN Responses[Last(stack)] |->
    LET argument == Responses[Last(stack)][i] IN
    IF argument \notin DOMAIN Responses THEN <<argument>>
    ELSE IF argument \in Range(stack) \/ Len(stack) >= MaxNesting THEN <<Recursive>>
    ELSE contents[Append(stack, argument)]])

expand_response_files(arguments) ==
  FlattenSeq([i \in DOMAIN arguments |->
    IF arguments[i] \in DOMAIN Responses THEN contents[<<arguments[i]>>]
    ELSE <<arguments[i]>>])

-----------------------------------------------------------------------------
(* One argument of original_output's loop: the value of an option, or the  *)
(* end of the options, hides an output option.                             *)
OutputStep(scan, arg) ==
  IF scan.ended THEN scan
  ELSE IF scan.option # "" THEN
    [scan EXCEPT !.option = "",
                 !.output = IF scan.option = "-o" THEN arg ELSE scan.output]
  ELSE IF arg = "--" THEN [scan EXCEPT !.ended = TRUE]
  ELSE IF arg \in DROP_VALUES \cup VALUE_OPTIONS \cup {"-x"} THEN
    [scan EXCEPT !.option = arg]
  ELSE IF arg \in DOMAIN joined_output THEN [scan EXCEPT !.output = joined_output[arg]]
  ELSE scan

(* The output of the command; option is not "" if its value is missing.    *)
original_output(arguments) ==
  FoldLeft(OutputStep, [output |-> "", option |-> "", ended |-> FALSE], Tail(arguments))

-----------------------------------------------------------------------------
Refuse(parts) == [parts EXCEPT !.refused = TRUE]

(* The value of the option before it.                                      *)
ValuePart(parts, value) ==
  LET arg == parts.option
      next == [parts EXCEPT !.option = ""]
  IN CASE arg = "-o" -> [next EXCEPT !.output = value]
       [] arg = "-x" -> [next EXCEPT !.language = value]
       [] arg \in VALUE_OPTIONS ->
            IF arg = "-Xclang" /\ unsafe_forwarded_option(value) THEN Refuse(next)
            ELSE [next EXCEPT !.kept = @ \o <<arg, value>>]
       [] OTHER -> next

(* An input: exactly the source that the database names, and only once.    *)
InputPart(parts, arg) ==
  IF arg # parts.file \/ parts.source # "" THEN Refuse(parts)
  ELSE [parts EXCEPT !.source = arg, !.source_language = parts.language]

OptionPart(parts, arg) ==
  CASE arg = "--" -> [parts EXCEPT !.positional = TRUE]
    [] arg \in DROP_VALUES \cup VALUE_OPTIONS \cup {"-x"} -> [parts EXCEPT !.option = arg]
    [] arg \in DOMAIN joined_language -> [parts EXCEPT !.language = joined_language[arg]]
    [] arg \in DOMAIN joined_output -> [parts EXCEPT !.output = joined_output[arg]]
    [] arg \in DROP_FLAGS -> parts
    [] arg \in UNSUPPORTED -> Refuse(parts)
    [] OTHER -> [parts EXCEPT !.kept = Append(@, arg)]

PartStep(parts, arg) ==
  IF parts.refused THEN parts
  ELSE IF parts.option # "" THEN ValuePart(parts, arg)
  ELSE IF ~parts.positional /\ arg \in Dashed THEN OptionPart(parts, arg)
  ELSE InputPart(parts, arg)

(* refused also if a value or the source is missing.                       *)
command_parts(unit) ==
  LET parts == FoldLeft(PartStep,
        [file |-> unit.source, kept |-> << >>, source |-> "", source_language |-> "none",
         language |-> "none", output |-> "", option |-> "", positional |-> FALSE,
         refused |-> FALSE], Tail(unit.arguments))
  IN IF parts.option # "" \/ parts.source = "" THEN Refuse(parts) ELSE parts

-----------------------------------------------------------------------------
(* The compiler after its launchers, then its arguments.                   *)
native(args) ==
  LET compiler == {i \in DOMAIN args : args[i] \notin Launchers}
  IN IF compiler = {} THEN << >> ELSE SubSeq(args, Min(compiler), Len(args))

(* One entry of load_compdb: its unit, or refused, as it also is if a      *)
(* response file is missing or recursive.                                  *)
load_entry(index, entry) ==
  LET command == native(entry.command)
      args == IF command = << >> THEN command
              ELSE <<Head(command)>> \o expand_response_files(Tail(command))
      unit == [index |-> index, source |-> entry.file, arguments |-> args,
               output |-> IF args = << >> THEN "" ELSE original_output(args).output]
  IN [unit |-> unit,
      refused |-> \/ args = << >> \/ {Recursive, Missing} \cap Range(args) # {}
                  \/ original_output(args).option # ""
                  \/ Head(args) \notin Compilers
                  \/ command_parts(unit).refused]

Languages == {"none", "c", "c++"}

(* Mutant of bitcode_command: the language in force at the end is used.    *)
BitcodeLastLanguage(unit, output) ==
  LET parts == command_parts(unit)
      language == parts.language
      cpp == IF language # "none" THEN language = "c++" ELSE Head(unit.arguments) = "c++"
      source == IF parts.source = "-u.c" THEN "./-u.c" ELSE parts.source
  IN [refused |-> language \notin Languages,
      command |-> <<IF cpp THEN "clang++" ELSE "clang">> \o parts.kept \o
        (IF language # "none" THEN <<"-x", language>> ELSE << >>) \o
        <<"-emit-llvm", "-c", source, "-o", output>>]

(* The command that leaves the bitcode of a unit; every source ends in .c. *)
bitcode_command(unit, output) ==
  LET parts == command_parts(unit)
      language == parts.source_language
      cpp == IF language # "none" THEN language = "c++" ELSE Head(unit.arguments) = "c++"
      source == IF parts.source = "-u.c" THEN "./-u.c" ELSE parts.source
  IN [refused |-> language \notin Languages,
      command |-> <<IF cpp THEN "clang++" ELSE "clang">> \o parts.kept \o
        (IF language # "none" THEN <<"-x", language>> ELSE << >>) \o
        <<"-emit-llvm", "-c", source, "-o", output>>]

-----------------------------------------------------------------------------
(* What a driver makes of a command, position by position: an option, the  *)
(* value of the option before it, the end of the options, or an input.     *)
Denotes(path) == IF path = "./-u.c" THEN "-u.c" ELSE path
TakesValue == VALUE_OPTIONS \cup DROP_VALUES \cup {"-x"}

Roles(args) ==
  LET role[i \in DOMAIN args] ==
        IF i > 1 /\ role[i - 1] = "option" /\ args[i - 1] \in TakesValue THEN "value"
        ELSE IF \E j \in 1 .. i - 1 : role[j] = "end" THEN "input"
        ELSE IF args[i] = "--" THEN "end"
        ELSE IF args[i] \in Dashed THEN "option" ELSE "input"
  IN role

(* The last of some options before position i, or 0.                       *)
LastOption(args, role, options, i) ==
  Max({j \in DOMAIN args : j < i /\ role[j] = "option" /\ args[j] \in options} \cup {0})

(* What an option, or its joined form, last set before position i.         *)
Setting(args, role, option, joined, default, i) ==
  LET j == LastOption(args, role, {option} \cup DOMAIN joined, i)
  IN IF j = 0 THEN default ELSE IF args[j] = option THEN args[j + 1] ELSE joined[args[j]]

(* The language that is set there, and the output that is named.           *)
Named(args, role, i) == Setting(args, role, "-x", joined_language, "none", i)
Written(args, role, i) == Setting(args, role, "-o", joined_output, "", i)

OptionAt(args, i) ==
  IF args[i] \in TakesValue THEN <<args[i], args[i + 1]>> ELSE <<args[i]>>

Meaning(command) ==
  LET args == Tail(command)
      role == Roles(args)
      at(kind) == {i \in DOMAIN args : role[i] = kind}
      language(i) ==
        IF Named(args, role, i) # "none" THEN Named(args, role, i)
        ELSE IF command[1] \in {"c++", "clang++"} THEN "c++" ELSE "c"
      options == Only([i \in DOMAIN args |-> i], at("option"))
  IN [inputs |-> [i \in at("input") |-> <<Denotes(args[i]), language(i)>>],
      output |-> Written(args, role, Len(args) + 1),
      options |-> [k \in DOMAIN options |-> OptionAt(args, options[k])]]

(* Options that name a file to write, or that select what is done.         *)
Diverts(option) ==
  \/ option[1] \in DROP_VALUES \cup DROP_FLAGS \cup DOMAIN joined_output
  \/ option[1] = "-Xclang" /\ unsafe_forwarded_option(option[2])
Selects(option) == option[1] \in {"-x"} \cup DOMAIN joined_language

(* command does with the source of unit what its own command does, in the  *)
(* same language and with the same options, and writes only output; added  *)
(* are the options a caller appends.                                       *)
SameTranslation(unit, command, output, added) ==
  LET was == Meaning(unit.arguments)
      is == Meaning(command)
      kept == Only(was.options, {o \in Range(was.options) : ~Diverts(o) /\ ~Selects(o)})
  IN /\ unit.output = was.output
     /\ Range(is.inputs) = Range(was.inputs) /\ Cardinality(DOMAIN is.inputs) = 1
     /\ is.output = output
     /\ Only(is.options, {o \in Range(is.options) : ~Selects(o)}) =
          kept \o added \o << <<"-emit-llvm">>, <<"-c">>, <<"-o", output>> >>
=============================================================================
