--------------------------- MODULE MdslcArguments ---------------------------
(***************************************************************************)
(* How mdslc++ reads its command line.  A first scan takes the driver's    *)
(* own options out; what is left is scanned again, by the CPU pipeline     *)
(* (one scanner for clang++, one for clang-cl) or to build the command of  *)
(* a direct compilation.  Each scan has its own idea of which argument is  *)
(* the value of the one before it.  An argument stands for its class.      *)
(***************************************************************************)
EXTENDS Naturals, Sequences, SequencesExt

CONSTANTS
  Hosts,      \* subset of {"posix", "windows"}
  Tokens,     \* [Hosts -> arguments a command line is made of]
  MaxTokens,  \* arguments beside the ones every command line has
  Fixed       \* [Hosts -> arguments every command line ends with]

ConstantsAssumption ==
  /\ Hosts \subseteq {"posix", "windows"} /\ Hosts # {}
  /\ MaxTokens \in Nat

VARIABLES
  host, argv, \* the platform and the command line
  phase,      \* wrapper, cpu, clangCl, direct, exit
  index,      \* next argument
  pending,    \* previous_option_consumes_argument
  ended,      \* after_option_terminator or after_windows_link
  wrapper,    \* WrapperArguments
  invocation, \* CpuInvocation
  command,    \* BuildDirectCommand
  injected,   \* injected_cpp_language_is_active
  status      \* 0: handed on, 2: refused

vars == <<host, argv, phase, index, pending, ended, wrapper, invocation, command,
          injected, status>>

------------------------------------------------------------------------------
(* Classes of arguments. *)

OptionConsumesNextArgument == {"-o", "-I", "-L", "--sysroot", "-x", "-MF", "-Xclang", "-Xlinker"}
ClangClConsumesNext == {"-o", "/Fo", "/I", "--sysroot"}
Consumes == IF host = "windows" THEN ClangClConsumesNext ELSE OptionConsumesNextArgument

IsLinkOptionWithValue == {"-L", "-Xlinker"}
IsCompileAndLinkOptionWithValue == {"--sysroot"}
IsAttachedCompileAndLinkOption == {"-m64"}
IsAttachedLinkOption == {"-lfoo"}
IsUnsupportedLtoMode == {"-flto"}
IsExtractionIncompatible == {"-MT", "-Xclang", "-fplugin=p", "@rsp"}
IsUnsupportedFinalLinkMode == {"-shared", "@rsp"}
IsLinkContext == {"--sysroot", "/MD", "-m64"}
\* classify_untrusted_compiler_argument_v1: opaque forwarding, undeclared
\* outputs, other modes.
Untrusted == {"@rsp", "/Zi", "/GL", "-fplugin=p", "-save-temps"}
HasMdslExtension == {"a.mdsl", "b.mdsl"}
IsOption(a) == a \notin {"a.mdsl", "b.mdsl", "c++", "x.o", "@rsp"}

------------------------------------------------------------------------------
(* ParseWrapperArguments. *)

Exit(code) ==
  /\ phase' = "exit" /\ status' = code
  /\ UNCHANGED <<host, argv, index, pending, ended, wrapper, invocation, command, injected>>

\* The first scan reads the command line, the second what the first left.
Line == IF phase = "wrapper" THEN argv ELSE wrapper.arguments
Argument == Line[index]
AtArgument(p) == phase = p /\ index <= Len(Line)

Keep(w, p, e) ==
  /\ index' = index + 1 /\ wrapper' = w /\ pending' = p /\ ended' = e
  /\ UNCHANGED <<host, argv, phase, invocation, command, injected, status>>

Passed == [wrapper EXCEPT !.arguments = Append(@, Argument)]

\* Options of the driver itself, the repeated ones refused.
DriverOption ==
  CASE Argument = "--verbose" -> Keep([wrapper EXCEPT !.verbose = TRUE], FALSE, FALSE)
    [] Argument = "--matcore-target=cpu" -> Keep([wrapper EXCEPT !.cpu = TRUE], FALSE, FALSE)
    [] Argument = "--matcore-target=gpu" -> Exit(2)
    [] Argument = "--frontend=native" ->
         IF wrapper.frontend THEN Exit(2)
         ELSE Keep([wrapper EXCEPT !.frontend = TRUE], FALSE, FALSE)
    [] Argument = "--matcore-depfile=d" ->
         IF wrapper.depfile THEN Exit(2)
         ELSE Keep([wrapper EXCEPT !.depfile = TRUE], FALSE, FALSE)

DriverOptions == {"--verbose", "--matcore-target=cpu", "--matcore-target=gpu",
                  "--frontend=native", "--matcore-depfile=d"}

Terminators == {"--"} \cup (IF host = "windows" THEN {"/link"} ELSE {})
WindowsRefuses == {"/TC", "/clang:x", "--driver-mode=cl"}

WrapperArgument ==
  /\ AtArgument("wrapper")
  /\ CASE host = "windows" /\ Argument = "@rsp" -> Exit(2)
       [] ended -> Keep(Passed, FALSE, TRUE)
       [] pending -> Keep(Passed, FALSE, FALSE)
       [] Argument \in Terminators -> Keep(Passed, FALSE, TRUE)
       [] host = "windows" /\ Argument \in WindowsRefuses -> Exit(2)
       [] Argument \in DriverOptions -> DriverOption
       [] OTHER -> Keep(Passed, Argument \in Consumes, FALSE)

\* A value that is missing, or an option that needs the CPU pipeline.
WrapperEnd ==
  /\ phase = "wrapper" /\ index > Len(Line)
  /\ IF pending \/ (~wrapper.cpu /\ (wrapper.frontend \/ wrapper.depfile))
     THEN Exit(2)
     ELSE /\ phase' = CASE ~wrapper.cpu -> "direct"
                        [] host = "windows" -> "clangCl"
                        [] OTHER -> "cpu"
          /\ index' = 1 /\ ended' = FALSE
          /\ invocation' = [invocation EXCEPT !.depfile = wrapper.depfile,
                                              !.mode = wrapper.depfile]
          /\ UNCHANGED <<host, argv, pending, wrapper, command, injected, status>>

------------------------------------------------------------------------------
(* ParseCpuInvocation and ParseClangClCpuInvocation. *)

Take(n, i) ==
  /\ index' = index + n /\ invocation' = i
  /\ UNCHANGED <<host, argv, phase, pending, ended, wrapper, command, injected, status>>

\* An option and its value: refused when the value is missing.
WithValue(i) == IF index = Len(Line) THEN Exit(2) ELSE Take(2, i)
Value == Line[index + 1]
Both == <<Argument, Value>>

RecordMdslInput ==
  IF Argument \notin HasMdslExtension \/ invocation.input # "none" THEN Exit(2)
  ELSE Take(1, [invocation EXCEPT !.input = Argument])

SetOutput ==
  IF invocation.output # "none" THEN Exit(2)
  ELSE WithValue([invocation EXCEPT !.output = Value])

CpuValue_LinkOnly ==
  CASE Argument = "-Xlinker" -> Exit(2)
    [] Argument \in IsLinkOptionWithValue ->
         WithValue([invocation EXCEPT !.linkOnly = TRUE, !.link = @ \o Both])
    [] Argument \in IsCompileAndLinkOptionWithValue ->
         WithValue([invocation EXCEPT !.context = @ \o Both])
    [] OTHER -> WithValue([invocation EXCEPT !.compile = @ \o Both])

CpuValue ==
  CASE Argument = "-Xlinker" -> Exit(2)
    [] Argument \in IsLinkOptionWithValue ->
         WithValue([invocation EXCEPT !.linkOnly = TRUE, !.link = @ \o Both])
    [] Argument \in IsCompileAndLinkOptionWithValue ->
         WithValue([invocation EXCEPT !.compile = @ \o Both, !.context = @ \o Both])
    [] OTHER -> WithValue([invocation EXCEPT !.compile = @ \o Both])

CpuOption ==
  CASE Argument \in IsAttachedLinkOption ->
         Take(1, [invocation EXCEPT !.linkOnly = TRUE, !.link = Append(@, Argument)])
    [] Argument \in IsAttachedCompileAndLinkOption ->
         Take(1, [invocation EXCEPT !.compile = Append(@, Argument),
                                    !.context = Append(@, Argument)])
    [] Argument = "-pthread" ->
         Take(1, [invocation EXCEPT !.compile = Append(@, Argument),
                                    !.link = Append(@, Argument)])
    [] OTHER -> Take(1, [invocation EXCEPT !.compile = Append(@, Argument)])

CpuArgument ==
  /\ AtArgument("cpu")
  /\ CASE ended -> RecordMdslInput
       [] Argument = "--" ->
            /\ ended' = TRUE /\ index' = index + 1
            /\ UNCHANGED <<host, argv, phase, pending, wrapper, invocation, command,
                           injected, status>>
       [] Argument = "-c" -> Take(1, [invocation EXCEPT !.compileOnly = TRUE])
       [] Argument = "-o" -> SetOutput
       [] Argument = "-MD" ->
            IF wrapper.depfile THEN Exit(2) ELSE Take(1, [invocation EXCEPT !.mode = TRUE])
       [] Argument = "-MF" ->
            IF wrapper.depfile THEN Exit(2)
            ELSE WithValue([invocation EXCEPT !.depfile = TRUE])
       [] Argument \in IsUnsupportedLtoMode \cup IsExtractionIncompatible
                       \cup IsUnsupportedFinalLinkMode -> Exit(2)
       [] Argument = "-x" ->
            IF index < Len(Line) /\ Value # "c++" THEN Exit(2) ELSE WithValue(invocation)
       [] Argument \in OptionConsumesNextArgument -> CpuValue
       [] IsOption(Argument) -> CpuOption
       [] OTHER -> RecordMdslInput

\* An input, an output and no link option with -c; -MF needs -MD.
CpuEnd ==
  /\ phase = "cpu" /\ index > Len(Line)
  /\ IF \/ invocation.input = "none" \/ invocation.output = "none"
        \/ invocation.depfile /\ ~invocation.mode
        \/ invocation.compileOnly /\ invocation.linkOnly
     THEN Exit(2) ELSE Exit(0)

ClangClArgument ==
  /\ AtArgument("clangCl")
  /\ CASE Argument = "/link" -> Exit(2)
       [] Argument = "/c" -> Take(1, [invocation EXCEPT !.compileOnly = TRUE])
       [] Argument \in {"/Fo", "-o"} -> SetOutput
       [] Argument = "/TP" -> Take(1, invocation)
       [] Argument \in ClangClConsumesNext ->
            IF Value = "@rsp" THEN Exit(2)
            ELSE WithValue([invocation EXCEPT !.compile = @ \o Both,
                   !.context = IF Argument \in IsLinkContext THEN @ \o Both ELSE @])
       [] Argument \in Untrusted -> Exit(2)
       [] IsOption(Argument) ->
            Take(1, [invocation EXCEPT !.compile = Append(@, Argument),
                   !.context = IF Argument \in IsLinkContext THEN Append(@, Argument) ELSE @])
       [] OTHER -> RecordMdslInput

ClangClEnd ==
  /\ phase = "clangCl" /\ index > Len(Line)
  /\ IF invocation.input = "none" \/ invocation.output \in {"none", invocation.input}
     THEN Exit(2) ELSE Exit(0)

------------------------------------------------------------------------------
(* BuildDirectCommand: clang++ learns with -x that a .mdsl input is C++. *)

Emit(arguments, active, e) ==
  /\ command' = command \o arguments /\ injected' = active /\ ended' = e
  /\ index' = index + 1 /\ pending' = (~pending /\ ~e /\ Argument \in OptionConsumesNextArgument)
  /\ UNCHANGED <<host, argv, phase, wrapper, invocation, status>>

Positional == ~pending /\ ~IsOption(Argument)
DirectArgument ==
  /\ AtArgument("direct") /\ host = "posix"
  /\ CASE ended -> Emit(<<Argument>>, injected, TRUE)
       [] ~pending /\ Argument = "--" ->
            Emit(IF \E k \in index + 1..Len(Line) : Line[k] \in HasMdslExtension
                 THEN <<"-x", "c++", Argument>> ELSE <<Argument>>, injected, TRUE)
       [] Positional /\ Argument \in HasMdslExtension ->
            Emit(IF injected THEN <<Argument>> ELSE <<"-x", "c++", Argument>>, TRUE, FALSE)
       [] Positional /\ Argument \notin HasMdslExtension ->
            Emit(IF injected THEN <<"-x", "none", Argument>> ELSE <<Argument>>, FALSE, FALSE)
       [] OTHER -> Emit(<<Argument>>, injected /\ (pending \/ Argument # "-x"), FALSE)

\* clang-cl is told once, for every input.
DirectClangCl ==
  /\ phase = "direct" /\ host = "windows"
  /\ command' = (IF Contains(Line, "/TP") THEN <<>> ELSE <<"/TP">>) \o Line
  /\ phase' = "exit" /\ status' = 0
  /\ UNCHANGED <<host, argv, index, pending, ended, wrapper, invocation, injected>>

DirectEnd == phase = "direct" /\ host = "posix" /\ index > Len(Line) /\ Exit(0)

------------------------------------------------------------------------------
Init ==
  /\ host \in Hosts
  /\ \E given \in SeqOf(Tokens[host], MaxTokens), fixed \in Fixed[host] :
       argv = given \o fixed
  /\ phase = "wrapper" /\ index = 1 /\ pending = FALSE /\ ended = FALSE
  /\ wrapper = [verbose |-> FALSE, cpu |-> FALSE, frontend |-> FALSE, depfile |-> FALSE,
                arguments |-> <<>>]
  /\ invocation = [compileOnly |-> FALSE, linkOnly |-> FALSE, input |-> "none",
                   output |-> "none", mode |-> FALSE, depfile |-> FALSE,
                   compile |-> <<>>, context |-> <<>>, link |-> <<>>]
  /\ command = <<>> /\ injected = FALSE /\ status = 2

Next == \/ WrapperArgument \/ WrapperEnd \/ CpuArgument \/ CpuEnd
        \/ ClangClArgument \/ ClangClEnd
        \/ DirectArgument \/ DirectClangCl \/ DirectEnd

Spec == Init /\ [][Next]_vars

------------------------------------------------------------------------------
(* Properties.  What an argument is, said once and without a scanner. *)

\* Each argument of a line is an option (or an input), the value of the
\* option before it, or an operand after the terminator.
KindsOf(line) ==
  FoldLeft(LAMBDA kinds, a :
             LET n == Len(kinds) IN
             Append(kinds,
               CASE n > 0 /\ kinds[n] = "operand" -> "operand"
                 [] n > 0 /\ kinds[n] = "option" /\ line[n] = "--" -> "operand"
                 [] n > 0 /\ kinds[n] = "option" /\ line[n] \in Consumes -> "value"
                 [] OTHER -> "option"),
           <<>>, line)

\* The arguments of the command line that are, or belong to, one of `owners`.
Selected(owners) ==
  LET kind == KindsOf(argv)
      indices == SelectSeq([i \in 1..Len(argv) |-> i],
                   LAMBDA i : \/ kind[i] = "option" /\ argv[i] \in owners
                              \/ kind[i] = "value" /\ argv[i - 1] \in owners)
  IN  [i \in 1..Len(indices) |-> argv[indices[i]]]

Accepted == phase = "exit" /\ status = 0 /\ wrapper.cpu

\* The scans agree on which arguments are values: of an accepted command line
\* the CPU pipeline compiles with exactly the compile options, links with
\* exactly the link options, and both see the options that choose the target,
\* each with its value and in the order given.
ScansAgree ==
  Accepted =>
    /\ invocation.compile =
         Selected({"-I", "--sysroot", "-m64", "-pthread", "-O2", "/I", "/MD"})
    /\ invocation.context = Selected({"--sysroot", "-m64", "/MD"})
    /\ invocation.link = Selected({"-L", "-lfoo", "-pthread"})

\* No option that would make the compiler write, load or read what the driver
\* does not know is accepted, except as the value of another option; on
\* Windows not even as one when it names a response file.
NothingOpaqueAccepted ==
  Accepted =>
    LET kind == KindsOf(argv) IN
    \A i \in DOMAIN argv :
      argv[i] \in {"@rsp", "/Zi", "/GL", "-fplugin=p", "-Xclang", "-Xlinker", "-shared",
                   "-flto", "-MT"}
        => kind[i] = "value" /\ (argv[i] = "@rsp" => host = "posix")

\* The last -x before a position of a line: the language of an input there.
LanguageAt(line, i) ==
  LET kind == KindsOf(line)
      xs == {k \in 1..(i - 1) : line[k] = "-x" /\ kind[k] = "option" /\ k < Len(line)}
  IN  IF xs = {} THEN "none"
      ELSE line[(CHOOSE k \in xs : \A l \in xs : l <= k) + 1]

\* In the command of a direct compilation every .mdsl input is C++, also one
\* after the terminator, and another input before the terminator is C++ only
\* if the user's own last -x says so: the language the driver injects does
\* not leak to the next input.
DirectLanguages ==
  phase = "exit" /\ status = 0 /\ ~wrapper.cpu /\ host = "posix" =>
    LET kind == KindsOf(command) IN
    \A i \in DOMAIN command :
      /\ command[i] \in HasMdslExtension /\ kind[i] # "value" => LanguageAt(command, i) = "c++"
      /\ command[i] = "x.o" /\ kind[i] = "option" /\ LanguageAt(command, i) = "c++" =>
           \E j \in DOMAIN argv : argv[j] = "x.o" /\ LanguageAt(argv, j) = "c++"
=============================================================================
