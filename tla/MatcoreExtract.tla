--------------------------- MODULE MatcoreExtract ---------------------------
(***************************************************************************)
(* matcore-extract: a command line is admitted or refused, the source is   *)
(* captured, verified and lowered, and up to seven files are published,    *)
(* each through a temporary in its own directory.  Several extractors run  *)
(* beside each other, any write may fail, and a process may die.           *)
(***************************************************************************)
EXTENDS Naturals, Sequences, FiniteSets, SequencesExt

CONSTANTS
  Process,     \* running extractors
  Commands,    \* assignments of command lines, of [Process -> command line]
  Defects,     \* what may be wrong outside the command line
  LostFlush,   \* the system may refuse the bytes still buffered when a file is closed
  MaxFaults    \* failed stages, failed file operations and deaths

ConstantsAssumption ==
  /\ Process # {} /\ IsFiniteSet(Process)
  /\ LostFlush \in BOOLEAN /\ MaxFaults \in Nat

OutputOption == {"ir", "rewrite", "sites", "stubs", "backend", "semantic",
                 "structured", "region", "report"}
Generated == {"rewrite", "sites", "stubs", "backend"}
Unset == ""

VARIABLES
  command,   \* [Process -> command line]
  defect,    \* [Process -> defect of its surroundings, or "none"]
  pc,        \* [Process -> start, verify, stages, publish, exit, dead]
  stage,     \* [Process -> stages passed]
  published, \* [Process -> outputs published]
  temporary, \* [Process -> none, open, whole, short]
  stdout,    \* [Process -> outputs written to standard output]
  status,    \* [Process -> exit status]
  file,      \* [location -> who wrote it, as what, and whether all of it]
  faults

vars == <<command, defect, pc, stage, published, temporary, stdout, status, file, faults>>

------------------------------------------------------------------------------
(* Paths and command lines.  "src" is the input, "alias" a second name of   *)
(* it, "hdr" a header it includes, "dir" a directory, "-" standard output.  *)

Location(path) == IF path = "alias" THEN "src" ELSE path
Locations == OutputOption \cup {"src", "hdr"}
PathsReferToSameLocation(a, b) == Location(a) = Location(b)

Given(c, o) == c.out[o] # Unset
GivenOutputs(c) == {o \in OutputOption : Given(c, o)}

\* A separated option needs a value; an unknown option, a version other than
\* 0 or 1, a second --semantic-pipeline and an empty --clang= are refused.
OptionsParsed(c) == c.pipeline # "twice" /\ c.version \in {"none", "0", "1"}

\* --verify-ir stands alone.
VerifyAlone(c) ==
  /\ ~c.input /\ GivenOutputs(c) = {} /\ ~c.argumentsFile /\ c.tail = "none"
  /\ c.version = "none" /\ c.pipeline = "none"

\* --two-gemm-region-out is an inspection of its own.
RegionAlone(c) ==
  Given(c, "region") =>
    /\ c.frontend = "native" /\ c.pipeline = "none" /\ c.version = "none"
    /\ GivenOutputs(c) = {"region"}

\* The semantic pipeline, its prerequisites and its outputs.
PipelineAdmitted(c) ==
  /\ Given(c, "report") => c.frontend = "native"
  /\ IF c.pipeline = "mlir"
     THEN c.frontend = "native" /\ c.version = "1" /\ ~Given(c, "report")
     ELSE ~Given(c, "semantic") /\ ~Given(c, "structured")

ArgumentsAdmitted(c) == c.argumentsFile => c.tail = "none"

RequiredGiven(c) == c.input /\ (Given(c, "ir") \/ Given(c, "region"))

\* selectCompilerArgument: a compiler after "--" is a placeholder if it is
\* the bare name clang++, and otherwise what --clang would have said.
CompilerSelected(c) ==
  CASE c.tail \in {"none", "option"} -> TRUE
    [] c.tail = "g++"                -> FALSE
    [] OTHER                         -> c.clang = "none"
Requested(c) == IF c.tail \in {"none", "option", "clang++"} THEN c.clang ELSE c.tail

\* discoverConfiguredCompiler: the requested compiler, or the configured one,
\* must run, have the exact version and readable resource headers, inside its
\* own prefix for the native front end.
CompilerDiscovered(c) ==
  /\ Requested(c) \notin {"missing", "otherVersion"}
  /\ c.frontend = "native" => Requested(c) # "outside"
GroupAdmitted_Report(c) ==
  LET generated == GivenOutputs(c) \cap Generated
  IN  generated \in {{}, Generated}

\* Recovered inspection never rewrites; the generated files come together.
GroupAdmitted(c) ==
  LET generated == GivenOutputs(c) \cap Generated
  IN  /\ Given(c, "report") => generated = {}
      /\ generated \in {{}, Generated}

\* Distinct files, none of them the input, one at most standard output.
ValidateOutputPaths(c) ==
  LET files == {o \in GivenOutputs(c) : c.out[o] # "-"}
  IN  /\ Cardinality(GivenOutputs(c) \ files) <= 1
      /\ \A o \in files : c.out[o] # "dir" /\ ~PathsReferToSameLocation("src", c.out[o])
      /\ \A o, p \in files : o # p => ~PathsReferToSameLocation(c.out[o], c.out[p])

FilesOnly(c) == Given(c, "rewrite") => \A o \in GivenOutputs(c) : c.out[o] # "-"

\* A compiler named without a directory is compared as a path of the working
\* directory.
LinkedCompiler(c) ==
  c.frontend = "native" => Requested(c) # "configuredName"

ParseCommandLine(c) ==
  /\ OptionsParsed(c)
  /\ IF c.verify THEN VerifyAlone(c)
     ELSE /\ c.frontend \in {"native", "ast-json-bootstrap"}
          /\ RegionAlone(c) /\ PipelineAdmitted(c) /\ ArgumentsAdmitted(c)
          /\ RequiredGiven(c) /\ CompilerSelected(c) /\ CompilerDiscovered(c)
          /\ GroupAdmitted(c) /\ ValidateOutputPaths(c) /\ FilesOnly(c)
          /\ LinkedCompiler(c)

------------------------------------------------------------------------------
(* What is done before anything is published, and what is published.       *)

\* The region route: the output is none of the captured dependencies, the
\* evidence is there, a region is derived from it and matches it.
RegionStages == <<"extract", "dependencies", "evidence", "derive", "matches">>

\* IR v0, its typed form and back.
IrStages == <<"extract", "verifyV0", "fromV0", "verifyV1", "projectToV0">>

SemanticStages(c) ==
  IF c.pipeline # "mlir" THEN <<>>
  ELSE <<"bridge">> \o (IF Given(c, "structured") THEN <<"handoff">> ELSE <<>>)
         \o <<"lower", "runtimeSymbol">>

GenerationStages(c) ==
  IF ~Given(c, "rewrite") THEN <<>>
  ELSE <<"generate">> \o (IF c.pipeline = "mlir" THEN <<"semanticBackend">> ELSE <<>>)

Stages(c) ==
  IF Given(c, "region") THEN RegionStages
  ELSE IrStages \o SemanticStages(c) \o GenerationStages(c)

\* Without a rewritten host the reports precede the IR.
InspectionOrder == <<"region", "report", "semantic", "structured", "ir">>

GenerationOrder == <<"ir", "rewrite", "sites", "stubs", "backend", "semantic", "structured">>

Order(c) ==
  SelectSeq(IF Given(c, "rewrite") THEN GenerationOrder ELSE InspectionOrder,
            LAMBDA o : Given(c, o))

------------------------------------------------------------------------------
(* Steps of a process. *)

At(p, at) == pc[p] = at
Fault == faults < MaxFaults /\ faults' = faults + 1

Exit(p, code) ==
  /\ pc' = [pc EXCEPT ![p] = "exit"]
  /\ status' = [status EXCEPT ![p] = code]

\* The environment and the linked Clang are authenticated, then the command
\* line is read.  --help and --frontend-info exit and are left out.
Start(p) ==
  /\ At(p, "start")
  /\ IF defect[p] # "none" \/ ~ParseCommandLine(command[p]) THEN Exit(p, 2)
     ELSE /\ pc' = [pc EXCEPT ![p] = IF command[p].verify THEN "verify" ELSE "stages"]
          /\ UNCHANGED status
  /\ UNCHANGED <<command, defect, stage, published, temporary, stdout, file, faults>>

\* --verify-ir: read, probe the version, parse and verify.
VerifyIr(p) ==
  /\ At(p, "verify")
  /\ \/ Exit(p, 0) /\ UNCHANGED faults
     \/ Fault /\ Exit(p, 1)
  /\ UNCHANGED <<command, defect, stage, published, temporary, stdout, file>>
Passes(p, s) ==
  s = "dependencies" =>
    command[p].out["region"] = "-" \/ Location(command[p].out["region"]) \notin {"src", "hdr"}

RunStage(p) ==
  LET c == command[p] IN
  /\ At(p, "stages")
  /\ \/ /\ stage[p] < Len(Stages(c)) /\ Passes(p, Stages(c)[stage[p] + 1])
        /\ stage' = [stage EXCEPT ![p] = @ + 1]
        /\ UNCHANGED <<pc, status, faults>>
     \/ /\ stage[p] < Len(Stages(c)) /\ ~Passes(p, Stages(c)[stage[p] + 1])
        /\ Exit(p, 1) /\ UNCHANGED <<stage, faults>>
     \/ stage[p] < Len(Stages(c)) /\ Fault /\ Exit(p, 1) /\ UNCHANGED stage
     \/ /\ stage[p] = Len(Stages(c))
        /\ pc' = [pc EXCEPT ![p] = "publish"]
        /\ UNCHANGED <<stage, status, faults>>
  /\ UNCHANGED <<command, defect, published, temporary, stdout, file>>

\* The output that is next, while there is one.
Next1(p) == Order(command[p])[published[p] + 1]
Publishing(p) == At(p, "publish") /\ published[p] < Len(Order(command[p]))
Destination(p) == command[p].out[Next1(p)]

WriteStandardOutput(p) ==
  /\ Publishing(p) /\ Destination(p) = "-"
  /\ \/ /\ stdout' = [stdout EXCEPT ![p] = @ \cup {Next1(p)}]
        /\ published' = [published EXCEPT ![p] = @ + 1]
        /\ UNCHANGED <<pc, status, faults>>
     \/ Fault /\ Exit(p, 1) /\ UNCHANGED <<stdout, published>>
  /\ UNCHANGED <<command, defect, stage, temporary, file>>

\* Open and write; what was opened is removed if either fails.
OpenTemporary(p) ==
  /\ Publishing(p) /\ Destination(p) # "-" /\ temporary[p] = "none"
  /\ \/ temporary' = [temporary EXCEPT ![p] = "open"] /\ UNCHANGED <<pc, status, faults>>
     \/ Fault /\ Exit(p, 1) /\ UNCHANGED temporary
  /\ UNCHANGED <<command, defect, stage, published, stdout, file>>

\* The stream is closed by its destructor, and nobody asks whether the last
\* bytes reached the file.
CloseTemporary(p) ==
  /\ temporary[p] = "open" /\ At(p, "publish")
  /\ \/ temporary' = [temporary EXCEPT ![p] = "whole"] /\ UNCHANGED faults
     \/ LostFlush /\ Fault /\ temporary' = [temporary EXCEPT ![p] = "short"]
  /\ UNCHANGED <<command, defect, pc, stage, published, stdout, status, file>>
Replace(p) ==
  /\ temporary[p] \in {"whole", "short"} /\ At(p, "publish")
  /\ \/ /\ file' = [file EXCEPT ![Location(Destination(p))] =
                      [by |-> p, as |-> Next1(p), whole |-> temporary[p] = "whole"]]
        /\ published' = [published EXCEPT ![p] = @ + 1]
        /\ UNCHANGED <<pc, status, faults>>
     \/ Fault /\ Exit(p, 1) /\ UNCHANGED <<file, published>>
  /\ temporary' = [temporary EXCEPT ![p] = "none"]
  /\ UNCHANGED <<command, defect, stage, stdout>>

Finish(p) ==
  /\ At(p, "publish") /\ published[p] = Len(Order(command[p]))
  /\ Exit(p, 0)
  /\ UNCHANGED <<command, defect, stage, published, temporary, stdout, file, faults>>

\* The process is killed, or the machine stops.
Die(p) ==
  /\ pc[p] \notin {"exit", "dead"} /\ Fault
  /\ pc' = [pc EXCEPT ![p] = "dead"]
  /\ UNCHANGED <<command, defect, stage, published, temporary, stdout, status, file>>

Init ==
  /\ command \in Commands
  /\ defect \in [Process -> Defects \cup {"none"}]
  /\ pc = [p \in Process |-> "start"]
  /\ stage = [p \in Process |-> 0] /\ published = [p \in Process |-> 0]
  /\ temporary = [p \in Process |-> "none"] /\ stdout = [p \in Process |-> {}]
  /\ status = [p \in Process |-> 0]
  /\ file = [l \in Locations |-> [by |-> "user", as |-> l, whole |-> TRUE]]
  /\ faults = 0

Step(p) ==
  \/ Start(p) \/ VerifyIr(p) \/ RunStage(p) \/ WriteStandardOutput(p)
  \/ OpenTemporary(p) \/ CloseTemporary(p) \/ Replace(p) \/ Finish(p) \/ Die(p)

Next == \E p \in Process : Step(p)

Spec == Init /\ [][Next]_vars

------------------------------------------------------------------------------
(* Properties. *)

\* The source is never overwritten, under none of its names, and a region
\* inspection overwrites no header the source includes either.
SourcesSurvive ==
  /\ file["src"].by = "user"
  /\ file["hdr"].by # "user" => file["hdr"].as # "region"

\* "All contents are generated and verified before any destination is
\* published": whoever wrote a file had passed every stage its command asks
\* for, and inspecting ordinary C++ never wrote a file of generated code.
PublishedWasVerified ==
  \A p \in Process, l \in Locations :
    file[l].by = p =>
      /\ stage[p] = Len(Stages(command[p]))
      /\ "extract" \in Range(SubSeq(Stages(command[p]), 1, stage[p]))
      /\ Given(command[p], "report") => file[l].as \in {"report", "ir"}

\* Exit status 0 means that every requested file was replaced by this
\* extraction's output, whole unless its last flush was lost, or by another
\* extractor's with the same destination; the files a
\* failed or killed extractor did publish are a beginning of its order, so
\* that the last file of a set vouches for the others.
PublicationIsOrdered ==
  \A p \in Process :
    LET order == Order(command[p])
        done  == {i \in 1..Len(order) : command[p].out[order[i]] # "-" /\
                    file[Location(command[p].out[order[i]])].by = p}
        lost(i) == \/ command[p].out[order[i]] = "-"
                   \/ file[Location(command[p].out[order[i]])].by \in Process \ {p}
    IN  pc[p] # "start" =>
        /\ \A i \in done, j \in 1..Len(order) : j < i => j \in done \/ lost(j)
        /\ (pc[p] = "exit" /\ status[p] = 0 /\ ~command[p].verify) =>
             \A i \in 1..Len(order) : i \in done \/ lost(i)

\* Processes that a fault stopped, with or without a report, after they had
\* passed every stage.
Stopped ==
  {p \in Process : stage[p] = Len(Stages(command[p])) /\
                     (pc[p] = "dead" \/ (pc[p] = "exit" /\ status[p] = 1))}
Short == {l \in Locations : ~file[l].whole}

\* No write that fails, no replacement that fails and no death leaves a part of
\* an output at its destination: every short file is a flush of its own that
\* was lost when the stream was closed, which the extractor does not report.
OnlyALostFlushShortens ==
  /\ Cardinality(Short) + Cardinality(Stopped) <= faults
  /\ Short # {} => LostFlush

\* An extractor that returns, with whatever status, leaves no temporary.
NoTemporaryAfterExit ==
  \A p \in Process : pc[p] = "exit" => temporary[p] = "none"

\* Standard output carries one document at most.
OneDocumentOnStandardOutput == \A p \in Process : Cardinality(stdout[p]) <= 1
=============================================================================
