------------------------------ MODULE MCCompiler ------------------------------
(* The components of the compiler side by side: the driver and its command line, the capture *)
(* of inputs, the extractor, the handed-off modules and the staging of data for a launch.  A *)
(* behaviour is one of them, named by part.                                                   *)
EXTENDS Integers, FiniteSets, Sequences, SequencesExt, TLC

CONSTANTS Parts, None, Absent, Other, fixture, private

\* Arguments of every class, and the ones a build has.
MCTokens ==
  [posix |-> {"--matcore-target=gpu", "--matcore-depfile=d", "--", "-o", "-I", "-L", "--sysroot", "-x", "c++",
              "-MF", "-MD", "-MT", "-Xclang", "-Xlinker", "-lfoo", "-pthread",
              "-flto", "-shared", "-c", "@rsp", "a.mdsl", "x.o"},
   windows |-> {"--verbose", "--matcore-depfile=d", "-o", "/Fo",
                "/I", "--sysroot", "/TP", "/TC", "/clang:x", "/c", "/link", "/MD", "/Zi",
                "-O2", "-m64", "a.mdsl", "x.o"}]
MCFixed ==
  [posix |-> {<<"b.mdsl">>, <<"--matcore-target=cpu", "-o", "x.o", "b.mdsl">>,
              <<"--matcore-target=cpu", "-o", "x.o", "--", "b.mdsl">>},
   windows |-> {<<"b.mdsl">>, <<"--matcore-target=cpu", "/Fo", "x.o", "b.mdsl">>}]

\* The command lines of the extractor: any set of outputs with any pipeline, version, front
\* end and input; outputs that meet each other, the source, a header or standard output;
\* compilers named on both sides of "--"; and two extractors whose destinations meet.
Generated == {"rewrite", "sites", "stubs", "backend"}
Outputs == Generated \cup {"ir", "semantic", "structured", "region", "report"}
Default == [input |-> TRUE, verify |-> FALSE, frontend |-> "native", pipeline |-> "none",
            version |-> "none", argumentsFile |-> FALSE, tail |-> "none", clang |-> "none",
            out |-> [o \in Outputs |-> ""]]
At1(outputs) == [o \in Outputs |-> IF o \in outputs THEN o ELSE ""]
Shapes ==
  {[Default EXCEPT !.out = At1(s), !.pipeline = q, !.version = v, !.frontend = f, !.verify = w, !.input = ~w] :
     s \in {x \cup y : x \in {{}, {"rewrite"}, Generated \ {"stubs"}, Generated},
                       y \in SUBSET (Outputs \ Generated)}, q \in {"none", "capture", "mlir", "twice"},
     v \in {"none", "0", "1", "2"}, f \in {"native", "ast-json-bootstrap"}, w \in BOOLEAN}
  \cup {[Default EXCEPT !.verify = TRUE], [Default EXCEPT !.input = FALSE], [Default EXCEPT !.frontend = "gcc"]}
Places == {"ir", "src", "alias", "hdr", "dir", "-"}
Aliased ==
  {[Default EXCEPT !.out = [At1({"ir", "report"}) EXCEPT !["ir"] = a, !["report"] = b]] :
     a \in Places, b \in Places \cup {"report"}}
  \cup {[Default EXCEPT !.out = [At1({"region"}) EXCEPT !["region"] = a]] : a \in Places}
  \cup {[Default EXCEPT !.out = [At1(Generated \cup {"ir", "semantic"}) EXCEPT !["backend"] = a],
                        !.pipeline = "mlir", !.version = "1"] : a \in Places}
Compilers ==
  {[Default EXCEPT !.out = At1({"ir"}), !.tail = t, !.clang = g, !.frontend = f, !.argumentsFile = a] :
     t \in {"none", "option", "clang++", "configuredName", "outside", "missing", "g++"},
     g \in {"none", "configured", "configuredName", "otherVersion", "outside"},
     f \in {"native", "ast-json-bootstrap"}, a \in BOOLEAN}
CommandsOne == {"p" :> c : c \in Shapes \cup Aliased \cup Compilers}
CommandsTwo ==
  [{"p", "q"} -> {[Default EXCEPT !.out = At1(Generated \cup {"ir"})],
                  [Default EXCEPT !.out = At1({"ir", "report"})]}]

VARIABLE part   \* which component runs

------------------------------------------------------------------------------
(* A build by mdslc++ while its inputs are edited. *)
VARIABLES driverRequest, driverFile, driverClock, driverPc, driverStage, driverOk,
          driverSnapshot, driverClosure, driverScan, driverPublic, driverUsed, driverStatus,
          driverEdits
driverVars == <<driverRequest, driverFile, driverClock, driverPc, driverStage, driverOk,
                driverSnapshot, driverClosure, driverScan, driverPublic, driverUsed,
                driverStatus, driverEdits>>
Driver == INSTANCE MdslcDriver WITH Outputs <- {"out", "S", "H", "X", "R"},
  Depfiles <- {"none", "dep", "H", "out", "X"}, Artifacts <- {"art", "H"},
  Defects <- {"astJsonOnWindows", "noCompiler", "noToolLayout", "outputPath", "noTemporary"},
  MaxEdits <- 2, Transient <- FALSE, request <- driverRequest, file <- driverFile,
  clock <- driverClock, pc <- driverPc, stage <- driverStage, ok <- driverOk,
  snapshot <- driverSnapshot, closure <- driverClosure, scan <- driverScan,
  public <- driverPublic, used <- driverUsed, status <- driverStatus, edits <- driverEdits
DriverIdle ==
  /\ driverRequest = "idle" /\ driverFile = "idle" /\ driverClock = "idle"
  /\ driverPc = "idle" /\ driverStage = "idle" /\ driverOk = "idle"
  /\ driverSnapshot = "idle" /\ driverClosure = "idle" /\ driverScan = "idle"
  /\ driverPublic = "idle" /\ driverUsed = "idle" /\ driverStatus = "idle"
  /\ driverEdits = "idle"

------------------------------------------------------------------------------
(* Its command line. *)
VARIABLES scanHost, scanArgv, scanPhase, scanIndex, scanPending, scanEnded, scanWrapper,
          scanInvocation, scanCommand, scanInjected, scanStatus
scanVars == <<scanHost, scanArgv, scanPhase, scanIndex, scanPending, scanEnded, scanWrapper,
              scanInvocation, scanCommand, scanInjected, scanStatus>>
Arguments == INSTANCE MdslcArguments WITH Hosts <- {"posix", "windows"}, Tokens <- MCTokens,
  MaxTokens <- 3, Fixed <- MCFixed, host <- scanHost, argv <- scanArgv, phase <- scanPhase,
  index <- scanIndex, pending <- scanPending, ended <- scanEnded, wrapper <- scanWrapper,
  invocation <- scanInvocation, command <- scanCommand, injected <- scanInjected,
  status <- scanStatus
ScanIdle ==
  /\ scanHost = "idle" /\ scanArgv = "idle" /\ scanPhase = "idle" /\ scanIndex = "idle"
  /\ scanPending = "idle" /\ scanEnded = "idle" /\ scanWrapper = "idle"
  /\ scanInvocation = "idle" /\ scanCommand = "idle" /\ scanInjected = "idle"
  /\ scanStatus = "idle"

------------------------------------------------------------------------------
(* The capture of the files a region was compiled from, on a changing disk or with owned headers. *)
VARIABLES inputWorld, inputFresh, inputEdits, inputPoisoned, inputPc, inputLook, inputRecords,
          inputBinary, inputError, inputAsks, inputTodo, inputSealed, inputIssued, inputAudit,
          inputAnswers, inputReplayed, inputMoment
inputVars == <<inputWorld, inputFresh, inputEdits, inputPoisoned, inputPc, inputLook,
               inputRecords, inputBinary, inputError, inputAsks, inputTodo, inputSealed,
               inputIssued, inputAudit, inputAnswers, inputReplayed, inputMoment>>
Inputs == INSTANCE HostInputs WITH Files <- {"main", "header"}, Main <- "main",
  Missing <- {"header"}, Directory <- "inc", Binaries <- {}, Owned <- {}, OwnedRoot <- private,
  kMaximumQueries <- 20, MaxEdits <- 2, MaxAsks <- 2, Asked <- {"status", "open"},
  world <- inputWorld, fresh <- inputFresh, edits <- inputEdits, poisoned <- inputPoisoned,
  pc <- inputPc, look <- inputLook, records <- inputRecords, binary <- inputBinary,
  error <- inputError, asks <- inputAsks, todo <- inputTodo, sealed <- inputSealed,
  issued <- inputIssued, audit <- inputAudit, answers <- inputAnswers,
  replayed <- inputReplayed, moment <- inputMoment
Binary == INSTANCE HostInputs WITH Files <- {"main", "header"}, Main <- "main",
  Missing <- {"header"}, Directory <- "inc", Binaries <- {"clang"}, Owned <- {},
  OwnedRoot <- private, kMaximumQueries <- 20, MaxEdits <- 1, MaxAsks <- 2,
  Asked <- {"status", "open"}, world <- inputWorld, fresh <- inputFresh, edits <- inputEdits,
  poisoned <- inputPoisoned, pc <- inputPc, look <- inputLook, records <- inputRecords,
  binary <- inputBinary, error <- inputError, asks <- inputAsks, todo <- inputTodo,
  sealed <- inputSealed, issued <- inputIssued, audit <- inputAudit, answers <- inputAnswers,
  replayed <- inputReplayed, moment <- inputMoment
Owned == INSTANCE HostInputs WITH Files <- {"main", "header"}, Main <- "main",
  Missing <- {"header"}, Directory <- "inc", Binaries <- {}, Owned <- {fixture},
  OwnedRoot <- private, kMaximumQueries <- 7, MaxEdits <- 1, MaxAsks <- 2,
  Asked <- {"directory", "realpath", "local"}, world <- inputWorld, fresh <- inputFresh,
  edits <- inputEdits, poisoned <- inputPoisoned, pc <- inputPc, look <- inputLook,
  records <- inputRecords, binary <- inputBinary, error <- inputError, asks <- inputAsks,
  todo <- inputTodo, sealed <- inputSealed, issued <- inputIssued, audit <- inputAudit,
  answers <- inputAnswers, replayed <- inputReplayed, moment <- inputMoment
InputIdle ==
  /\ inputWorld = "idle" /\ inputFresh = "idle" /\ inputEdits = "idle"
  /\ inputPoisoned = "idle" /\ inputPc = "idle" /\ inputLook = "idle"
  /\ inputRecords = "idle" /\ inputBinary = "idle" /\ inputError = "idle"
  /\ inputAsks = "idle" /\ inputTodo = "idle" /\ inputSealed = "idle"
  /\ inputIssued = "idle" /\ inputAudit = "idle" /\ inputAnswers = "idle"
  /\ inputReplayed = "idle" /\ inputMoment = "idle"

------------------------------------------------------------------------------
(* The extractor alone with every command line, and two that publish to one place. *)
VARIABLES extractCommand, extractDefect, extractPc, extractStage, extractPublished,
          extractTemporary, extractStdout, extractStatus, extractFile, extractFaults
extractVars == <<extractCommand, extractDefect, extractPc, extractStage, extractPublished,
                 extractTemporary, extractStdout, extractStatus, extractFile, extractFaults>>
Extract == INSTANCE MatcoreExtract WITH Process <- {"p"}, Commands <- CommandsOne,
  Defects <- {"surroundings"}, LostFlush <- FALSE, MaxFaults <- 1, command <- extractCommand,
  defect <- extractDefect, pc <- extractPc, stage <- extractStage,
  published <- extractPublished, temporary <- extractTemporary, stdout <- extractStdout,
  status <- extractStatus, file <- extractFile, faults <- extractFaults
Extractors == INSTANCE MatcoreExtract WITH Process <- {"p", "q"}, Commands <- CommandsTwo,
  Defects <- {}, LostFlush <- TRUE, MaxFaults <- 2, command <- extractCommand,
  defect <- extractDefect, pc <- extractPc, stage <- extractStage,
  published <- extractPublished, temporary <- extractTemporary, stdout <- extractStdout,
  status <- extractStatus, file <- extractFile, faults <- extractFaults
ExtractIdle ==
  /\ extractCommand = "idle" /\ extractDefect = "idle" /\ extractPc = "idle"
  /\ extractStage = "idle" /\ extractPublished = "idle" /\ extractTemporary = "idle"
  /\ extractStdout = "idle" /\ extractStatus = "idle" /\ extractFile = "idle"
  /\ extractFaults = "idle"

------------------------------------------------------------------------------
(* Certificates of handed-off modules. *)
VARIABLES certificateSemantic, certificateStructured, certificateDerived, certificateKind,
          certificateEdits
certificateVars == <<certificateSemantic, certificateStructured, certificateDerived,
                     certificateKind, certificateEdits>>
Certificate == INSTANCE HandoffCertificate WITH MaxEdits <- 2, semantic <- certificateSemantic,
  structured <- certificateStructured, derived <- certificateDerived, kind <- certificateKind,
  edits <- certificateEdits
CertificateIdle ==
  /\ certificateSemantic = "idle" /\ certificateStructured = "idle"
  /\ certificateDerived = "idle" /\ certificateKind = "idle" /\ certificateEdits = "idle"

------------------------------------------------------------------------------
(* The contract of one GEMM and its fingerprint. *)
VARIABLES gemmContract, gemmType, gemmChanges
gemmVars == <<gemmContract, gemmType, gemmChanges>>
Gemm == INSTANCE GemmContract WITH Extent <- {1, 2}, Symbol <- {"m", "k"},
  Position <- {1, 5}, MaxChanges <- 2, contract <- gemmContract, type <- gemmType,
  changes <- gemmChanges
Prints == INSTANCE GemmContract WITH Extent <- {1, 2}, Symbol <- {"m", "n", "k"},
  Position <- {1, 5}, MaxChanges <- 0, contract <- gemmContract, type <- gemmType,
  changes <- gemmChanges
GemmIdle ==
  /\ gemmContract = "idle" /\ gemmType = "idle" /\ gemmChanges = "idle"

------------------------------------------------------------------------------
(* Topologies and bodies of the handed-off function. *)
VARIABLES bodyForm, bodyBody, bodyChanges
bodyVars == <<bodyForm, bodyBody, bodyChanges>>
Body == INSTANCE HandoffBodies WITH MaxChanges <- 2, form <- bodyForm, body <- bodyBody,
  changes <- bodyChanges
BodyIdle ==
  /\ bodyForm = "idle" /\ bodyBody = "idle" /\ bodyChanges = "idle"

------------------------------------------------------------------------------
(* The staging of data around a launch. *)
VARIABLES stagingBody, stagingResident, stagingProgram, stagingNext, stagingQueue,
          stagingMemory, stagingDevice, stagingFaulted
stagingVars == <<stagingBody, stagingResident, stagingProgram, stagingNext, stagingQueue,
                 stagingMemory, stagingDevice, stagingFaulted>>
Staging == INSTANCE GpuDataStaging WITH Args <- {"a", "b"}, Outer <- "o", OuterOf <- "a",
  Inner <- <<"i1", "i2", "i3">>, ViewKinds <- {"subview"}, MaxOps <- 3,
  body <- stagingBody, resident <- stagingResident, program <- stagingProgram,
  next <- stagingNext, queue <- stagingQueue, memory <- stagingMemory, device <- stagingDevice,
  faulted <- stagingFaulted
StagingIdle ==
  /\ stagingBody = "idle" /\ stagingResident = "idle" /\ stagingProgram = "idle"
  /\ stagingNext = "idle" /\ stagingQueue = "idle" /\ stagingMemory = "idle"
  /\ stagingDevice = "idle" /\ stagingFaulted = "idle"

------------------------------------------------------------------------------
\* The constants of every instance are ones the code can be built and called with.
ASSUME InstanceAssumption ==
  /\ Driver!ConstantsAssumption /\ Arguments!ConstantsAssumption
  /\ Inputs!ConstantsAssumption /\ Binary!ConstantsAssumption
  /\ Owned!ConstantsAssumption /\ Extract!ConstantsAssumption
  /\ Extractors!ConstantsAssumption /\ Certificate!ConstantsAssumption
  /\ Gemm!ConstantsAssumption /\ Prints!ConstantsAssumption
  /\ Staging!ConstantsAssumption

vars == <<part, driverVars, scanVars, inputVars, extractVars, certificateVars, gemmVars,
          bodyVars, stagingVars>>

Init ==
  /\ part \in Parts
  /\ IF part = "driver" THEN Driver!Init ELSE DriverIdle
  /\ IF part = "arguments" THEN Arguments!Init ELSE ScanIdle
  /\ CASE part = "inputs" -> Inputs!Init
       [] part = "binary" -> Binary!Init
       [] part = "owned" -> Owned!Init
       [] OTHER -> InputIdle
  /\ CASE part = "extract" -> Extract!Init
       [] part = "extractors" -> Extractors!Init
       [] OTHER -> ExtractIdle
  /\ IF part = "certificate" THEN Certificate!Init ELSE CertificateIdle
  /\ CASE part = "contract" -> Gemm!Init
       [] part = "fingerprint" -> Prints!Init
       [] OTHER -> GemmIdle
  /\ IF part = "body" THEN Body!Init ELSE BodyIdle
  /\ IF part = "staging" THEN Staging!Init ELSE StagingIdle

Next ==
  \/ part = "driver" /\ Driver!Next /\ UNCHANGED <<part, scanVars, inputVars, extractVars,
       certificateVars, gemmVars, bodyVars, stagingVars>>
  \/ part = "arguments" /\ Arguments!Next /\ UNCHANGED <<part, driverVars, inputVars,
       extractVars, certificateVars, gemmVars, bodyVars, stagingVars>>
  \/ part = "inputs" /\ Inputs!Next /\ UNCHANGED <<part, driverVars, scanVars, extractVars,
       certificateVars, gemmVars, bodyVars, stagingVars>>
  \/ part = "binary" /\ Binary!Next /\ UNCHANGED <<part, driverVars, scanVars, extractVars,
       certificateVars, gemmVars, bodyVars, stagingVars>>
  \/ part = "owned" /\ Owned!Next /\ UNCHANGED <<part, driverVars, scanVars, extractVars,
       certificateVars, gemmVars, bodyVars, stagingVars>>
  \/ part = "extract" /\ Extract!Next /\ UNCHANGED <<part, driverVars, scanVars, inputVars,
       certificateVars, gemmVars, bodyVars, stagingVars>>
  \/ part = "extractors" /\ Extractors!Next /\ UNCHANGED <<part, driverVars, scanVars,
       inputVars, certificateVars, gemmVars, bodyVars, stagingVars>>
  \/ part = "certificate" /\ Certificate!Next /\ UNCHANGED <<part, driverVars, scanVars,
       inputVars, extractVars, gemmVars, bodyVars, stagingVars>>
  \/ part = "contract" /\ Gemm!Next /\ UNCHANGED <<part, driverVars, scanVars, inputVars,
       extractVars, certificateVars, bodyVars, stagingVars>>
  \/ part = "body" /\ Body!Next /\ UNCHANGED <<part, driverVars, scanVars, inputVars,
       extractVars, certificateVars, gemmVars, stagingVars>>
  \/ part = "staging" /\ Staging!Next /\ UNCHANGED <<part, driverVars, scanVars, inputVars,
       extractVars, certificateVars, gemmVars, bodyVars>>

Spec == Init /\ [][Next]_vars

------------------------------------------------------------------------------
\* The objects of a build that succeeds were made from what the extraction saw, whatever is
\* edited between its children; its depfile names every file they were made from; and a build
\* that fails leaves no output and no depfile of its own.
OutputIsConsistent ==
  part = "driver" =>
    Driver!OutputIsConsistent /\ Driver!DepfileIsComplete /\ Driver!FailureLeavesNothing

\* The driver never removes or overwrites the source or a file its scan found.
DriverKeepsInputs == [][part = "driver" => Driver!InputsKept]_driverVars

\* The scans of the command line agree on what each argument is, so that nothing opaque is
\* handed to the compiler or the linker and every source is compiled in its own language.
ScansAgree ==
  part = "arguments" =>
    Arguments!ScansAgree /\ Arguments!NothingOpaqueAccepted /\ Arguments!DirectLanguages

\* A frozen capture, and a replay that passed its audit, are of one moment of the disk, however
\* files are edited meanwhile; a parse is told one thing of one question, and of an owned header
\* never what is on the disk; and the records are bounded.
FrozenIsOneMoment ==
  /\ part = "inputs" =>
       Inputs!FrozenIsOneMoment /\ Inputs!ReplayIsOfTheMoment /\ Inputs!OneAnswerPerQuestion
  /\ part = "binary" => Binary!FrozenIsOneMoment
  /\ part = "owned" => Owned!OwnedNeverFromDisk /\ Owned!QueriesBounded

\* What an extractor publishes had passed every stage, in an order in which the last file
\* vouches for the others, also when it dies or another one publishes to the same place; it
\* never overwrites its source, leaves no temporary when it returns and writes one document to
\* standard output at most.  A write that fails or a death leaves no part of a file at its
\* destination; only the flush of a closing stream, which nobody asks about, can be lost.
PublishedWasVerified ==
  /\ part = "extract" =>
       Extract!PublishedWasVerified /\ Extract!SourcesSurvive /\ Extract!OneDocumentOnStandardOutput
       /\ Extract!OnlyALostFlushShortens
  /\ part = "extractors" =>
       /\ Extractors!PublishedWasVerified /\ Extractors!NoTemporaryAfterExit
       /\ Extractors!PublicationIsOrdered /\ Extractors!OnlyALostFlushShortens

\* A contract that is accepted multiplies matrices whose extents agree and keeps its arguments
\* apart, whatever fields were changed; equal fingerprints mean equal products; an accepted body
\* or topology computes the operation it names; and a structured or derived module that is
\* accepted, alone or beside its source, is the projection of a source, whole and unmixed with
\* sites of other captures, and what is issued derives.
AcceptedHandoffIsFaithful ==
  /\ part = "contract" =>
       Gemm!AcceptedShapesMultiply /\ Gemm!BuiltIsAccepted /\ Gemm!AcceptedArgumentsAreApart
  /\ part = "fingerprint" => Prints!EqualFingerprintsMeanEqualProducts
  /\ part = "body" => Body!AcceptedBodyMultiplies /\ Body!DecodedTopologyComputes
  /\ part = "certificate" =>
       /\ Certificate!AcceptedDerivedIsWhole /\ Certificate!PairedDerivedIsTheProjection
       /\ Certificate!PairedStructuredIsTheProjection /\ Certificate!StructuredHasASource
       /\ Certificate!DerivationSucceeds

\* After a staged launch the buffers of the caller hold what the launch would have left in them,
\* and the device touched no staged buffer outside its life.
HostSeesTheLaunch ==
  part = "staging" => Staging!HostSeesTheLaunch /\ Staging!StagedBuffersAreLive
==============================================================================
