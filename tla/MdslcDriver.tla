----------------------------- MODULE MdslcDriver -----------------------------
(***************************************************************************)
(* RunCpuPipeline of mdslc++: scan the dependencies of the source, snapshot *)
(* them, extract, compile three generated units and link, while somebody    *)
(* edits the files.  Every child process and every consistency check is a   *)
(* step; the driver promises that what it emits was built from one version  *)
(* of its inputs, and that a failure leaves nothing behind.                 *)
(***************************************************************************)
EXTENDS Naturals, Sequences, FiniteSets

CONSTANTS
  Outputs,    \* where -o may point: locations
  Depfiles,   \* where the dependency file may go: locations, or "none"
  Artifacts,  \* where generated files go: a temporary, or a user's location
  Defects,    \* what may be wrong before the pipeline starts
  MaxEdits,   \* files somebody else writes during the run
  Transient   \* the editor may also remove a header it added

\* "S" is the source; it includes a header found at "X" if there is such a
\* file, else at "H" (later on the search path); "R" is the runtime's header
\* that generated units include.
Location == {"S", "H", "X", "R", "out", "dep", "art"}
Unit == {"host", "stubs", "backend"}
Missing == 0

ConstantsAssumption ==
  /\ Outputs \subseteq Location /\ Outputs # {}
  /\ Depfiles \subseteq Location \cup {"none"} /\ Depfiles # {}
  /\ Artifacts \subseteq Location /\ Artifacts # {}
  /\ MaxEdits \in Nat /\ Transient \in BOOLEAN

VARIABLES
  request,   \* the invocation: output, depfile, art, defect
  file,      \* [Location -> version]: content, write time and identity
  clock,     \* versions handed out
  pc,        \* phase of the pipeline
  stage,     \* within a phase: check before, child runs, check after
  ok,        \* the child of the phase exited with 0
  snapshot,  \* version of the source that was read first
  closure,   \* dependency_closure: pairs <<location, version>>
  scan,      \* [depfile -> locations it names]
  public,    \* locations named by the public depfiles
  used,      \* [extraction or unit -> pairs it was made from]
  status,    \* exit status
  edits      \* files the editor wrote

vars == <<request, file, clock, pc, stage, ok, snapshot, closure, scan, public,
          used, status, edits>>

------------------------------------------------------------------------------
(* What a compiler sees. *)

\* Resolution of the include, first match on the search path.
Header == IF file["X"] # Missing THEN "X" ELSE "H"

\* The files a child opens, by what it compiles.
Reads(what) ==
  CASE what = "source" -> {"S", Header}
    [] what = "host"   -> {request.art, Header}
    [] OTHER           -> {request.art, "R"}

\* The paths its depfile names: the overlay shows the rewritten host under
\* the path of the source.
Names(what) ==
  CASE what = "source" -> {"S", Header}
    [] what = "host"   -> {"S", Header, request.art}
    [] OTHER           -> {request.art, "R"}

Readable(what) == \A l \in Reads(what) : file[l] # Missing
Versions(locations) == {<<l, file[l]>> : l \in locations}

\* ReadSourceSnapshot: a snapshot needs a regular file.
Captured(locations) == \A l \in locations : file[l] # Missing

\* CompilationInputsMatch: the source and every captured dependency are what
\* they were, by content, write time and identity.
SourceMatchesSnapshot == file["S"] = snapshot
DependencyClosureMatches == \A d \in closure : file[d[1]] = d[2]
CompilationInputsMatch == SourceMatchesSnapshot /\ DependencyClosureMatches

\* AppendDependencyClosure: a path that is captured keeps its first snapshot.
Appended(locations) ==
  closure \cup Versions({l \in locations : \A d \in closure : d[1] # l})

\* RequireSameDependencyResolution: the same paths, generated ones aside.
SameResolution(baseline, names, excluded) == baseline = names \ excluded

------------------------------------------------------------------------------
(* Steps of a phase. *)

\* The pipeline returns; what it removes on the way out is `removed`.
Return(code, removed) ==
  /\ pc' = "exit" /\ stage' = "none"
  /\ status' = code
  /\ file' = [l \in Location |-> IF l \in removed THEN Missing ELSE file[l]]
  /\ UNCHANGED <<request, clock, ok, snapshot, closure, scan, public, used, edits>>

At(phase, step) == pc = phase /\ stage = step

Goto(phase, step) == pc' = phase /\ stage' = step

\* Phases whose first act is a consistency check.
Before(phase) ==
  /\ At(phase, "before")
  /\ IF CompilationInputsMatch
     THEN /\ Goto(phase, "run")
          /\ UNCHANGED <<request, file, clock, ok, snapshot, closure, scan, public,
                         used, status, edits>>
     ELSE Return(1, {})

\* A compiler run: it fails when a file is missing, and may fail anyway.
Child(phase, what) ==
  /\ At(phase, "run") /\ Goto(phase, "after")
  /\ ok' \in (IF Readable(what) THEN BOOLEAN ELSE {FALSE})
  /\ UNCHANGED <<request, snapshot, closure, status, edits>>

\* A scan: the child writes a depfile that names what it opened.
Scan(phase, what, depfile) ==
  /\ Child(phase, what)
  /\ scan' = [scan EXCEPT ![depfile] = IF ok' THEN Names(what) ELSE {}]
  /\ UNCHANGED <<file, clock, public, used>>

\* A compilation: the child writes an object made of what it opened.
Compile(phase, what) ==
  /\ Child(phase, what)
  /\ used' = [used EXCEPT ![what] = IF ok' THEN Versions(Reads(what)) ELSE {}]
  /\ UNCHANGED <<file, clock, scan, public>>

Continue(next) ==
  /\ Goto(next[1], next[2])
  /\ UNCHANGED <<request, file, clock, ok, snapshot, scan, used, status, edits>>

------------------------------------------------------------------------------
(* The pipeline, in order. *)

Checks ==
  << <<"astJsonOnWindows", 2>>, <<"noCompiler", 1>>, <<"compilerVersion", 1>>,
     <<"noResourceDirectory", 1>>, <<"resourceOutsidePrefix", 1>>,
     <<"noToolLayout", 1>>, <<"outputPath", 2>>, <<"noOutputDirectory", 2>>,
     <<"noTemporary", 1>> >>

Preflight ==
  /\ At("preflight", "run")
  /\ \/ \E i \in DOMAIN Checks : Checks[i][1] = request.defect /\ Return(Checks[i][2], {})
     \/ /\ request.defect = "none"
        /\ IF "S" = request.output \/ file["S"] = Missing
           THEN Return(2, {})
           ELSE /\ snapshot' = file["S"] /\ Goto("paths", "run")
                /\ UNCHANGED <<request, file, clock, ok, closure, scan, public, used,
                               status, edits>>

\* The dependency file may not be the input, the output or an artifact.
DependencyPath ==
  /\ At("paths", "run")
  /\ IF request.depfile \in {"S", request.output, request.art}
     THEN Return(2, {})
     ELSE Continue(<<"source", "run">>) /\ UNCHANGED <<closure, public>>

SourceScan ==
  \/ Scan("source", "source", "source")
  \/ /\ At("source", "after")
     /\ IF ~SourceMatchesSnapshot \/ ~ok THEN Return(1, {})
        ELSE Continue(<<"capture", "run">>) /\ UNCHANGED <<closure, public>>

\* CaptureDependencyClosure and the check that follows it.
CaptureClosure ==
  /\ At("capture", "run")
  /\ IF Captured(scan["source"]) /\ SourceMatchesSnapshot
     THEN /\ closure' = Versions(scan["source"])
          /\ Continue(<<"disjoint", "run">>) /\ UNCHANGED public
     ELSE Return(1, {})

\* RequireMutationPathsDisjointFromDependencies.
RequireDisjoint_Output ==
  /\ At("disjoint", "run")
  /\ IF request.output \in scan["source"]
     THEN Return(2, {})
     ELSE Continue(<<"clear", "run">>) /\ UNCHANGED <<closure, public>>

RequireDisjoint ==
  /\ At("disjoint", "run")
  /\ IF {request.output, request.depfile, request.art} \cap {d[1] : d \in closure} # {}
     THEN Return(2, {})
     ELSE Continue(<<"clear", "run">>) /\ UNCHANGED <<closure, public>>

\* The two user-visible destinations are removed; either removal may fail.
ClearOutputs ==
  \/ /\ At("clear", "run")
     /\ \/ Return(2, {})
        \/ /\ file' = [file EXCEPT ![request.output] = Missing]
           /\ Goto("clear", "after")
           /\ UNCHANGED <<request, clock, ok, snapshot, closure, scan, public, used,
                          status, edits>>
  \/ /\ At("clear", "after")
     /\ \/ request.depfile # "none" /\ Return(2, {})
        \/ /\ file' = [l \in Location |-> IF l = request.depfile THEN Missing ELSE file[l]]
           /\ IF request.depfile = "none" THEN Goto("extract", "run")
                                          ELSE Goto("publicSource", "run")
           /\ UNCHANGED <<request, clock, ok, snapshot, closure, scan, public, used,
                          status, edits>>

PublicSourceScan ==
  \/ Scan("publicSource", "source", "public")
  \/ /\ At("publicSource", "after")
     /\ IF CompilationInputsMatch /\ ok
        THEN /\ public' = public \cup scan["public"]
             /\ Continue(<<"extract", "run">>) /\ UNCHANGED closure
        ELSE Return(1, {})

\* matcore-extract reads the source and writes the generated files.
Extract ==
  \/ /\ Child("extract", "source")
     /\ used' = [used EXCEPT !["extract"] = IF ok' THEN Versions({"S", Header}) ELSE {}]
     /\ clock' = clock + 1
     /\ file' = [file EXCEPT ![request.art] = clock + 1]
     /\ UNCHANGED <<scan, public>>
  \/ /\ At("extract", "after")
     /\ IF CompilationInputsMatch /\ ok
        THEN Continue(<<"generated", "run">>) /\ UNCHANGED <<closure, public>>
        ELSE Return(1, {})

\* Required artifacts, the host overlay, and their snapshots.
SnapshotGenerated ==
  /\ At("generated", "run")
  /\ IF Captured({request.art}) /\ CompilationInputsMatch
     THEN /\ closure' = Appended({request.art})
          /\ Continue(<<"hostScan", "before">>) /\ UNCHANGED public
     ELSE Return(1, {})

\* capture_generated_closure: check, capture, check.
CaptureGenerated(depfile, next) ==
  IF CompilationInputsMatch /\ Captured(scan[depfile])
  THEN /\ closure' = Appended(scan[depfile])
       /\ Continue(next) /\ UNCHANGED public
  ELSE Return(1, {})

HostScan ==
  \/ Before("hostScan")
  \/ Scan("hostScan", "host", "host")
  \/ /\ At("hostScan", "after")
     /\ IF ok /\ SameResolution(scan["source"], scan["host"], {request.art})
        THEN CaptureGenerated("host", <<"stubsScan", "before">>)
        ELSE Return(1, {})

StubsScan ==
  \/ Before("stubsScan")
  \/ Scan("stubsScan", "stubs", "stubs")
  \/ /\ At("stubsScan", "after")
     /\ IF ok THEN CaptureGenerated("stubs", <<"backendScan", "before">>)
        ELSE Return(1, {})

BackendScan ==
  \/ Before("backendScan")
  \/ Scan("backendScan", "backend", "backend")
  \/ /\ At("backendScan", "after")
     /\ IF ok
        THEN CaptureGenerated("backend",
               <<IF request.depfile = "none" THEN "hostCompile" ELSE "publicHost", "before">>)
        ELSE Return(1, {})

\* scan_public_generated, once for each unit.
PublicGenerated(phase, unit, next) ==
  \/ Before(phase)
  \/ Scan(phase, unit, "public")
  \/ /\ At(phase, "after")
     /\ IF CompilationInputsMatch /\ ok
        THEN /\ public' = public \cup scan["public"]
             /\ Continue(<<next, "before">>) /\ UNCHANGED closure
        ELSE Return(1, {})
PublicGeneratedScans ==
  \/ PublicGenerated("publicHost", "host", "publicStubs")
  \/ PublicGenerated("publicStubs", "stubs", "publicBackend")
  \/ PublicGenerated("publicBackend", "backend", "hostCompile")

\* What follows a compilation: the check, then the child's own status.
AfterCompile(phase, next) ==
  /\ At(phase, "after")
  /\ IF CompilationInputsMatch /\ ok
     THEN Continue(<<next, "run">>) /\ UNCHANGED <<closure, public>>
     ELSE Return(1, {})

\* recheck_host_resolution and recheck_generated_resolution: scan again and
\* compare the paths; on failure `removed` goes.
Recheck(phase, unit, baseline, excluded, next, removed) ==
  \/ Scan(phase, unit, "rescan")
  \/ /\ At(phase, "after")
     /\ IF CompilationInputsMatch /\ ok
           /\ SameResolution(scan[baseline], scan["rescan"], excluded)
        THEN Continue(next) /\ UNCHANGED <<closure, public>>
        ELSE Return(1, removed)

RecheckHost_SnapshotsOnly(phase, next, removed) ==
  Recheck(phase, "host", "rescan", {}, next, removed)

RecheckHost(phase, next, removed) ==
  Recheck(phase, "host", "source", {request.art}, next, removed)

RecheckGenerated(phase, unit, next, removed) ==
  Recheck(phase, unit, unit, {}, next, removed)

CompileHost ==
  \/ Before("hostCompile")
  \/ Compile("hostCompile", "host")
  \/ AfterCompile("hostCompile", "hostRecheck")
  \/ RecheckHost("hostRecheck", <<"stubsCompile", "before">>, {})

CompileStubs ==
  \/ Before("stubsCompile")
  \/ Compile("stubsCompile", "stubs")
  \/ AfterCompile("stubsCompile", "stubsRecheck")
  \/ RecheckGenerated("stubsRecheck", "stubs", <<"backendCompile", "before">>, {})

CompileBackend ==
  \/ Before("backendCompile")
  \/ Compile("backendCompile", "backend")
  \/ AfterCompile("backendCompile", "backendRecheck")
  \/ RecheckGenerated("backendRecheck", "backend", <<"link", "before">>, {})

\* The linker may write its output and fail, or report success without one.
Link ==
  \/ Before("link")
  \/ /\ At("link", "run") /\ Goto("link", "after")
     /\ ok' \in BOOLEAN
     /\ clock' = clock + 1
     /\ file' \in {file, [file EXCEPT ![request.output] = clock + 1]}
     /\ UNCHANGED <<request, snapshot, closure, scan, public, used, status, edits>>
  \/ /\ At("link", "after")
     /\ IF CompilationInputsMatch /\ ok /\ file[request.output] # Missing
        THEN Continue(<<"hostFinal", "run">>) /\ UNCHANGED <<closure, public>>
        ELSE Return(1, {request.output})

FinalRechecks ==
  \/ RecheckHost("hostFinal", <<"stubsFinal", "run">>, {request.output})
  \/ RecheckGenerated("stubsFinal", "stubs", <<"backendFinal", "run">>,
                      {request.output, request.depfile})
  \/ RecheckGenerated("backendFinal", "backend", <<"publish", "run">>,
                      {request.output, request.depfile})

\* Merge the public depfiles and rename the result over the destination; the
\* write of the temporary or the rename may fail.
PublishDepfile ==
  /\ At("publish", "run")
  /\ \/ /\ request.depfile = "none" /\ Continue(<<"final", "run">>)
        /\ UNCHANGED <<closure, public>>
     \/ request.depfile # "none" /\ Return(1, {request.output})
     \/ /\ request.depfile # "none" /\ CompilationInputsMatch
        /\ clock' = clock + 1
        /\ file' = [file EXCEPT ![request.depfile] = clock + 1]
        /\ public' = public \ {request.art}
        /\ Goto("final", "run")
        /\ UNCHANGED <<request, ok, snapshot, closure, scan, used, status, edits>>
FinalMatch ==
  /\ At("final", "run")
  /\ IF CompilationInputsMatch THEN Return(0, {})
     ELSE Return(1, {request.output, request.depfile})

------------------------------------------------------------------------------
(* Somebody else: edits the files the build reads, and adds a header that   *)
(* shadows one of them.                                                      *)

Editor ==
  /\ pc # "exit" /\ edits < MaxEdits
  /\ edits' = edits + 1
  /\ \/ \E l \in {"S", "H", "X", "R"} :
          /\ l \in {request.output, request.depfile, request.art} => l = "X"
          /\ clock' = clock + 1 /\ file' = [file EXCEPT ![l] = clock + 1]
     \/ /\ Transient /\ file["X"] # Missing
        /\ file' = [file EXCEPT !["X"] = Missing] /\ clock' = clock
  /\ UNCHANGED <<request, pc, stage, ok, snapshot, closure, scan, public, used, status>>

Init ==
  /\ request \in [output : Outputs, depfile : Depfiles, art : Artifacts,
                  defect : Defects \cup {"none"}]
  /\ file = [l \in Location |-> IF l \in {"X", "art"} THEN Missing ELSE 1]
  /\ clock = 1
  /\ pc = "preflight" /\ stage = "run" /\ ok = FALSE
  /\ snapshot = Missing /\ closure = {} /\ public = {}
  /\ scan = [d \in {"source", "public", "rescan"} \cup Unit |-> {}]
  /\ used = [u \in {"extract"} \cup Unit |-> {}]
  /\ status = 0 /\ edits = 0

Driver ==
  \/ Preflight \/ DependencyPath \/ SourceScan \/ CaptureClosure \/ RequireDisjoint
  \/ ClearOutputs \/ PublicSourceScan \/ Extract \/ SnapshotGenerated
  \/ HostScan \/ StubsScan \/ BackendScan \/ PublicGeneratedScans
  \/ CompileHost \/ CompileStubs \/ CompileBackend
  \/ Link \/ FinalRechecks \/ PublishDepfile \/ FinalMatch

Next == Driver \/ Editor

Spec == Init /\ [][Next]_vars

------------------------------------------------------------------------------
(* Properties. *)

Succeeded == pc = "exit" /\ status = 0

\* The objects of a build that succeeds were compiled from the source, the
\* headers and the generated files that the extraction saw, and resolved the
\* include as it did: no edit of RunCpuPipeline's inputs, at any moment, slips
\* between two of its children.
OutputIsConsistent ==
  Succeeded =>
    LET extracted == used["extract"] IN
    /\ <<"S", snapshot>> \in extracted
    /\ \A u \in Unit : \A d \in used[u] :
         \/ d \in extracted
         \/ d[1] \in {request.art, "R"} /\ \A v \in Unit : \A e \in used[v] :
                                              e[1] = d[1] => e = d
    /\ {d \in used["host"] : d[1] # request.art} = extracted \ {<<"S", snapshot>>}

\* The depfile of a build that succeeds names every file of the user and of
\* the runtime that the extraction or an object was made from, and no
\* generated one: a later make rebuilds when one of them changes.
DepfileIsComplete ==
  Succeeded /\ request.depfile # "none" =>
    public = {d[1] : d \in UNION {used[u] : u \in {"extract"} \cup Unit}} \ {request.art}

\* A build that fails leaves no output and no depfile of its own: each is gone
\* or still what the user had (only what nobody else writes is compared).
FailureLeavesNothing ==
  pc = "exit" /\ status # 0 =>
    \A l \in {"out", "dep"} \cap {request.output, request.depfile} : file[l] \in {Missing, 1}

\* The driver neither removes nor overwrites the source or a file its
\* dependency scan found, whatever -o, the depfile and --save-temps name.
InputsKept == edits' = edits => \A l \in {"S"} \cup scan["source"] : file'[l] = file[l]
==============================================================================
