----------------------------- MODULE Assessment -----------------------------
(***************************************************************************)
(* One live invocation of the program, from its options to its exit code:  *)
(* Execute and Evaluate (src/internal/app/app.go), the live wiring         *)
(* (live.go), the discovery, version and info probes of Podman             *)
(* (src/internal/runtime/podman), the evidence they give                   *)
(* (src/internal/capability/podman_cli.go and podman_info.go) and the      *)
(* report (report.go, host.go, runtime_report.go).                         *)
(*                                                                         *)
(* The invocation is sequential except for the probes, which run as module *)
(* ProbeRun specifies.  Around it the world moves: a signal or the         *)
(* deadline of an active collection ends the context at any moment, and a  *)
(* package manager may replace or remove a Podman executable between two   *)
(* looks at it.                                                            *)
(*                                                                         *)
(* A probe that only reads files is its completeness and the error it      *)
(* returns.  Contexts other than the current one that need a worker are    *)
(* the subject of module TargetDelegation; one that resolves to no         *)
(* execution identity is included here.                                    *)
(***************************************************************************)
EXTENDS Integers, Sequences, FiniteSets, FiniteSetsExt, SequencesExt

CONSTANTS Candidates,    \* the fixed search list, in order
          HostProbes,    \* probes of host.Probes
          ContextProbes, \* context.subids and context.user
          Prerequisites, \* prerequisiteProbes
          Builds,        \* what an installed Podman reports as its version
          Runtimes,      \* values of --runtime: "" is host-only collection
          MaxChanges     \* how often the executables change during the run

Version == "podman.version"
Info == "podman.info"
Discovery == "podman.discovery"
Identity == "host.identity"
Helper == "podman.network-helper"
Configuration == "podman.configuration"

Unset == ""    \* an option, a path or a command that is not there

Probes == HostProbes \cup ContextProbes \cup Prerequisites \cup {Version, Info}
Paths == ToSet(Candidates)
FileStates == {"absent", "denied", "irregular", "noexec"} \cup Builds

Options == [runtime : Runtimes, active : BOOLEAN, path : Paths \cup {Unset},
            requirement : {Unset, "cli", "inspection"}]

ExitSatisfied == 0
ExitUnsatisfied == 1
ExitIndeterminate == 2
ExitUsage == 64
ExitExecution == 70
NotExited == -1
Verdicts == {ExitSatisfied, ExitUnsatisfied, ExitIndeterminate}

Final == {"Succeeded", "Failed", "Cancelled", "Skipped"}

ASSUME ProbesAssumption ==
    /\ MaxChanges \in Nat
    /\ Candidates \in Seq(STRING) /\ Candidates # <<>> /\ Unset \notin Paths
    /\ Runtimes \subseteq {Unset, "podman"}
    /\ Builds \cap {"absent", "denied", "irregular", "noexec", "unknown"} = {}
    /\ {Version, Info, Discovery, Identity, Helper, Configuration}
         \cap (HostProbes \cup ContextProbes \cup Prerequisites) = {}

VARIABLES
    pc,      \* what the invocation does next
    opts,    \* Options
    ctx,     \* ctx.Err() # nil
    files,   \* what a stat or an exec of each candidate finds
    changes, \* how often files has changed
    reader,  \* the scoped reader of evaluateLive: opened, closed, close failed
    execution, \* current.Identity.Execution # nil
    looked,  \* discovery's loop: what was found at the candidates so far
    obs,     \* dataset.Observations, by ID
    planned, \* the registered probes
    status,  \* ProbeResult.Status; "none" and "running" before it is known
    command, \* CommandSpec.Path of the two Podman commands, "" if none
    ran,     \* the Podman commands launched so far
    at,      \* Input.At
    report,  \* what Evaluate returned
    failed,  \* Evaluate returned an error
    stdout,  \* what the caller has of the report
    exit     \* the exit code

world  == <<ctx, files, changes>>
live   == <<reader, execution, looked, command>>
data   == <<obs, planned, status, ran, at>>
result == <<report, failed, stdout, exit>>
vars   == <<pc, opts, world, live, data, result>>

(* The wall clock at the stages where the code reads it. *)
Bootstrap == 1
Discovering == 2
Collecting == 3
Afterwards == 4
Projecting == 5

NoReport == [host |-> "none", context |-> "none", runtime |-> "none", exit |-> ExitExecution]

Init ==
    /\ pc = "start"
    /\ opts \in Options
    /\ ctx = FALSE
    /\ files \in [Paths -> FileStates]
    /\ changes = 0
    /\ reader = "none"
    /\ execution = FALSE
    /\ looked = <<>>
    /\ obs = [i \in {} |-> <<>>]
    /\ planned = {}
    /\ status = [p \in Probes |-> "none"]
    /\ command = Unset
    /\ ran = <<>>
    /\ at = 0
    /\ report = NoReport
    /\ failed = FALSE
    /\ stdout = "none"
    /\ exit = NotExited

-----------------------------------------------------------------------------
(* The world around the invocation.                                        *)

Cancel ==
    /\ exit = NotExited /\ ~ctx
    /\ ctx' = TRUE
    /\ UNCHANGED <<pc, opts, files, changes, live, data, result>>

(* Nothing reads the candidates before the lookup or after the commands.   *)
Replace(path) ==
    /\ pc \in {"lookup", "setup", "collect"}
    /\ opts.runtime = "podman"
    /\ changes < MaxChanges
    /\ changes' = changes + 1
    /\ \E f \in FileStates \ {files[path]} : files' = [files EXCEPT ![path] = f]
    /\ UNCHANGED <<pc, opts, ctx, live, data, result>>

-----------------------------------------------------------------------------
(* Execute: options, requirement document, reader.                         *)

(* failure: the message may not reach stderr. *)
Failure(code) == exit' \in {code, ExitExecution} /\ pc' = "exited"

ValidOptions(o) ==
    /\ o.requirement # Unset => o.runtime = "podman"
    /\ o.runtime = Unset => o.path = Unset

CheckOptions ==
    /\ pc = "start"
    /\ IF ~ValidOptions(opts) THEN Failure(ExitUsage)
       ELSE /\ pc' = IF opts.requirement # Unset THEN "requirement" ELSE "open"
            /\ exit' = exit
    /\ UNCHANGED <<opts, world, live, data, report, failed, stdout>>

ReadLiveRequirement ==
    /\ pc = "requirement"
    /\ \/ Failure(ExitExecution)             \* unreadable, or cancelled
       \/ ~ctx /\ Failure(ExitUsage)         \* malformed
       \/ ~ctx /\ pc' = "open" /\ exit' = exit
    /\ UNCHANGED <<opts, world, live, data, report, failed, stdout>>

OpenReader ==
    /\ pc = "open"
    /\ \/ Failure(ExitExecution) /\ reader' = reader
       \/ reader' = "open" /\ pc' = "identity" /\ exit' = exit
    /\ UNCHANGED <<opts, world, execution, looked, command, data, report, failed, stdout>>

-----------------------------------------------------------------------------
(* evaluateCurrentServices: identity, discovery, the probes to run.        *)

Retain(id, o) == obs' = [i \in DOMAIN obs \cup {id} |-> IF i = id THEN o ELSE obs[i]]

(* host.Probes, currentUserProbe, SubIDProbe and addPrerequisites *)
PlannedProbes ==
    HostProbes \cup ContextProbes \cup (IF opts.runtime = "podman" THEN Prerequisites ELSE {})

(* An execution identity may be known although its metadata is incomplete; *)
(* without one the identity observation is incomplete.                     *)
ObserveCurrent ==
    /\ pc = "identity"
    /\ \E known, complete \in BOOLEAN :
         /\ complete => known
         /\ execution' = known
         /\ Retain(Identity, [complete |-> complete, time |-> Bootstrap, path |-> Unset])
         /\ planned' = IF known THEN PlannedProbes ELSE {}
         /\ pc' = IF known /\ opts.runtime # Unset /\ ~ctx THEN "lookup" ELSE "collect"
    /\ at' = Bootstrap
    /\ UNCHANGED <<opts, world, reader, looked, command, status, ran, result>>

SearchList == IF opts.path # Unset THEN <<opts.path>> ELSE Candidates

Searched == Len(looked) = Len(SearchList)

(* An unreadable candidate taken for a missing one. *)
UncertainNever == FALSE

(* uncertain: some candidate could not be examined. *)
Uncertain == \E i \in DOMAIN looked : looked[i] = "denied"

DiscoveryRecord(path, installed, file, complete) ==
    [complete |-> complete, time |-> Discovering, path |-> path,
     installed |-> installed, file |-> file]

DiscoveryCancelled ==
    /\ pc = "lookup" /\ ~Searched /\ ctx
    /\ Retain(Discovery, DiscoveryRecord(opts.path, "unknown", "none", FALSE))
    /\ pc' = "setup"
    /\ UNCHANGED <<opts, world, live, planned, status, ran, at, result>>

(* A candidate that is missing or cannot be examined: on to the next. *)
LookupNext ==
    /\ pc = "lookup" /\ ~Searched /\ ~ctx
    /\ LET found == files[SearchList[Len(looked) + 1]]
       IN  found \in {"absent", "denied"} /\ looked' = Append(looked, found)
    /\ UNCHANGED <<pc, opts, world, reader, execution, command, data, result>>

(* The first candidate that exists is selected, whatever it is. *)
LookupSelect ==
    /\ pc = "lookup" /\ ~Searched /\ ~ctx
    /\ LET path == SearchList[Len(looked) + 1]
           found == files[path]
       IN  /\ found \notin {"absent", "denied"}
           /\ looked' = Append(looked, found)
           /\ Retain(Discovery,
                     CASE found = "irregular" -> DiscoveryRecord(path, "unknown", "irregular", FALSE)
                       [] found = "noexec" -> DiscoveryRecord(path, "yes", "noexec", ~Uncertain)
                       [] OTHER -> DiscoveryRecord(path, "yes", "exec", ~Uncertain))
    /\ pc' = "setup"
    /\ UNCHANGED <<opts, world, reader, execution, command, planned, status, ran, at, result>>

LookupExhausted ==
    /\ pc = "lookup" /\ Searched
    /\ Retain(Discovery, DiscoveryRecord(opts.path, IF Uncertain THEN "unknown" ELSE "no",
                                         "none", ~Uncertain))
    /\ pc' = "setup"
    /\ UNCHANGED <<opts, world, live, planned, status, ran, at, result>>

(* Commands prepared for whatever discovery found, asked for or not. *)
MayInspectPassively == obs[Discovery].file = "exec"

MayInspect == opts.active /\ obs[Discovery].file = "exec"

(* PrepareInspection, where home and runtime directories are usable. *)
PrepareInspection == ~ctx /\ obs[Discovery].path # Unset

(* activeProbes: without a live context, a captured environment and usable *)
(* directories there are no commands.                                      *)
Setup ==
    /\ pc = "setup"
    /\ \/ /\ MayInspect /\ PrepareInspection
          /\ command' = obs[Discovery].path
          /\ planned' = planned \cup {Version, Info}
       \/ UNCHANGED <<command, planned>>
    /\ pc' = "collect"
    /\ UNCHANGED <<opts, world, reader, execution, looked, obs, status, ran, at, result>>

-----------------------------------------------------------------------------
(* Evaluate: Orchestrator.Run, as module ProbeRun specifies it.            *)

(* The info probe left independent of the version probe. *)
NoDependencies(p) == {}

Dependencies(p) == IF p = Info THEN {Version} ELSE {}

Ready(p) ==
    /\ pc = "collect" /\ p \in planned /\ status[p] = "none"
    /\ \A d \in Dependencies(p) : status[d] = "Succeeded"

(* The dependents of a probe without success left waiting. *)
EndAlone(p, outcome) == status' = [status EXCEPT ![p] = outcome]

(* p is final; without success its dependents are skipped. *)
End(p, outcome) ==
    status' = [q \in Probes |->
                 IF q = p THEN outcome
                 ELSE IF /\ outcome # "Succeeded" /\ q \in planned
                         /\ status[q] = "none" /\ p \in Dependencies(q)
                 THEN "Skipped" ELSE status[q]]

Dispatch(p) ==
    /\ Ready(p) /\ ~ctx
    /\ status' = [status EXCEPT ![p] = "running"]
    /\ UNCHANGED <<pc, opts, world, live, obs, planned, ran, at, result>>

CancelQueued(p) ==
    /\ Ready(p) /\ ctx
    /\ End(p, "Cancelled")
    /\ UNCHANGED <<pc, opts, world, live, obs, planned, ran, at, result>>

Running(p) == pc = "collect" /\ status[p] = "running"

(* A probe that reads the host returns what it observed and, if it still   *)
(* looks, ctx.Err(), even when the observation is complete; an error of    *)
(* its own leaves the observation incomplete.                              *)
FinishReading(p) ==
    /\ Running(p) /\ p \notin {Version, Info}
    /\ \E complete \in BOOLEAN, outcome \in {"Succeeded", "Failed", "Cancelled"} :
         /\ outcome = "Cancelled" => ctx
         /\ outcome = "Failed" => ~complete
         /\ Retain(p, [complete |-> complete, time |-> Collecting, path |-> Unset])
         /\ End(p, outcome)
    /\ UNCHANGED <<pc, opts, world, live, planned, ran, at, result>>

(* versionFailure: the ways a command may end.  A file that cannot be      *)
(* executed fails to start; "uncertain" is a timeout, truncated, undrained *)
(* or unrecognizable output; a cancellation may come too late to matter.   *)
Outcomes == {o \in {"ok", "exitFailed", "startFailed", "uncertain", "cancelled"} :
                /\ files[command] \notin Builds => o \in {"startFailed", "cancelled"}
                /\ o = "cancelled" => ctx}

Unsuccessful(outcome) == IF outcome = "cancelled" THEN "Cancelled" ELSE "Failed"

Launch(p) == ran' = Append(ran, [probe |-> p, path |-> command, build |-> files[command]])

(* VersionProbe.Run *)
FinishVersion ==
    /\ Running(Version)
    /\ \E outcome \in Outcomes :
         /\ Retain(Version,
                   [complete |-> outcome \in {"ok", "exitFailed", "startFailed"},
                    time |-> Collecting, path |-> command,
                    runnable |-> CASE outcome = "ok" -> "yes"
                                   [] outcome \in {"exitFailed", "startFailed"} -> "no"
                                   [] OTHER -> "unknown",
                    version |-> IF outcome = "ok" THEN files[command] ELSE "unknown"])
         /\ End(Version, IF outcome = "ok" THEN "Succeeded" ELSE Unsuccessful(outcome))
    /\ Launch(Version)
    /\ UNCHANGED <<pc, opts, world, live, planned, at, result>>

(* InfoProbe.Run.  A successful document may lack requested fields, the    *)
(* version among them; one that is remote, unsafe or unrecognizable is     *)
(* part of "uncertain".                                                    *)
FinishInfo ==
    /\ Running(Info)
    /\ \E outcome \in Outcomes, full, versioned, netavark \in BOOLEAN :
         /\ full => versioned
         /\ outcome # "ok" => ~full /\ ~versioned /\ ~netavark
         /\ Retain(Info,
                   [complete |-> outcome \in {"ok", "exitFailed", "startFailed"},
                    time |-> Collecting, path |-> command,
                    available |-> CASE outcome = "ok" -> "yes"
                                    [] outcome \in {"exitFailed", "startFailed"} -> "no"
                                    [] OTHER -> "unknown",
                    full |-> full, netavark |-> netavark,
                    version |-> IF versioned THEN files[command] ELSE "unknown"])
         /\ End(Info, IF outcome = "ok" THEN "Succeeded" ELSE Unsuccessful(outcome))
    /\ Launch(Info)
    /\ UNCHANGED <<pc, opts, world, live, planned, at, result>>

Collected ==
    /\ pc = "collect"
    /\ \A p \in planned : status[p] \in Final
    /\ pc' = "select"
    /\ UNCHANGED <<opts, world, live, data, result>>

-----------------------------------------------------------------------------
(* Evaluate: what is collected after the probes.                           *)

(* validateRuntimeSelection: all observations name the same executable. *)
SelectionAgrees == Cardinality({obs[i].path : i \in DOMAIN obs} \ {Unset}) <= 1

SelectRuntime ==
    /\ pc = "select"
    /\ failed' = ~SelectionAgrees
    /\ pc' = IF SelectionAgrees THEN "helpers" ELSE "close"
    /\ UNCHANGED <<opts, world, live, data, report, stdout, exit>>

Observed(id) == id \in DOMAIN obs

(* ObserveHelper *)
HelperRecord(complete) ==
    [complete |-> complete, time |-> Afterwards, path |-> obs[Info].path]

(* collectHelpers: the network helper of a successful info document. *)
CollectHelpers ==
    /\ pc = "helpers"
    /\ IF Observed(Info) /\ obs[Info].available = "yes" /\ obs[Info].netavark
       THEN \E complete \in BOOLEAN :
              /\ ctx => ~complete
              /\ Retain(Helper, HelperRecord(complete))
       ELSE obs' = obs
    /\ pc' = "configuration"
    /\ UNCHANGED <<opts, world, live, planned, status, ran, at, result>>

(* The path of the options instead of the one discovered. *)
DiscoveredPathDefault == SearchList[1]

(* p.Path of collectConfiguration: the path of the discovery observation. *)
DiscoveredPath == IF Observed(Discovery) THEN obs[Discovery].path ELSE Unset

(* EngineProbe.profile: a recognized version of that executable. *)
Qualified ==
    /\ Observed(Version) /\ obs[Version].path = DiscoveredPath
    /\ obs[Version].runnable = "yes" /\ obs[Version].complete

(* collectConfiguration: the sources are qualified by the version observed *)
(* of the discovered executable, and are candidates only without one.      *)
CollectConfiguration ==
    /\ pc = "configuration"
    /\ IF opts.runtime = "podman" /\ execution
       THEN \E complete \in BOOLEAN :
              /\ complete => Qualified /\ ~ctx
              /\ Retain(Configuration, [complete |-> complete, time |-> Afterwards,
                                        path |-> DiscoveredPath])
       ELSE obs' = obs
    /\ pc' = "project"
    /\ UNCHANGED <<opts, world, live, planned, status, ran, at, result>>

-----------------------------------------------------------------------------
(* Evidence and verdict.                                                   *)

Evidence(state, precedence, o) ==
    [state |-> state, precedence |-> precedence, complete |-> o.complete, time |-> o.time]

(* podmanCLIEvidence: presence of the file is no claim. *)
PodmanCLIEvidence ==
    {Evidence("unsupported", 1, obs[d]) : d \in {i \in {Discovery} : Observed(i) /\ obs[i].installed = "no"}}
    \cup
    {Evidence("unavailable", 1, obs[d]) : d \in {i \in {Discovery} :
        Observed(i) /\ obs[i].file \in {"irregular", "noexec"}}}
    \cup
    {Evidence(IF obs[v].runnable = "no" THEN "unavailable"
              ELSE IF obs[v].version # "unknown" THEN "supported"
              ELSE "unknown", 2, obs[v]) : v \in {i \in {Version} : Observed(i)}}

(* versionsConflict and sameVersion: both sides known and different. *)
VersionsAgree ==
    Observed(Info) /\ Observed(Version) /\ obs[Info].version # "unknown"
      /\ obs[Version].version # "unknown"
        => obs[Info].version = obs[Version].version

(* Info believed whatever the version command said. *)
PodmanInfoEvidenceAlone ==
    {Evidence(IF obs[i].available = "no" THEN "unavailable"
              ELSE IF obs[i].full THEN "supported"
              ELSE "unknown", 2, obs[i]) : i \in {j \in {Info} : Observed(j)}}

(* podmanInfoEvidence and infoState *)
PodmanInfoEvidence ==
    {Evidence(IF obs[i].available = "no" THEN "unavailable"
              ELSE IF obs[i].full /\ VersionsAgree THEN "supported"
              ELSE "unknown", 2, obs[i]) : i \in {j \in {Info} : Observed(j)}}

(* Resolve: of the usable evidence, the states at the best precedence.     *)
Resolve(evidence, now) ==
    LET usable == {e \in evidence : e.complete /\ e.time <= now}
        states == {e.state : e \in {b \in usable :
                                      \A u \in usable : b.precedence <= u.precedence}}
    IN  IF Cardinality(states) = 1 THEN CHOOSE s \in states : TRUE ELSE "unknown"

(* predicate *)
Predicate(state) ==
    CASE state = "supported" -> "SATISFIED"
      [] state \in {"unsupported", "misconfigured"} -> "UNSATISFIED"
      [] OTHER -> "INDETERMINATE"

(* applyLiveRequirement: a document replaces the default of the mode. *)
Required ==
    IF opts.requirement = "cli" \/ (opts.requirement = Unset /\ ~opts.active)
    THEN {PodmanCLIEvidence} ELSE {PodmanCLIEvidence, PodmanInfoEvidence}

(* requirement.Evaluate for the conjunction of the required predicates. *)
Decision(now) ==
    LET outcomes == {Predicate(Resolve(e, now)) : e \in Required}
    IN  IF "UNSATISFIED" \in outcomes THEN "UNSATISFIED"
        ELSE IF outcomes = {"SATISFIED"} THEN "SATISFIED"
        ELSE "INDETERMINATE"

ExitCode(state) ==
    CASE state = "SATISFIED" -> ExitSatisfied
      [] state = "UNSATISFIED" -> ExitUnsatisfied
      [] OTHER -> ExitIndeterminate

-----------------------------------------------------------------------------
(* The report.                                                             *)

Completeness(ids) ==
    IF ids = {} THEN "unobserved"
    ELSE IF \A i \in ids : obs[i].complete THEN "complete" ELSE "partial"

Unfinished(probes) == \E p \in probes \cap planned : status[p] # "Succeeded"

(* projectHost, and projectReport's correction for probes without success. *)
HostCompleteness ==
    IF Unfinished(HostProbes) THEN "partial" ELSE Completeness(HostProbes \cap DOMAIN obs)

(* Only what was observed counts. *)
ContextCompletenessObserved == Completeness((ContextProbes \cup {Identity}) \cap DOMAIN obs)

ContextCompleteness ==
    IF Unfinished(ContextProbes) THEN "partial"
    ELSE Completeness((ContextProbes \cup {Identity}) \cap DOMAIN obs)

(* The disagreement left out. *)
RuntimeCompletenessObserved == Completeness({Discovery, Version, Info} \cap DOMAIN obs)

(* projectRuntime *)
RuntimeCompleteness ==
    IF ~VersionsAgree THEN "partial"
    ELSE Completeness({Discovery, Version, Info} \cap DOMAIN obs)

HostExit ==
    IF HostCompleteness = "complete" /\ ContextCompleteness = "complete"
    THEN ExitSatisfied ELSE ExitIndeterminate

(* The time of the first reading kept. *)
EvaluationTimeKept == at

(* input.At = input.Now(): what was collected meanwhile is not in the future. *)
EvaluationTime == Projecting

ProjectReport(now) ==
    [host |-> HostCompleteness, context |-> ContextCompleteness,
     runtime |-> IF opts.runtime = Unset THEN "none" ELSE RuntimeCompleteness,
     exit |-> IF opts.runtime = Unset THEN HostExit ELSE ExitCode(Decision(now))]

Project ==
    /\ pc = "project"
    /\ failed' = ~SelectionAgrees
    /\ IF SelectionAgrees
       THEN at' = EvaluationTime /\ report' = ProjectReport(EvaluationTime)
       ELSE UNCHANGED <<at, report>>
    /\ pc' = "close"
    /\ UNCHANGED <<opts, world, live, obs, planned, status, ran, stdout, exit>>

(* The error of Close dropped. *)
CloseReaderCarelessly ==
    /\ pc = "close"
    /\ \E closed \in {"closed", "closeFailed"} :
         /\ reader' = closed
         /\ IF failed THEN Failure(ExitExecution)
            ELSE pc' = "write" /\ exit' = exit
    /\ UNCHANGED <<opts, world, execution, looked, command, data, report, failed, stdout>>

(* evaluateLive: the reader is closed whatever Evaluate returned, and an   *)
(* error of either voids the report.                                       *)
CloseReader ==
    /\ pc = "close"
    /\ \E closed \in {"closed", "closeFailed"} :
         /\ reader' = closed
         /\ IF failed \/ closed = "closeFailed" THEN Failure(ExitExecution)
            ELSE pc' = "write" /\ exit' = exit
    /\ UNCHANGED <<opts, world, execution, looked, command, data, report, failed, stdout>>

(* writeReport: encoding, the diagnostics and explanation on stderr, and   *)
(* last the report on stdout; each may fail.                               *)
WriteReport ==
    /\ pc = "write"
    /\ \/ Failure(ExitExecution) /\ stdout' \in {"none", "partial"}
       \/ stdout' = "report" /\ exit' = report.exit /\ pc' = "exited"
    /\ UNCHANGED <<opts, world, live, data, report, failed>>

-----------------------------------------------------------------------------

Invocation ==
    \/ CheckOptions \/ ReadLiveRequirement \/ OpenReader \/ ObserveCurrent
    \/ DiscoveryCancelled \/ LookupNext \/ LookupSelect \/ LookupExhausted \/ Setup
    \/ \E p \in Probes : Dispatch(p) \/ CancelQueued(p) \/ FinishReading(p)
    \/ FinishVersion \/ FinishInfo \/ Collected
    \/ SelectRuntime \/ CollectHelpers \/ CollectConfiguration \/ Project
    \/ CloseReader \/ WriteReport

Next == Invocation \/ Cancel \/ \E path \in Paths : Replace(path)

Spec == Init /\ [][Next]_vars

(* Every step of the invocation ends: file reads are bounded, commands     *)
(* have deadlines, and probes honour the context.                          *)
FairSpec == Spec /\ WF_vars(Invocation)

-----------------------------------------------------------------------------
(* Properties.                                                             *)

Launched(p) == {ran[i] : i \in {j \in DOMAIN ran : ran[j].probe = p}}

TypeOK ==
    /\ pc \in {"start", "requirement", "open", "identity", "lookup", "setup", "collect",
               "select", "helpers", "configuration", "project", "close", "write", "exited"}
    /\ opts \in Options
    /\ ctx \in BOOLEAN
    /\ files \in [Paths -> FileStates]
    /\ changes \in 0..MaxChanges
    /\ reader \in {"none", "open", "closed", "closeFailed"}
    /\ execution \in BOOLEAN
    /\ looked \in Seq(FileStates)
    /\ DOMAIN obs \subseteq Probes \cup {Identity, Discovery, Helper, Configuration}
    /\ planned \subseteq Probes
    /\ status \in [Probes -> Final \cup {"none", "running"}]
    /\ command \in Paths \cup {Unset}
    /\ ran \in Seq([probe : {Version, Info}, path : Paths, build : FileStates])
    /\ at \in 0..Projecting
    /\ failed \in BOOLEAN
    /\ stdout \in {"none", "partial", "report"}
    /\ exit \in Verdicts \cup {ExitUsage, ExitExecution, NotExited}

(* Passive collection never launches Podman.  A launch, when it happens,   *)
(* was asked for with --active, by a process whose execution identity is   *)
(* known, and is of the path where discovery saw a regular executable      *)
(* file, even if the file has been replaced since (live.go:118-133).  Each *)
(* command is launched at most once, and podman info only after the        *)
(* version command succeeded: every failed or incomplete version           *)
(* collection prevents it (docs/podman-discovery.md:72).                   *)
LaunchesAreAuthorized ==
    /\ Len(ran) <= 2
    /\ \A i \in DOMAIN ran :
         /\ opts.active /\ opts.runtime = "podman" /\ execution
         /\ obs[Discovery].file = "exec"
         /\ ran[i].path = obs[Discovery].path
         /\ opts.path # Unset => ran[i].path = opts.path
         /\ ran[i].probe = Info =>
              /\ i = 2 /\ ran[1].probe = Version /\ ran[1].build \in Builds
              /\ status[Version] = "Succeeded"

(* A runtime report is SATISFIED only if podman --version succeeded in     *)
(* this very invocation and, where the requirement includes inspection, so *)
(* did podman info, and both ran the same build: an upgrade between the    *)
(* two commands cannot pass.  Conversely, when both commands returned      *)
(* complete documents of one build, a delivered report is SATISFIED,       *)
(* however long collection took.                                           *)
SatisfiedIffInspected ==
    opts.runtime = "podman" =>
        /\ exit = ExitSatisfied =>
             /\ opts.active
             /\ \E v \in Launched(Version) :
                  /\ v.build \in Builds
                  /\ opts.requirement # "cli" =>
                       \E i \in Launched(Info) : i.build = v.build /\ i.path = v.path
        /\ /\ stdout = "report"
           /\ status[Version] = "Succeeded" /\ status[Info] = "Succeeded"
           /\ obs[Info].full /\ obs[Info].version = obs[Version].version
           => exit = ExitSatisfied

(* UNSATISFIED is reserved for a complete search that found nothing: every *)
(* candidate was examined, every one was missing, and nothing was run.  A  *)
(* command that fails, a cancellation and an unreadable candidate leave    *)
(* the verdict open (docs/podman-discovery.md:37 and 76).                  *)
UnsatisfiedMeansAbsent ==
    exit = ExitUnsatisfied =>
        /\ looked = [i \in DOMAIN SearchList |-> "absent"]
        /\ ran = <<>>

(* A replacement of the executable between the two commands shows in the   *)
(* report: its runtime section is not complete.                            *)
UpgradeIsVisible ==
    report.runtime = "complete" =>
        \A v \in Launched(Version), i \in Launched(Info) :
            obs[Info].version # "unknown" => i.build = v.build

(* What the verdict and the report's runtime section rest on is one build, *)
(* inspected in this invocation.                                           *)
InspectionIsOfOneBuild == SatisfiedIffInspected /\ UpgradeIsVisible

(* Exit 0 of a host-only run: the identity is complete and every host and  *)
(* context probe was planned, ran to success and left a complete           *)
(* observation.  A probe cancelled before its start, or after it had       *)
(* observed everything, counts against it (docs/execution-context.md:17).  *)
HostSuccessIsComplete ==
    exit = ExitSatisfied /\ opts.runtime = Unset =>
        /\ obs[Identity].complete
        /\ \A p \in HostProbes \cup ContextProbes :
             p \in planned /\ status[p] = "Succeeded" /\ obs[p].complete

(* Exit 0, 1 or 2 means that the whole report is on stdout and the reader  *)
(* was released without error; any other code means that the caller has no *)
(* whole report; a usage error precedes every observation; and no path out *)
(* leaves the reader open.  Nor does the program void a report itself:     *)
(* discovery, commands, helpers and configuration of a live run all name   *)
(* one executable, so validateRuntimeSelection never rejects them.         *)
ExitMatchesDelivery ==
    /\ TypeOK
    /\ exit # NotExited =>
         /\ exit \in Verdicts <=> stdout = "report"
         /\ exit \in Verdicts => reader = "closed"
         /\ exit = ExitUsage => obs = [i \in {} |-> <<>>] /\ reader = "none"
         /\ reader # "open"
    /\ ~failed

(* Every invocation ends with an exit code, whenever the context ends and  *)
(* whatever the commands do.                                               *)
Exits == <>(exit # NotExited)

-----------------------------------------------------------------------------
(* Why the properties hold: the inductive invariant of AssessmentProofs.   *)

NothingObserved == [i \in {} |-> <<>>]
Starting == {"start", "requirement", "open"}
Delivering == {"close", "write", "exited"}

(* The reader is open from OpenReader to CloseReader, and nothing is       *)
(* observed before it; an exit code comes with the last step only.         *)
StageInv ==
    /\ pc \in Starting => reader = "none"
    /\ pc \in Starting \cup {"identity"} => obs = NothingObserved /\ ~execution /\ looked = <<>>
    /\ pc \notin Starting \cup {"write", "exited"} => reader = "open"
    /\ pc = "write" => reader = "closed"
    /\ pc = "exited" => reader # "open"
    /\ exit = NotExited <=> pc # "exited"
    /\ stdout # "none" => pc = "exited"
    /\ exit \in Verdicts <=> stdout = "report"
    /\ stdout = "report" => reader = "closed" /\ report # NoReport /\ exit = report.exit
    /\ exit = ExitUsage => reader = "none" /\ obs = NothingObserved

(* What every observation has, and the one executable all of them name.    *)
ObservationInv ==
    /\ \A i \in DOMAIN obs :
         /\ obs[i].complete \in BOOLEAN
         /\ obs[i].time \in Bootstrap..Afterwards
         /\ obs[i].path \in Paths \cup {Unset}
         /\ obs[i].path # Unset => Observed(Discovery) /\ obs[i].path = obs[Discovery].path
    /\ pc \notin Starting \cup {"identity", "exited"} => Observed(Identity)
    /\ Observed(Identity) /\ obs[Identity].complete => execution
    /\ execution => HostProbes \cup ContextProbes \subseteq planned
    /\ \A p \in Probes : status[p] = "Succeeded" => Observed(p)

(* What the search for an executable found, and where it looked.           *)
DiscoveryInv ==
    /\ pc \in {"lookup", "setup"} => opts.runtime = "podman" /\ execution
    /\ pc = "lookup" =>
         /\ Len(looked) <= Len(SearchList)
         /\ \A i \in DOMAIN looked : looked[i] \in {"absent", "denied"}
    /\ pc = "setup" => Observed(Discovery)
    /\ pc = "lookup" => ~Observed(Discovery)
    /\ Observed(Discovery) =>
         /\ opts.runtime = "podman" /\ execution
         /\ opts.path # Unset => obs[Discovery].path = opts.path
         /\ obs[Discovery].file = "exec" => obs[Discovery].path # Unset
         /\ obs[Discovery].installed = "no" =>
              obs[Discovery].file = "none" /\ looked = [i \in DOMAIN SearchList |-> "absent"]

(* Commands are prepared for an inspection that was asked for, of the      *)
(* executable discovery saw; only planned probes have a status.            *)
CommandInv ==
    /\ pc \in Starting \cup {"identity", "lookup", "setup"} =>
         command = Unset /\ \A p \in Probes : status[p] = "none"
    /\ \A p \in Probes : status[p] # "none" => p \in planned
    /\ {Version, Info} \cap planned # {} => command # Unset
    /\ pc \in Delivering \cup {"select", "helpers", "configuration", "project"} =>
         \A p \in Probes : status[p] # "running"
    /\ command # Unset =>
         /\ opts.active /\ Observed(Discovery)
         /\ obs[Discovery].file = "exec" /\ command = obs[Discovery].path

(* The launches so far against the status of the probes and what they      *)
(* observed: what is claimed of a build was measured on that build.        *)
LaunchInv ==
    /\ Len(ran) <= 2
    /\ Observed(Version) <=> Len(ran) >= 1
    /\ Observed(Info) <=> Len(ran) = 2
    /\ \A i \in DOMAIN ran : ran[i].path = command /\ ran[i].probe = IF i = 1 THEN Version ELSE Info
    /\ Len(ran) >= 1 => Version \in planned /\ status[Version] \notin {"none", "running"}
    /\ Len(ran) = 2 => status[Info] \notin {"none", "running"} /\ status[Version] = "Succeeded"
    /\ status[Info] = "running" => status[Version] = "Succeeded"
    /\ status[Version] = "Succeeded" =>
         /\ ran[1].build \in Builds /\ obs[Version].version = ran[1].build
         /\ obs[Version].runnable = "yes" /\ obs[Version].complete
    /\ Observed(Version) /\ obs[Version].version # "unknown" => status[Version] = "Succeeded"
    /\ Observed(Info) =>
         /\ obs[Info].full => obs[Info].version # "unknown"
         /\ obs[Info].version # "unknown" =>
              /\ obs[Info].available = "yes" /\ obs[Info].complete
              /\ ran[2].build \in Builds /\ obs[Info].version = ran[2].build

(* A report is the projection of observations that no longer change.       *)
ReportInv ==
    /\ pc \in {"close", "write"} => report # NoReport
    /\ report # NoReport =>
         pc \in Delivering /\ Observed(Identity) /\ report = ProjectReport(Projecting)
    /\ ~failed

AssessmentInv ==
    TypeOK /\ StageInv /\ ObservationInv /\ DiscoveryInv /\ CommandInv /\ LaunchInv /\ ReportInv
=============================================================================
