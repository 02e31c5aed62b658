# capagent in TLA+

capagent decides whether a Linux host can run what a container deployment needs.
This directory models the parts of it where that decision can go wrong in ways a
test would hardly reach, checks them with TLC and proves the central ones with
TLAPS. Paths below are relative to the repository (`src/`).

## The system

A run goes through one pipeline:

    facts -> observations (probes) -> evidence (evaluators) -> capabilities (resolver)
          -> requirement verdict -> exit code

| Component | State it keeps | Operations | Talks to |
|---|---|---|---|
| probe registry (`internal/probe/registry.go`) | registered probes, sealed plan or error | `Register`, `Resolve`, `execution` | read by every `NewOrchestrator` |
| orchestrator (`internal/probe/orchestrator.go`) | per-probe state, run queue, atomic counter, `allDone` | `Run`: `processProbe`, `recordFinal`, `cascadeSkipLocked`, `signalCompletion` | probes through `Probe.Run`, the caller through its context |
| command runner (`internal/platform/runner.go`) | one subprocess, a forwarding goroutine, a timer, two output buffers | `run` | probes; the target worker |
| readers (`internal/platform/*reader*.go`, `bounded_io.go`, ...) | one directory descriptor, an atomic number | nine file methods and `Close`; bounded reads, directory capture, access and file-system queries below a root | probes |
| target delegation (`internal/app/target.go`, `internal/platform/target.go`) | launcher and worker process | request, privilege drop, verification, reply | runner, application |
| host and podman probes (`internal/host`, `internal/runtime/podman`) | none | one `Run` each | readers and runner, through `platform.Environment` |
| configuration parsers (`internal/config`) | none | projection and layered merge of engine, storage and network files | configuration probes |
| configuration probes (`internal/runtime/podman/engine.go`, `storage*.go`, `configured_helpers.go`, ...) | sources, bytes read, the merged configuration so far | `Collect` of `containers.conf`, the storage selection, one probe per helper and per group of stores | readers, evaluators |
| capability registry and resolver (`internal/capability`) | ordered definitions; evidence and resolutions of one evaluation | `NewRegistry`, `Evaluate`, `Resolve`, `ValidateDataset` | evaluators |
| requirement (`internal/requirement`) | none | `Validate`, `Evaluate` | reads candidates |
| application (`internal/app/app.go`, `live.go`) | options, deadlines, report | `Evaluate`, `Execute`, exit code | all of the above |
| fixtures, output, tooling | none | replay, formatting, packaging | application |

What is hard in it:

* **Concurrency.** The orchestrator's workers share a queue, a mutex, a counter and
  a channel; the runner has five parties (caller, forwarder, timer callback,
  os/exec's watcher, the child with its descendants) that end in any order.
* **Cancellation and time.** A context may end between any two steps; a timeout
  races the exit it provokes and the flag that reports it.
* **Completeness.** Missing evidence must never turn into a definite verdict: not
  through a truncated output, a conflicting or stale claim, an unmet prerequisite,
  or a negation.
* **A moving host.** A package manager may replace the Podman executable between the
  lookup, the version command and the info command of one invocation; a file may be
  replaced, grow or shrink between its check and its last read, and a configuration
  is read in dozens of calls.
* **Descriptors.** The reader's directory descriptor is a number the process reuses
  as soon as one of two racing `Close` calls has given it back.
* **Layers.** What one configuration file means depends on all that came before it:
  appended and reset lists, marks by index, a file that replaces instead of merging.
* **Immutability.** The first `Resolve` of the probe registry decides for ever,
  whoever calls it.

`PROJECT.json` lists each such hazard at its line with the properties that cover it.

## Modules

| Module | Models |
|---|---|
| `ProbeRun` | abstract specification of one `Orchestrator.Run`: the life cycle of each probe, nothing of the implementation |
| `Orchestrator` | the worker pool of `orchestrator.go` |
| `ProbeRegistry` | `registry.go` and `NewOrchestrator` |
| `ProbeProofs` | the theorems of both, and that `Orchestrator` implements `ProbeRun` |
| `CommandRunner` | `OSCommandRunner.run`, `boundedBuffer`, `CommandCompleted` |
| `CommandRunnerProofs` | its theorems |
| `Capability` | `NewRegistry`, `Registry.Evaluate`, `ValidateDataset`, `Resolve`, and the requirement's `predicate` |
| `Requirement` | `Validate`, `Evaluate` and the three-valued operators |
| `TargetDelegation` | launcher and target worker: `prepareLiveIdentity`, `RunTarget`, `bootstrapTarget`, `verifyTarget`, `executeTargetWorker`, `evaluateTarget` |
| `TargetDelegationProofs` | its theorems |
| `Decision` | `Capability` and `Requirement` put together as `app.Evaluate` does |
| `DecisionProofs` | the theorems of all three |
| `Assessment` | one live invocation from options to exit code: `Execute`, `evaluateLive`, `Evaluate`, Podman's discovery, version and info, their evidence, the verdict and the report |
| `AssessmentProofs` | its theorems |
| `MemoryPath` | `ValidateSubpath`, the component walk of `memory_path.go` and the kernel's walk for `openat2` |
| `ScopedReader` | `ScopedOSReader` with `bounded_io.go` and `directory.go`, two racing `Close` calls, the descriptor table; `ScopedMemReader` over `MemoryPath` |
| `ScopedReaderProofs` | its theorems |
| `HostFiles` | the host as the configuration probes see it: one call of `ScopedView` at a time |
| `ConfigLayers` | the projections and the merge of `internal/config` |
| `EngineSources` | `EngineProbe.Collect`: which `containers.conf` files are read, and their two projections |
| `StorageSources` | `StorageProbe`: which `storage.conf` decides |
| `ConfiguredFiles` | the helper probes and the store path probes |
| `ConfigurationEvidence` | the evaluators of all these observations |
| `Configuration` | `collectConfiguration` and `collectStorage` on a host that may change, and what a report should have said |
| `ConfigurationProofs` | the theorems about the configurations a report holds |
| `Induction` | lemmas for loops: induction over the naturals and over ranks, repeated steps, recursive definitions |
| `MC*` | the instances TLC checks |

Each specification also holds, beside the definitions they alter, the mutated forms
`PROJECT.json` uses (`ReleaseOnce`, `NoBroadcast`, ...): what a plausible bug would
look like. `Next` does not use them. TLC finds the named property violated when one
of them replaces the real definition.

Which module builds on which:

    ProbeRun <- Orchestrator              Capability, Requirement <- Decision
    MemoryPath <- ScopedReader            ConfigLayers, HostFiles <- EngineSources
    EngineSources <- StorageSources <- ConfiguredFiles <- ConfigurationEvidence <- Configuration

### ProbeRun and Orchestrator

A probe is its registration index. `status`, `remaining`, `queue`, `closed`, `count`
and `allDone` are `probeState`, `runQueue` and `schedulerContext`; `pc`, `cur`, `err`,
`outcome`, `cascade` and `runnable` are the locals of a worker inside `processProbe`
and `recordFinal`. One action is one critical section (`Check`, `RecordSuccess`,
`RecordOther`), one atomic addition (`CountSkipped`, `SignalCompletion`), one queue
operation (`Pop`, `Park`, `Exit`, `Push`, `CloseQueue`) or one read of the context
(`CancelBeforeRun`, `Start`, `Classify`), so another worker may come between any two of
them. `cascadeSkipLocked` runs wholly under the mutex; its depth-first search is the
least closed set it computes (`CascadeSkip`). A repeated dependency keeps its
multiplicity, as in the compiled plan. Error values are the set of errors
`errors.Is` matches, so that a probe's own timeout is indistinguishable from the
caller's, as in the code. Observations, durations and messages are left out.

`Orchestrator` implements `ProbeRun` under the mapping `lifeCycle`: a probe is
running from the start of `Probe.Run` until its outcome is recorded.

### ProbeRegistry

Each method is one critical section of `Registry.mu` and so one action;
`NewOrchestrator` takes two (`BuilderResolve`, `FetchExecution`), with anything in
between. Probes may change what `Dependencies` returns at any time (`Redeclare`);
`captured` remembers what `Resolve` saw. `RejectRegister` stands for every refusal. The
loops of `Resolve` are recursive functions on the number of turns: `KahnTopoSort` emits the
ready probe registered first, turn by turn, `Downstream` builds one node's list of dependents,
and `Validate` stops at the first complaint.

### CommandRunner

The runner's goroutines are modelled step by step; os/exec (`Start*`, `Reap`,
`Collect`, `Drained`, `DrainExpires`, `WatchExpire`) and the processes are external, modelled from
how the runner uses them. Standard output stands for both streams. `worker` selects
the SIGTERM path of the target worker. Time is only the order of expiries. The
spec's validation is one choice between valid and not.

### Capability

One turn of `Evaluate`'s loop is one action (`Gate`, `Abort`, `ResolveClaim`). The
evidence given in the dataset and what an evaluator returns are choices, including
evidence for another claim, another scope or with an ID already taken. IDs are
numbers; timestamps are compared with the constant `At`. Contexts, observations,
facts and size limits of the dataset are not modelled. `Topological` and `Resolve` are the
code's loops, over the definitions and over the usable evidence in the order of IDs; the
properties compare them with sets (`Prerequisites`, the least set closed
under dependencies; `Best`, the strongest usable evidence).

### Requirement

A document is a table of nodes, so sharing and cycles exist as they do with
pointers; `0` is a nil pointer. A candidate is the value of its predicates or invalid.
`PathsAreValid` follows `validateNode` down every path with the nodes above it (`active`), `AllOf`
and `AnyOf` are the left folds of `logic.go`, and `EvaluateNode` is a recursive function on
`Tree`, the nodes the walk reaches from the root. The reference `Holds` gives the same tree its
two-valued meaning.

### TargetDelegation

Two processes. The launcher reads the requirement, observes itself, resolves the
target, and collects itself or delegates (`ReadRequirement`, `Prepare`, `Collect`,
`RunTarget`, `Await`). The worker installs its signal handler, closes the pinned
executable, decodes the request, makes the three credential calls of `dropOrder`,
verifies the result, evaluates and answers. `proc` holds the kernel's view of it: the
set of real, effective and saved IDs, groups and the capability sets that are not
empty. `Permitted` and `Called` are the kernel's rules for the three calls, external:
leaving UID 0 clears the permitted and effective sets but not the inheritable one,
and nothing under `SECBIT_NO_SETUID_FIXUP`. The runner between the processes is `CommandRunner`
reduced to `Timeout`, `Terminate`, `Kill` and the rule that an interrupted run returns
an error. Whatever may fail outside the program is a fault, recorded in `faulted`.
Run ID and context ID are the same on both sides by construction and are left out,
as is the JSON text; a message that does not decode is a fault.

### Assessment

The composition: what the components above promise, put together as
`internal/app` does. `pc` walks through `Execute`; `obs`, `planned` and `status` are the
dataset's observations, the registered probes and their results; `files` is what the
candidates of the search list are on disk at the moment, which `Replace` changes between
any two steps that look at them, and `ctx` is ended by `Cancel` at any moment. The probes
of one run end as `ProbeRun` allows: any order, cancellation of what has not started,
skipping of what depends on a probe without success. A probe that reads the host
is its completeness and its error; the two Podman commands are modelled by the ways
`versionFailure` and the info probe distinguish (`Outcomes`), and `ran` records what
was launched. `PodmanCLIEvidence`, `PodmanInfoEvidence`, `Resolve` and `Decision` are the
evaluators, the resolver and the requirement specialised to the two Podman capabilities a
live run decides on; the general resolver and evaluator are `Capability` and `Requirement`. The wall
clock is the number of the stage at which it is read, because only the order of
`ObservedAt` and `At` matters to a verdict.

Left out: flag parsing, fixtures, contexts that need a worker (`TargetDelegation`),
what a configuration says (`Configuration`; here each file is one probe), and
the schema validation of a live dataset and report, which is taken to accept what
the program itself builds (`SelectionAgrees` is the one check that relates several
observations, and is modelled).

### Decision

`Assessed` starts with a catalog and a dataset, runs `Capability`'s evaluation to its end
and then asks a document over the resolved capabilities (`Ask`, `Answer`); `Called` is
`requirement.Evaluate` alone, on any document and any list of candidates.

### ScopedReader and MemoryPath

`rootfd` is the reader's atomic number, `table` the process's descriptor table (whose a
number is, and for what), `op` one call per caller with the locals of `readSubpath`,
`checkedRegular`, `readBounded` and `captureDirectory`, `closer` the two steps of `Close`'s
compare-and-swap loop. One action is one system call or one atomic access. The kernel
returns the lowest free number, and other code of the process opens and closes
descriptors of its own, so a number closed twice or used too late belongs to someone
else. A file is its length, a directory its set of names; `at` is the inode the path names,
and `Change` replaces the file, changes its length, or adds or removes a name between
any two calls. The ghosts `seen`, `sizes`, `always` and `ever` of a call remember what was on
disk while it ran.

Calls of methods overlap each other and Closes overlap each other, but no Close
overlaps a method: `scoped_reader.go` line 70 makes that the caller's duty. Without
it the reader promises nothing, and the model would only show that.

In `mode = "memory"` a method is one step, since it holds the read lock: the walk of
`memoryWalk.resolve` as a bounded iteration of `WalkStep`, next to `KernelStep`, which is what
`openat2` does with `RESOLVE_IN_ROOT`. The two differ where the code says they
do: an escape is an error in memory, and stays at the root in the kernel; an absolute
target is relative to the whole tree in memory, and to the root in the kernel.

### The configuration family

A document maps fields to kinds of values: an acceptable text, one the field does not
recognise (`?`), one it recognises but does not interpret (`~`), a list with or without the
append attribute, another type. `Parse` is the first problem a parser reports,
`Layer` what it keeps, `MergeEngine`, `MergeNetwork` and `ProjectStorage` the merges with origins and
marks by index. Of fields treated alike one stands for all.

`EngineSources` reads `containers.conf`: `agenda` is the rest of the plan with the calls of the
current element expanded, so that each `Stat`, `Readlink`, `ReadFile` and `ReadDir` is a step, and
so is each look at the context. `engine` and `network` are the two observations under
construction; both project the same bytes. The two qualified Podman profiles (`493`,
`584`) differ in the plan, in the links they follow and in fields. `StorageSources` walks
`selectStorage`: `exists` for the system's and the user's file, the baseline, the override,
the expansion of roots. `ConfiguredFiles` runs the probes that `networkHelperPaths`,
`ConfiguredHelperProbe.paths` and the storage projection call for, a candidate at a time with
`Stat` and `ExecutableAccess` apart. `ConfigurationEvidence` holds the evaluators, which derive
the expected paths once more and compare.

`Configuration` strings these together in the order of `collectConfiguration`. Once per
behaviour the host changes or the context ends, between any two calls. `before` and
`host` are the host on either side, and the properties ask of each verdict whether it
is true of one of them: `Truth`, `HelperTruth` and `StoreTruth` say what Podman would be told
by a host that stood still, from sets of layers and without a merge.

## Runs

| Run | Instance | Shows |
|---|---|---|
| `orchestrator_safety` | 4 probes, 3 workers: two diamonds, shared dependents, a chain with a side branch, repeated declarations | `RunsAfterDependencies`, `SkippedIffDependencyDidNotSucceed`, `ReadyProbeIsInOnePlace`, `AllDoneMeansFinal`, `TypeOK` |
| `orchestrator_live` | 3 probes, 2 workers, 4 plans | `Terminates`, `ImplementsProbeRun` |
| `orchestrator_order` | the same plans | violation of `ResultsInDagOrder` (below) |
| `probe_registry` | 3 IDs, 6 declarations (repeated, self, unknown), 2 builders, 1 redeclaration | `ResolveIsExact` (the plan is canonical, and exactly the bad graphs are rejected), `BuiltPlansAgree`, `SealedForever` |
| `command_runner` | a buffer of 5 units, up to 3 writes of 1, 2 or 4 | `NothingLeftBehind`, `ResultIsSound` (a result names its cause, and completed means complete), `OutputIsBounded`, `AlwaysReturns` |
| `decision` | 3 definitions, all graphs over 8 dependency lists, 14 given datasets, 5 to 9 evaluator results each, then a document; and all tables of 3 nodes over 13 forms with up to 3 candidates over 2 capabilities | `OrderIsSound`, `PrerequisitesGate`, `ResolutionFollowsStrongest`, `EvidenceDecides`, `DefiniteVerdictIsFinal` |
| `target_delegation` | 5 launchers (root with two sets of groups, root with unknown groups, differing real UID, ordinary user), 4 accounts, 2 namespaces, a file with 2 contents | `CollectsOnlyAsTarget`, `ReportIsTheTargets`, `RequirementIsTheCallers`, `DelegationDoesNotFailByItself`, `CommandsAreJoined`, `DelegationEnds` |
| `assessment_podman` | runtime runs: 2 candidates in 6 states, 2 builds, 1 replacement, 1 prerequisite probe | `LaunchesAreAuthorized`, `InspectionIsOfOneBuild` (satisfied means inspected, and an upgrade in between is visible), `UnsatisfiedMeansAbsent`, `ExitMatchesDelivery` |
| `assessment_live` | both modes, 1 host and 1 context probe, 1 candidate, 1 replacement | `HostSuccessIsComplete`, `Exits` |
| `scoped_reader` | two callers, two Closes, 5 descriptors, files of 0 to 3 units against a limit of 2, all directories over 3 names against limits of 2 names and 2 bytes, every method on every kind of inode, 1 change; in memory 145 trees and 90 paths, all those of up to 3 of 4 components among them | `DescriptorsAreOwned`, `ReadsAreFaithful`, `ListingsAreFaithful`, `MemoryAgreesWithKernel`, `OperationsEnd` |
| `configuration` | 50 hosts at rest for 4 kinds of users, 40 changes and a cancellation of one host for the same users, a runtime that is a candidate twice and appears in between, and 3 users for whom nothing is known or selected | `LayeringIsExact`, `VerdictsAreTheHosts`, `StorageIsOneSelection`, `HelpersAreTheHosts` |
| `configuration_cancelled` | one host, cancelled between any two calls | violation of `EveryListedFileIsASource` (below) |

Why the bounds are enough: three probes have every shape of conflict between two
workers over one dependent, and four add the diamond, in which a probe is reached
by two paths; three workers let two finish while a third is parked. The buffer's
writes fill it exactly, overflow it in one and in two writes, and double its array past the
limit. Three definitions give transitive prerequisites and every small cycle. Three
nodes give sharing, cycles of length one to three and a visit count above the
number of nodes; the limits `MaxDepth`, `MaxNodes` and `MaxCandidates` are 3, 4 and
2 there so that each is exceeded by some document or candidate list.

The launchers and accounts include each pair of relations a check distinguishes:
equal, equal but for the groups, same user but other groups, and different; one of
two namespaces may be unreadable on either side.

In `Assessment` two candidates let a lookup go on past a missing or unreadable one, two
builds and one replacement put an upgrade, a removal or a loss of permission between
any two looks, and one prerequisite probe interleaves with the commands.

For the reader, one change is a replacement, a growth, a shrinking, or a name that comes or
goes, before, between or after any two calls; two callers and two Closes are the smallest
numbers that race, and other code with one descriptor of its own is enough to receive
a number that was given back too early. File lengths lie below, at and above the
limit, and a chunk is as long as the limit, so that it is met exactly and
exceeded in one read or in two; a name of two bytes exceeds the byte limit with the
entry limit not reached. Callers that read share nothing but the descriptor table, so most
methods run alone with a Close; the scenarios with two callers let their descriptors
interleave. In memory a tree of two nodes and their children under the root has cycles,
chains, links out of the root by name and by `..`, and absolute targets in and out; with at
most two links followed, chains end on both sides of the limit.

For the configuration, each host differs from a plain one in what one branch of the code
distinguishes, and the change meets a host whose files disagree with each other, so
that a file seen before and one seen after the change give different verdicts. The limits
`MaxConfigSources` (7), `MaxConfigTotalBytes` (8), `MaxConfigList` (4),
`MaxExecutableCandidates` (5) and `MaxStoragePaths` (3) are each exceeded by some host. One
change per behaviour is a bound: two changes could make files of three moments meet.

`Decision` stops at its verdict, `Configuration` at its report, `Assessment` when the process ends and
`ScopedReader` after the last call, so their runs do not check deadlock; all others do.

### Fairness

* `Orchestrator`: weak fairness of the calling goroutine and of every worker. The Go
  scheduler runs every runnable goroutine and its mutexes do not starve. This
  includes that `Probe.Run` returns, which `probe.go` makes the probe's obligation
  ("a probe that blocks indefinitely will block its worker"). Cancellation is never
  required to happen.
* `CommandRunner`: weak fairness of the runner's goroutines, of os/exec's and of the
  timers. Nothing is assumed of the child, its descendants or the caller.
* `TargetDelegation`: weak fairness of the launcher, the runner's timer, its signal and
  its kill. Nothing is assumed of the worker.
* `Assessment`: weak fairness of the invocation. Reads are bounded, commands have
  deadlines (`AlwaysReturns`), and probes honour the context. Neither cancellation nor a
  replacement is ever required to happen.
* `ScopedReader`: weak fairness of every call that has begun and of every Close: a system
  call on a regular file or a directory returns. Nothing is assumed of the tree, of other
  code or of the context; interrupted reads may recur as often as the retry limit allows.
* `Decision` and `Configuration` have no liveness property: they are loops over finite lists.

### Findings

1. `internal/probe/doc.go` line 22 promises "results in canonical DAG order regardless of
   completion times". `Run` returns them in registration order, as its own comment
   says; `orchestrator_order` shows a chain registered dependents first, whose results
   all precede what they depend on.
2. `internal/runtime/podman/engine.go` line 204: when the context has ended, `directory` leaves the
   loop over a directory's drop-ins with a bare `break` and clears no completeness flag; `run`
   looks at the context only at the head of its loop over the plan, so nothing is cleared for
   the last directory. The observation is complete without the remaining
   drop-ins, and `internal/app/configuration.go` line 35 drops the error with the comment "Fixed
   diagnostics and completeness retain every collection failure". `configuration_cancelled` shows a listed file that is no source
   of a complete configuration.

A smaller one has no run: `scoped_reader.go` line 72 says that after `Close` all file methods
return `ErrClosed`; `StatFS` looks at its context first and returns that error when the context
has ended. `ClosedForGood` exempts it by name.

### What the properties leave out

* `VerdictsAreTheHosts` exempts a run cancelled between two drop-ins (finding 2), and the two
  storage verdicts when the report's own records disagree on whether a file exists: the
  selection looks for a file in one call and reads it in another, and the records of both are in
  the report (`PhasesAgree`).
* `HelpersAreTheHosts` exempts a helper whose records contradict each other (`Torn`): mode bits
  and access of a file were looked at on either side of a change, or a file that is a candidate
  twice, by the configuration and by `PATH`, was a regular file at one look only. In the second
  case the search may pass over it once as a special file and once as a file that may not be
  executed, and support a later candidate, although the verdict is withheld for the host before
  the change and `misconfigured` for the host after it; the situation `Twice` shows it.
  A candidate that moves from a later to an earlier place of the search between two looks would
  need two changes.
* A definite verdict may be withheld (`unknown`) once the host has changed or the context has
  ended: `Withheld`.
* A reader's call is compared with what was on disk during that call; a file whose content
  changes at the same length is out of its reach, and of the model's.

## Proofs

Every theorem below is a result about the specification for all values of its constants; the
assumptions are those stated in the component's module, which TLC evaluates on the instances.
Each stands on an inductive invariant, because none of the properties is inductive alone: it
says what is true at the end, and the invariant says what each loop, goroutine or process
relies on until then.

### Loops

A loop of the code is a recursive function on its turns, or on the nodes of a tree.
What it computes for every input needs an induction, and `Induction` states that of sets and
functions: every non-empty set of naturals has a least element (`LeastElement`, from the
library's well-founded ordering of finite sets), a set that holds 0 and is closed under
successor holds all naturals (`NatSet`), a step on a set can be repeated any number of times
(`Iteration`), a definition in which each value rests on values of smaller rank has a solution
(`RecursionOnRank`), and a set closed under "everything of smaller rank" is everything
(`InductionOnRank`). The existence lemmas matter because a recursive function is a `CHOOSE`: only
once some function satisfies the equation does the chosen one. The sums over sets that limits
speak of (`FoldSet`) are recursive in the same way: `SumByOne` says that one more element adds its
share, `SumGrows` that a sum over a larger set is no smaller, `SumIsOne` what a cardinality is. `FlattenSeq`,
which joins a list of lists, is one more recursion: the join of nothing is empty and one list more is added at
the end, which is all a fold over layers needs.

### The orchestrator

`ProbeProofs`, for every number of probes and workers and every plan (`SizeAssumption`,
`PlansAssumption`, `ErrorsAssumption`; `AcyclicAssumption` matters for termination only, a cyclic
plan would be unable to finish but would do nothing wrong):

* `TypeCorrect`: `Spec => []TypeOK`;
* `DependenciesFirst`: `Spec => []RunsAfterDependencies`;
* `SkipsAreExact`: `Spec => []SkippedIffDependencyDidNotSucceed`;
* `CompletionIsSound`: `Spec => []AllDoneMeansFinal`;
* `NothingLostOrRunTwice`: `Spec => []ReadyProbeIsInOnePlace`;
* `ImplementsProbeRunSafely`: the initial states map to initial states of `ProbeRun`, and every
  step maps to one of its steps or to a stutter.

`InductiveInv` consists of:

* `RemainingInv`: `remaining[p]` is the number of declared edges to probes that have
  not succeeded, which makes "counter at zero" mean "ready";
* `PendingInv` and `DistinctInv`: whatever is queued, held or released is ready and not
  final, and is in one place only. Hence a worker never finds its probe final, and a
  failure never skips a probe that another worker runs;
* `LocalInv`, `EnqueueInv`: the locals are empty where they are not in use, and nothing
  has happened before the first probes are enqueued;
* `CountInv`: the counter is the number of final probes that no worker still owes to
  it. When it reaches N in `SignalCompletion` nobody owes anything.

`RefinementInv` adds `PresenceInv` (a ready probe is waiting somewhere, or `Run` has yet to come to
it: the half of `ReadyProbeIsInOnePlace` that says nothing is lost), `ClosingInv` (the queue is
closed only after `allDone`) and `OutcomeInv` (an error travels unchanged from `Probe.Run` to the
record, and a cancellation is recorded only after the context ended), which is what `ProbeRun`
asks of an outcome.

The proof has one lemma per action that disturbs the invariant (`EnqueueStep`,
`PopStep`, `RecordSuccessStep`, `RecordOtherStep`, `CountSkippedStep`, `PushStep`,
`SignalStep`), one for the others (`QuietSteps`), and lemmas about the closure
`CascadeSkip` (`CascadeIsClosed`, `CascadeIsCaused`) and about cardinalities.
From it `AllDoneMeansFinal` follows by counting: N final probes are all of them, and a
probe that is final is neither queued nor held.

### The registry

`ProbeProofs`, for every set of probes, whatever finite lists they declare
(`DeclarationsAssumption`, `RegistryAssumption`), every order of registration and any number of
builders:

* `ResolvePublishesTheCanonicalPlan`: `RegistrySpec => []ResolveIsExact`;
* `OrchestratorsRunTheSamePlan`: `RegistrySpec => []BuiltPlansAgree`;
* `SealedRegistryIsFinal`: `RegistrySpec => SealedForever`.

About the loops: after any number of turns of `kahnTopoSort` a probe's in-degree is the number of
its declared dependencies, repeats counted, that are not yet in the plan, the heap holds exactly the probes that owe nothing, and
the plan `Follows` (each probe comes after its dependencies and is the first registered of those
that could have come there); this is `Kahn`, kept by `KahnStepKeeps`. A plan that follows and is full is the
canonical order (`PlanIsAnOrder`, `PlanIsFirst`: look at the least place where another order differs).
A plan that is short leaves no order possible (`StuckMeansNoOrder`: look at the least place of
the order that is not in the plan). `ValidateSays` and `VerdictSays` put the error together,
`DownstreamSays` and `CompilePlanAgrees` count the edges of the compiled plan. `RegistryInv` then says that a
sealed registry holds just that of the declarations it captured, and that a builder past its
`Resolve` meets a sealed registry with a plan: no one can come in between with another.

### The command runner

`CommandRunnerProofs`, for every capacity of the buffer and every size and number of writes
(`BufferAssumption`):

* `RetainsLongestPrefix`: `Spec => []OutputIsBounded`;
* `EverythingIsJoined`: `Spec => []NothingLeftBehind`;
* `ResultTellsWhatHappened`: `Spec => []ResultIsSound`.

`BufferInv` relates the buffer's length and mark to the bytes written. `RunInv` follows the call's
five parties by the position of `run`: `HelperInv` (forwarder and timer), `CauseInv` (the group is
signalled only after the caller's context ended or the timeout fired), `ProcessInv` (child, pipe,
watcher), `ErrorInv` (what `cmd.Run`'s error says of the child) and `ResultInv` (what the result says
stays true while the deferred calls run).

### Target delegation

`TargetDelegationProofs`, for every set of launcher credentials, accounts and namespaces
(`DelegationAssumption`):

* `WorkerIsTheTarget`: `Spec => []CollectsOnlyAsTarget`;
* `NoSubstituteReport`: `Spec => []ReportIsTheTargets`;
* `ReportAnswersTheCaller`: `Spec => []RequirementIsTheCallers`;
* `CommandsEndWithTheWorker`: `Spec => []CommandsAreJoined`;
* `FailuresHaveACause`: `Spec => []DelegationDoesNotFailByItself`.

The inductive invariant `DelegationInv` ties the two processes together:
`IdentityInv` (what the launcher decided about the target still holds when it is used),
`HandshakeInv` (the worker has what was sent, lives only while the launcher waits, and
is signalled only for a reason that makes the runner's call fail), `BootstrapInv` (how far
the drop has come) and `ResponseInv` (a response answers the request). The properties of
the kernel's calls enter through `Called` and `Spawned` only. `CompletionInv` adds what the last two
theorems need: who delegates at all, the credentials after each of the three calls
(`PrivilegeInv`: the user goes last, and with it the privilege the other calls need), and that a worker without an
excuse comes to the end and is believed (`SuccessInv`).

### The decision

`DecisionProofs`, for every catalog of definitions, every dataset and evaluator, every document
and list of candidates, and all limits (`CatalogsAssumption`, `EvidenceAssumption`,
`DocumentsAssumption`, `CandidatesAssumption`, `LimitsAssumption`, `AskedAssumption`: what Go's
types and the callers guarantee of finite maps, slices and tables):

* `TopologicalSortIsSound`: `DecisionSpec => []OrderIsSound`;
* `PrerequisitesCount`: `DecisionSpec => []PrerequisitesGate`;
* `ConsensusOfStrongest`: `DecisionSpec => []ResolutionFollowsStrongest`;
* `DefiniteIsFinal`: `DecisionSpec => []DefiniteVerdictIsFinal`;
* `CompleteEvidenceIsEnough`: `DecisionSpec => []EvidenceDecides`.

`DecisionInv` keeps the catalog and the order as `NewRegistry` left them, and says of the loop of `Evaluate`
that the definitions before the next one are resolved and that each was gated for a
prerequisite that still counts (`VisitInv`); that a definition rests on unsupported ones only
indirectly then follows along the order. The resolver's loop is followed turn by turn: what it has said after some turns (`Says`) is
the consensus of the strongest evidence among what it has seen, and the evidence it lists is just that.
For documents, `PathsAreValid` is shown by induction on the set of active nodes to accept only trees
without cycles, nil nodes and malformed nodes (`AcceptedIsWellFormed`), which gives every
node a rank; along it `ValueSays` and `ValueDecides` compare the three-valued evaluation with
`Holds` for every completion of the evidence. `VerdictInv` carries that to the state.

### The assessment

`AssessmentProofs`, for every search list, every set of host, context and prerequisite probes,
all builds and any number of replacements of the executables (`ProbesAssumption`):

* `LaunchesAuthorized`: `Spec => []LaunchesAreAuthorized`;
* `DeliveryIsExact`: `Spec => []ExitMatchesDelivery`;
* `AbsenceIsExamined`: `Spec => []UnsatisfiedMeansAbsent`;
* `VerdictIsOfOneBuild`: `Spec => []InspectionIsOfOneBuild`;
* `HostSuccessIsEarned`: `Spec => []HostSuccessIsComplete`.

`AssessmentInv` has one part per stage of the invocation: `StageInv` (when the reader is open,
when something may be observed, when there is an exit code), `ObservationInv` (all observations name the one
executable discovery saw), `DiscoveryInv` (where the search looked and what it found there),
`CommandInv` (a command is prepared only with `--active` and a discovered executable),
`LaunchInv` (what is claimed of a build was measured on that build) and `ReportInv` (a report is the
projection of observations that no longer change).

### The reader

`ScopedReaderProofs`, for every number of callers and Closes, every descriptor table and tree on disk and all
limits (`ReaderAssumption`, `ScenariosAssumption`), under the callers' contract that
`scoped_reader.go` line 70 states and the guards of `Begin` and the Closes keep:

* `DescriptorsHaveOneOwner`: `Spec => []DescriptorsAreOwned`;
* `ReadsTellWhatTheyRead`: `Spec => []ReadsAreFaithful`;
* `ListingsTellWhatTheyMet`: `Spec => []ListingsAreFaithful`;
* `MemoryReaderAgrees`: `Spec => []MemoryAgreesWithKernel`.

`ReaderInv` says who owns a number: the reader owns its root until the one Close that swapped it out
releases it (`RootInv`), a call owns what it opened and nothing else is owned by a call (`FdsInv`), and
a call that began on a closed reader stops before it uses the number (`LateInv`). `CheckedInv` says what
`checkedRegular` and `readBounded` know of the file between two calls: the inode of the second
descriptor is the one checked, and the bytes read so far do not exceed some size the file had.

`ListingInv` follows `captureDirectory` from chunk to chunk. The names met so far (those returned and no
longer in the chunk) stay within both limits, which are looked at before the next name is; whatever
was there throughout and was met is in the listing. `SumByOne` gives the step from one name to the next, and
"`limit` is reported only for a directory that has more" holds because the name that breaks a limit was
met, like all before it. A failed lookup clears the listing.

The memory reader is compared with the kernel turn by turn. A call is answered by one walk
(`ResolvedInv`), and as long as the two walks `Going` have come to the same place, each next turn either
brings them to the same place again, or the memory reader reports `escape` or `ELOOP` and keeps that
(`TurnsAlike`, and `WalksAlike` by induction on the turns). The memory reader's bound on links is the smaller
one (`HopsAssumption`: 16 against 40, `scoped_reader.go` lines 19 and 20), so the kernel never gives up first. That
no walk leaves the root (`WalkIsInside`) needs every place on the way to lie at or below the root: a parent
of such a place does too unless the place is the root, where `Leaves` stops the walk (`ParentIsInside`).

### The configuration

`ConfigurationProofs`, for every set of hosts, users, changes and documents and all limits. The one assumption
is what Go's types say of a decoded document (`DocumentsAssumption`): the decoder's verdict is one of its
four, and arrays and texts are finite sequences. The host may change, and the context may end, between
any two calls.

* `ConfigurationIsSound`: `Spec => []ConfigInv`;
* `LayersAreExact`: `Spec => []LayeringIsExact`;
* `StorageIsSelected`: `Spec => []StorageIsOneSelection`.

The merges are incremental and the properties are not: `LayeringIsExact` takes all applied sources at once and
asks which of them set a value, which lists were reset since, and at what offset each element and
each mark ended up. `Means` says the same of a configuration and the layers so far, in parts: a text and
its source (the last layer that has it), a list's values, origins and marks, its append flag and where the
lists still kept begin (`Kept`). One layer more either keeps a list's parts and adds one, or empties them
first (`PartsOneMore`, `KeptOneMore`); its joined values and origins grow at the end, and its marks by an
offset that is the length of what was kept. From that `MergeEngine` and `MergeNetwork` keep `Means`.
A source that is only recorded is a layer that says nothing.

`ConfigInv` is that, of both families at every moment (`Sound`): with it, every source up to an applied one
is `Settled` (parsed, listed, absent, or passed over as Podman passes over it), so nothing is applied past a source that
could not be, and the host holds nothing but known files (`HostsKnown`). Each of the steps either leaves a
family as it is, records a source or applies one (`FamilyStep`).

`StorageSound` adds what the phase of `selectStorage` guarantees: no file has been read for its settings
up to `baseline`; from then on until the roots are expanded the configuration is `ChosenFrom` the file
read last (its settings are that file's and carry its index, its roots are of a file read so far or a
default); and a projection that was found is `OneSelection`, which allows for what expansion changes: the
value of a root and the name `overlay2`.

### Only model-checked

* Liveness, which the prover does not reach: `Terminates`, `AlwaysReturns`, `DelegationEnds`, `Exits`,
  `OperationsEnd`, and the fairness part of `ImplementsProbeRun`.
* `VerdictsAreTheHosts` and `HelpersAreTheHosts`. They compare a report, collected in dozens of calls across a
  change of the host, with all that a host at rest would have answered. Their invariant would have to relate
  what is left of `agenda`, with every directory and link already expanded, to a whole second reading of
  either host: two runs of different length side by side, beyond what the merges need. That the
  configuration such a verdict rests on is what its sources say is proved; that the sources are all the host
  has is checked.
* `ResultsInDagOrder` and `EveryListedFileIsASource`, which do not hold (Findings).

## Not modelled

* Text: procfs and sysfs parsers, TOML and JSON, explanations, and the report beyond its
  completeness and exit code; the validation of commands, arguments and environments.
  It is parsing and formatting with no state between calls.
* `OSPlatformReader` (plain paths, no descriptor kept between calls), the runtime directory's
  checks, the encoding of `security.capability`, and the byte limits of the memory reader.
* Of the configuration: fields treated as another field is, unknown fields (they are only
  counted), quadlet directories, executables found on the host path only, the bound
  `maxStorageAncestors` on the parents looked at for a missing store. `DirectoryAccess` and
  `StatFS` of one store are one step.
* The values that host probes and the info document carry, subordinate ID ranges included.
* Fixtures and flag parsing, and the repository's scripts.
* Deep copies of observations have no counterpart in TLA+, where values are never aliased.
  `FakeCommandRunner` is a test double.

## Plan

What is left, in order:

1. Proofs: `HelpersAreTheHosts`, one probe at a time: only one path changes, so what a probe saw on either
   side is true of one host, unless it is `Torn`. It needs constants constrained as the kernel constrains
   them (a program that may be executed has an execute bit) and room for three roots in `MaxStoragePaths`; then `VerdictsAreTheHosts` for a host at rest.
2. Subordinate ID ranges (`internal/host/subids.go`): totals and overlaps against a set-based
   reference.
3. The quadlet generator's search, beside the helpers of `ConfiguredFiles`.
4. Fixture replay beside the live pipeline: both must reach the same verdict from the same
   observations.
